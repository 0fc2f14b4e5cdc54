-------------------------- MODULE DeviceTrustProofs --------------------------
(***************************************************************************)
(* What DeviceTrust guarantees for every number of devices, requests,      *)
(* challenges and restarts.  All but the refinement holds for both         *)
(* storages: the trust rule needs no exclusion, the single bootstrap does. *)
(***************************************************************************)
EXTENDS DeviceTrust, TLAPS

LEMMA IdleIsRequest == Idle \in Request
<1>1. (CHOOSE d \in Devices : TRUE) \in Devices
  BY DevicesAssumption
<1>2. QED
  BY <1>1 DEF Idle, Request

LEMMA IdleIsIdle == Idle.pc = "idle"
BY DEF Idle

-----------------------------------------------------------------------------
\* Device records, challenges and requests keep their shape, whatever the
\* storage.
THEOREM TypeCorrect == Spec => []TypeOK
<1>1. Init => TypeOK
  BY IdleIsRequest, ChallengesAssumption DEF Init, TypeOK, Challenge, NoChallenge, Challenges
<1>2. TypeOK /\ [Next]_vars => TypeOK'
  <2> SUFFICES ASSUME TypeOK, [Next]_vars PROVE TypeOK'
    OBVIOUS
  <2>1. ASSUME NEW h \in Handlers, NEW d \in Devices, ListDevices(h, d) PROVE TypeOK'
    <3>1. [op |-> "enroll", pc |-> "create", device |-> d, by |-> d, genuine |-> FALSE,
           challenge |-> 0, isFirst |-> IsFirst] \in Request
      BY DEF Request, IsFirst
    <3>2. QED
      BY <2>1, <3>1 DEF ListDevices, Begin, TypeOK, histories
  <2>2. ASSUME NEW h \in Handlers, CreateDevice(h) PROVE TypeOK'
    <3>1. handler[h].device \in Devices
      BY DEF TypeOK, Request
    <3>2. QED
      BY <2>2, <3>1, IdleIsRequest DEF CreateDevice, NewStatus, Return, TypeOK
  <2>3. ASSUME NEW h \in Handlers, NEW by \in Devices, NEW target \in Devices, NEW g \in BOOLEAN,
               ReadApprover(h, by, target, g) PROVE TypeOK'
    <3>1. [op |-> "approve", pc |-> "target", device |-> target, by |-> by,
           genuine |-> g, challenge |-> 0, isFirst |-> FALSE] \in Request
      BY DEF Request
    <3>2. QED
      BY <2>3, <3>1 DEF ReadApprover, Begin, TypeOK, histories
  <2>4. ASSUME NEW h \in Handlers, ReadTarget(h) PROVE TypeOK'
    <3>1. handler' \in [Handlers -> Request]
      <4>1. CASE Return(h)
        BY <4>1, IdleIsRequest DEF Return, TypeOK
      <4>2. CASE Proceed(h, "set")
        BY <4>2 DEF Proceed, TypeOK, Request
      <4>3. QED
        BY <2>4, <4>1, <4>2 DEF ReadTarget
    <3>2. QED
      BY <2>4, <3>1 DEF ReadTarget, TypeOK, histories
  <2>5. ASSUME NEW h \in Handlers, SetApproved(h) PROVE TypeOK'
    <3>1. handler[h].device \in Devices /\ handler[h].by \in Devices
      BY DEF TypeOK, Request
    <3>2. QED
      BY <2>5, <3>1, IdleIsRequest DEF SetApproved, Return, TypeOK
  <2>6. ASSUME NEW d \in Devices, CreateChallenge(d) PROVE TypeOK'
    <3>1. minted' \in Challenges
      BY <2>6, ChallengesAssumption DEF CreateChallenge, NewChallenge, TypeOK, Challenges
    <3>2. QED
      BY <2>6, <3>1 DEF CreateChallenge, TypeOK, Challenge, histories
  <2>7. ASSUME NEW h \in Handlers, NEW d \in Devices, NEW g \in BOOLEAN, ConsumeChallenge(h, d, g) PROVE TypeOK'
    <3>1. store[d] \in Challenge
      BY DEF TypeOK
    <3>2. Consumes(store[d]) \in Challenge
      BY <3>1 DEF Consumes, Challenge
    <3>3. [op |-> "assert", pc |-> "device", device |-> d, by |-> d, genuine |-> g,
           challenge |-> store[d].id, isFirst |-> FALSE] \in Request
      BY <3>1 DEF Request, Challenge
    <3>4. QED
      BY <2>7, <3>2, <3>3 DEF ConsumeChallenge, Begin, TypeOK, histories
  <2>8. ASSUME NEW h \in Handlers, OpenSession(h) PROVE TypeOK'
    <3>1. handler[h].challenge \in Challenges \cup {0}
      BY DEF TypeOK, Request
    <3>2. opened' \in [Challenges -> Nat]
      <4> DEFINE c == handler[h].challenge
      <4>1. PICK n : opened' = [opened EXCEPT ![c] = n] /\ n \in {opened[c], opened[c] + 1}
        BY <2>8 DEF OpenSession
      <4>2. opened \in [Challenges -> Nat]
        BY DEF TypeOK
      <4>3. CASE c \in Challenges
        <5>1. opened[c] \in Nat
          BY <4>2, <4>3
        <5>2. n \in Nat
          BY <4>1, <5>1
        <5>3. QED
          BY <4>1, <4>2, <5>2
      <4>4. CASE c \notin Challenges
        BY <4>1, <4>2, <4>4
      <4>5. QED
        BY <4>3, <4>4
    <3>3. handler' \in [Handlers -> Request]
      BY <2>8, IdleIsRequest DEF OpenSession, Return, TypeOK
    <3>4. QED
      BY <2>8, <3>2, <3>3 DEF OpenSession, TypeOK
  <2>9. ASSUME NEW h \in Handlers, NEW d \in Devices, VerifyToken(h, d) PROVE TypeOK'
    <3>1. [op |-> "serve", pc |-> "device", device |-> d, by |-> d, genuine |-> FALSE,
           challenge |-> 0, isFirst |-> FALSE] \in Request
      BY DEF Request
    <3>2. QED
      BY <2>9, <3>1 DEF VerifyToken, Begin, TypeOK, histories
  <2>10. ASSUME NEW h \in Handlers, Guard(h) PROVE TypeOK'
    <3>1. handler[h].device \in Devices
      BY DEF TypeOK, Request
    <3>2. QED
      BY <2>10, <3>1, IdleIsRequest DEF Guard, Return, TypeOK
  <2>11. Restart => TypeOK'
    BY IdleIsRequest DEF Restart, TypeOK, Challenge, NoChallenge, histories
  <2>12. UNCHANGED vars => TypeOK'
    BY DEF vars, TypeOK
  <2>13. QED
    BY <2>1, <2>2, <2>3, <2>4, <2>5, <2>6, <2>7, <2>8, <2>9, <2>10, <2>11, <2>12 DEF Next
<1>3. QED
  BY <1>1, <1>2, PTL DEF Spec

-----------------------------------------------------------------------------
(* Where trust comes from. *)

Exists == \E d \in Devices : dev[d] # "none"

\* What a device carries: created approved, let through or vouching, it is approved.
OnlyApproved == /\ first \subseteq Approved
                /\ served \subseteq Approved
                /\ \A d \in Devices : voucher[d] \subseteq Approved

\* What a request under way has found and nobody takes back.
Creating == \A h \in Handlers : handler[h].pc = "create" =>
                /\ dev[handler[h].device] = "none"
                /\ handler[h].isFirst \/ Exists
Creators == \A g, h \in Handlers :
                handler[g].pc = "create" /\ handler[h].pc = "create"
                   /\ handler[g].device = handler[h].device => g = h
Approving == \A h \in Handlers : handler[h].pc \in {"target", "set"} => handler[h].by \in Approved
Targeting == \A h \in Handlers : handler[h].pc = "set" => dev[handler[h].device] # "none"

Rooted == /\ TypeOK
          /\ OnlyApproved
          /\ Creating /\ Creators /\ Approving /\ Targeting
          /\ SomeoneTrusted
          /\ TrustIsRooted

\* A step that leaves the records alone, adds only approved devices to the
\* served ones and keeps what requests have found, keeps trust rooted.
LEMMA TrustStays ==
    ASSUME Rooted, UNCHANGED <<dev, first, voucher>>,
           served' \subseteq Approved
    PROVE  OnlyApproved' /\ SomeoneTrusted' /\ TrustIsRooted'
<1>1. Approved' = Approved /\ Exists' = Exists
  BY DEF Approved, Exists
<1>2. OnlyApproved'
  BY <1>1 DEF Rooted, OnlyApproved
<1>3. SomeoneTrusted'
  BY <1>1 DEF Rooted, SomeoneTrusted, Exists
<1>4. TrustIsRooted'
  BY <1>1 DEF Rooted, OnlyApproved, TrustIsRooted
<1>5. QED
  BY <1>2, <1>3, <1>4

\* A slot that returns, or takes a request with nothing found yet, leaves what
\* the other requests have found.
LEMMA FoundStays ==
    ASSUME Rooted, UNCHANGED dev, NEW h \in Handlers, NEW r,
           handler' = [handler EXCEPT ![h] = r],
           r.pc \in {"idle", "device"}
    PROVE  Creating' /\ Creators' /\ Approving' /\ Targeting'
<1>1. \A g \in Handlers : g # h => handler'[g] = handler[g]
  BY DEF Rooted, TypeOK
<1>2. handler'[h] = r
  BY DEF Rooted, TypeOK
<1>3. Approved' = Approved /\ Exists' = Exists
  BY DEF Approved, Exists
<1>4. QED
  BY <1>1, <1>2, <1>3 DEF Rooted, Creating, Creators, Approving, Targeting

\* The heart of the matter: an attestation by another approved device keeps
\* trust rooted.
LEMMA AttestationRoots ==
    ASSUME Rooted, NEW t \in Devices, NEW a \in Approved, dev[t] # "approved",
           dev' = [dev EXCEPT ![t] = "approved"],
           voucher' = [voucher EXCEPT ![t] = {a}],
           UNCHANGED <<first, served>>
    PROVE  TrustIsRooted'
<1>1. Approved' = Approved \cup {t} /\ t \notin Approved
  BY DEF Approved, Rooted, TypeOK
<1>2. /\ voucher'[t] = {a}
      /\ \A d \in Devices \ {t} : voucher'[d] = voucher[d]
  BY DEF Rooted, TypeOK
<1>3. SUFFICES ASSUME NEW S \in SUBSET ((Approved' \cup served') \ first'), S # {}
               PROVE  \E d \in S : voucher'[d] \ S # {}
  BY DEF TrustIsRooted
<1>4. a # t /\ S \ {t} \in SUBSET ((Approved \cup served) \ first)
  BY <1>1
<1>5. S \subseteq Devices
  BY <1>1 DEF Approved, Rooted, OnlyApproved
<1>6. CASE t \in S /\ a \notin S
  BY <1>6, <1>2
<1>7. CASE t \notin S \/ a \in S
  <2>1. S \ {t} # {}
    BY <1>3, <1>4, <1>7
  <2>2. PICK d \in S \ {t} : voucher[d] \ (S \ {t}) # {}
    BY <1>4, <2>1 DEF Rooted, TrustIsRooted
  <2>3. t \notin voucher[d]
    BY <1>1, <1>5 DEF Rooted, OnlyApproved
  <2>4. QED
    BY <1>2, <1>5, <2>2, <2>3
<1>8. QED
  BY <1>6, <1>7

LEMMA RootedInit == Init => Rooted
<1> SUFFICES ASSUME Init PROVE Rooted
  OBVIOUS
<1>1. TypeOK
  BY IdleIsRequest, ChallengesAssumption DEF Init, TypeOK, Challenge, NoChallenge, Challenges
<1>2. Approved = {} /\ ~Exists
  BY DEF Init, Approved, Exists
<1>3. Creating /\ Creators /\ Approving /\ Targeting
  BY IdleIsIdle DEF Init, Creating, Creators, Approving, Targeting
<1>4. OnlyApproved /\ SomeoneTrusted /\ TrustIsRooted
  BY <1>2 DEF Init, OnlyApproved, SomeoneTrusted, TrustIsRooted, Exists
<1>5. QED
  BY <1>1, <1>3, <1>4 DEF Rooted

\* CreateDevice: the first device is approved, another one is pending.
LEMMA RootedCreate ==
    ASSUME Rooted, NEW h \in Handlers, CreateDevice(h)
    PROVE  OnlyApproved' /\ SomeoneTrusted' /\ TrustIsRooted'
              /\ Creating' /\ Creators' /\ Approving' /\ Targeting'
<1> DEFINE r == handler[h]
<1>0. r \in Request /\ r.device \in Devices /\ r.pc = "create"
  BY DEF CreateDevice, Rooted, TypeOK, Request
<1>1. dev[r.device] = "none" /\ (r.isFirst \/ Exists)
  BY <1>0 DEF Rooted, Creating
<1>2. /\ \A g \in Handlers \ {h} : handler'[g] = handler[g]
      /\ handler'[h].pc = "idle"
  BY IdleIsIdle DEF CreateDevice, NewStatus, Return, Rooted, TypeOK
<1>3. /\ dev'[r.device] = IF r.isFirst THEN "approved" ELSE "pending"
      /\ \A d \in Devices \ {r.device} : dev'[d] = dev[d]
  BY <1>0 DEF CreateDevice, NewStatus, Rooted, TypeOK
<1>4. Approved' = IF r.isFirst THEN Approved \cup {r.device} ELSE Approved
  BY <1>0, <1>1, <1>3 DEF Approved
<1>5. Exists'
  BY <1>0, <1>3 DEF Exists
<1>6. UNCHANGED <<voucher, served>> /\ first' = IF r.isFirst THEN first \cup {r.device} ELSE first
  BY DEF CreateDevice
<1>7. OnlyApproved'
  BY <1>4, <1>6 DEF OnlyApproved, Rooted
<1>8. SomeoneTrusted'
  BY <1>1, <1>4 DEF SomeoneTrusted, Rooted, Exists
<1>9. TrustIsRooted'
  <2>1. (Approved' \cup served') \ first' \subseteq (Approved \cup served) \ first
    BY <1>4, <1>6
  <2>2. QED
    BY <2>1, <1>6 DEF TrustIsRooted, Rooted
<1>10. Creating'
  <2>1. SUFFICES ASSUME NEW g \in Handlers, handler'[g].pc = "create"
                 PROVE  dev'[handler'[g].device] = "none"
    BY <1>5 DEF Creating
  <2>2. g # h /\ handler'[g] = handler[g]
    BY <1>2, <2>1
  <2>3. handler[g].device # r.device
    BY <1>0, <2>1, <2>2 DEF Rooted, Creators
  <2>4. handler[g].device \in Devices
    BY DEF Rooted, TypeOK, Request
  <2>5. QED
    BY <1>3, <2>1, <2>2, <2>3, <2>4 DEF Rooted, Creating
<1>11. Creators'
  BY <1>2 DEF Rooted, Creators
<1>12. Approving'
  BY <1>2, <1>4 DEF Rooted, Approving
<1>13. Targeting'
  <2>1. SUFFICES ASSUME NEW g \in Handlers, handler'[g].pc = "set"
                 PROVE  dev'[handler'[g].device] # "none"
    BY DEF Targeting
  <2>2. handler'[g] = handler[g] /\ handler[g].device \in Devices
    BY <1>2, <2>1 DEF Rooted, TypeOK, Request
  <2>3. QED
    BY <1>3, <2>1, <2>2 DEF Rooted, Targeting
<1>14. QED
  BY <1>7, <1>8, <1>9, <1>10, <1>11, <1>12, <1>13

\* SetApproved: an attestation is stored.
LEMMA RootedApprove ==
    ASSUME Rooted, NEW h \in Handlers, SetApproved(h)
    PROVE  OnlyApproved' /\ SomeoneTrusted' /\ TrustIsRooted'
              /\ Creating' /\ Creators' /\ Approving' /\ Targeting'
<1> DEFINE r == handler[h]
<1>0. r \in Request /\ r.device \in Devices /\ r.pc = "set" /\ r.by \in Approved
  BY DEF SetApproved, Rooted, TypeOK, Request, Approving
<1>1. dev[r.device] # "none"
  BY <1>0 DEF Rooted, Targeting
<1>2. /\ \A g \in Handlers \ {h} : handler'[g] = handler[g]
      /\ handler'[h].pc = "idle"
  BY IdleIsIdle DEF SetApproved, Return, Rooted, TypeOK
<1>3. /\ dev' = [dev EXCEPT ![r.device] = "approved"]
      /\ UNCHANGED <<first, served>>
      /\ voucher' = [voucher EXCEPT ![r.device] = IF dev[r.device] = "approved" THEN @ ELSE {r.by}]
  BY DEF SetApproved
<1>4. Approved' = Approved \cup {r.device} /\ Exists'
  BY <1>0, <1>1, <1>3 DEF Approved, Rooted, TypeOK, Exists
<1>5. OnlyApproved'
  BY <1>0, <1>3, <1>4 DEF OnlyApproved, Rooted, TypeOK
<1>6. SomeoneTrusted'
  BY <1>4 DEF SomeoneTrusted
<1>7. TrustIsRooted'
  <2>1. CASE dev[r.device] = "approved"
    <3>1. dev' = dev /\ voucher' = voucher
      BY <1>0, <1>3, <2>1 DEF Rooted, TypeOK
    <3>2. QED
      BY <1>3, <3>1, TrustStays DEF Rooted, OnlyApproved
  <2>2. CASE dev[r.device] # "approved"
    BY <1>0, <1>3, <2>2, AttestationRoots
  <2>3. QED
    BY <2>1, <2>2
<1>8. Creating'
  <2>1. SUFFICES ASSUME NEW g \in Handlers, handler'[g].pc = "create"
                 PROVE  dev'[handler'[g].device] = "none"
    BY <1>4 DEF Creating
  <2>2. handler'[g] = handler[g] /\ dev[handler[g].device] = "none"
    BY <1>2, <2>1 DEF Rooted, Creating
  <2>3. QED
    BY <1>1, <1>3, <2>2 DEF Rooted, TypeOK, Request
<1>9. Creators' /\ Approving'
  BY <1>2, <1>4 DEF Rooted, Creators, Approving
<1>10. Targeting'
  <2>1. SUFFICES ASSUME NEW g \in Handlers, handler'[g].pc = "set"
                 PROVE  dev'[handler'[g].device] # "none"
    BY DEF Targeting
  <2>2. handler'[g] = handler[g] /\ handler[g].device \in Devices
    BY <1>2, <2>1 DEF Rooted, TypeOK, Request
  <2>3. QED
    BY <1>3, <2>1, <2>2 DEF Rooted, Targeting, TypeOK
<1>11. QED
  BY <1>5, <1>6, <1>7, <1>8, <1>9, <1>10

LEMMA RootedNext == Rooted /\ TypeOK' /\ [Next]_vars => Rooted'
<1> SUFFICES ASSUME Rooted, TypeOK', [Next]_vars PROVE Rooted'
  OBVIOUS
<1>0. served \subseteq Approved /\ handler \in [Handlers -> Request] /\ Idle.pc = "idle"
  BY IdleIsIdle DEF Rooted, OnlyApproved, TypeOK
<1>1. ASSUME NEW h \in Handlers, NEW d \in Devices, ListDevices(h, d) PROVE Rooted'
  <2>1. UNCHANGED <<dev, first, voucher, served>>
    BY <1>1 DEF ListDevices, histories
  <2>2. /\ \A g \in Handlers \ {h} : handler'[g] = handler[g]
        /\ handler'[h].pc = "create" /\ handler'[h].device = d /\ handler'[h].isFirst = IsFirst
    BY <1>0, <1>1 DEF ListDevices, Begin
  <2>3. Creating' /\ Creators' /\ Approving' /\ Targeting'
    <3>1. Exists' = Exists /\ Approved' = Approved /\ dev' = dev
      BY <2>1 DEF Exists, Approved
    <3>2. IsFirst \/ Exists
      BY DEF IsFirst, Exists
    <3>3. dev[d] = "none" /\ \A g \in Handlers : handler[g].pc = "create" => handler[g].device # d
      BY <1>1 DEF ListDevices
    <3>4. Creating'
      BY <2>2, <3>1, <3>2, <3>3 DEF Rooted, Creating
    <3>5. Creators'
      BY <2>2, <3>3 DEF Rooted, Creators
    <3>6. Approving' /\ Targeting'
      BY <2>2, <3>1 DEF Rooted, Approving, Targeting
    <3>7. QED
      BY <3>4, <3>5, <3>6
  <2>4. QED
    BY <1>0, <2>1, <2>3, TrustStays DEF Rooted
<1>2. ASSUME NEW h \in Handlers, CreateDevice(h) PROVE Rooted'
  BY <1>2, RootedCreate DEF Rooted
<1>3. ASSUME NEW h \in Handlers, NEW by \in Devices, NEW target \in Devices, NEW g \in BOOLEAN,
             ReadApprover(h, by, target, g) PROVE Rooted'
  <2>1. UNCHANGED <<dev, first, voucher, served>> /\ by \in Approved
    BY <1>3 DEF ReadApprover, histories, Trusts, Approved
  <2>2. /\ \A k \in Handlers \ {h} : handler'[k] = handler[k]
        /\ handler'[h].pc = "target" /\ handler'[h].by = by
    BY <1>0, <1>3 DEF ReadApprover, Begin
  <2>3. Exists' = Exists /\ Approved' = Approved
    BY <2>1 DEF Exists, Approved
  <2>4. Creating' /\ Creators' /\ Approving' /\ Targeting'
    BY <2>1, <2>2, <2>3 DEF Rooted, Creating, Creators, Approving, Targeting
  <2>5. QED
    BY <1>0, <2>1, <2>4, TrustStays DEF Rooted
<1>4. ASSUME NEW h \in Handlers, ReadTarget(h) PROVE Rooted'
  <2>1. UNCHANGED <<dev, first, voucher, served>>
    BY <1>4 DEF ReadTarget, histories
  <2>2. CASE Return(h)
    BY <1>0, <2>1, <2>2, TrustStays, FoundStays DEF Rooted, Return
  <2>3. CASE Proceed(h, "set") /\ dev[handler[h].device] # "none"
    <3>1. /\ \A k \in Handlers \ {h} : handler'[k] = handler[k]
          /\ handler'[h].pc = "set"
          /\ handler'[h].by = handler[h].by /\ handler'[h].device = handler[h].device
      BY <1>0, <2>3 DEF Proceed, Request
    <3>2. Exists' = Exists /\ Approved' = Approved /\ dev' = dev
      BY <2>1 DEF Exists, Approved
    <3>3. handler[h].pc = "target"
      BY <1>4 DEF ReadTarget
    <3>4. Creating' /\ Creators'
      BY <3>1, <3>2 DEF Rooted, Creating, Creators
    <3>5. Approving' /\ Targeting'
      BY <2>3, <3>1, <3>2, <3>3 DEF Rooted, Approving, Targeting
    <3>6. QED
      BY <1>0, <2>1, <3>4, <3>5, TrustStays DEF Rooted
  <2>4. QED
    BY <1>4, <2>2, <2>3 DEF ReadTarget
<1>5. ASSUME NEW h \in Handlers, SetApproved(h) PROVE Rooted'
  BY <1>5, RootedApprove DEF Rooted
<1>6. ASSUME NEW d \in Devices, CreateChallenge(d) PROVE Rooted'
  <2>1. UNCHANGED <<dev, first, voucher, served, handler>>
    BY <1>6 DEF CreateChallenge, histories
  <2>2. Creating' /\ Creators' /\ Approving' /\ Targeting'
    BY <2>1 DEF Rooted, Creating, Creators, Approving, Targeting, Exists, Approved
  <2>3. QED
    BY <1>0, <2>1, <2>2, TrustStays DEF Rooted
<1>7. ASSUME NEW h \in Handlers, NEW d \in Devices, NEW g \in BOOLEAN, ConsumeChallenge(h, d, g) PROVE Rooted'
  <2>1. UNCHANGED <<dev, first, voucher, served>>
    BY <1>7 DEF ConsumeChallenge, histories
  <2>2. PICK r : /\ r = [op |-> "assert", pc |-> "device", device |-> d, by |-> d, genuine |-> g,
                         challenge |-> store[d].id, isFirst |-> FALSE]
                 /\ handler' = [handler EXCEPT ![h] = r]
    BY <1>7 DEF ConsumeChallenge, Begin
  <2>3. QED
    BY <1>0, <2>1, <2>2, TrustStays, FoundStays DEF Rooted
<1>8. ASSUME NEW h \in Handlers, OpenSession(h) PROVE Rooted'
  <2>1. UNCHANGED <<dev, first, voucher, served>> /\ Return(h)
    BY <1>8 DEF OpenSession
  <2>2. QED
    BY <1>0, <2>1, TrustStays, FoundStays DEF Rooted, Return
<1>9. ASSUME NEW h \in Handlers, NEW d \in Devices, VerifyToken(h, d) PROVE Rooted'
  <2>1. UNCHANGED <<dev, first, voucher, served>>
    BY <1>9 DEF VerifyToken, histories
  <2>2. PICK r : /\ r = [op |-> "serve", pc |-> "device", device |-> d, by |-> d, genuine |-> FALSE,
                         challenge |-> 0, isFirst |-> FALSE]
                 /\ handler' = [handler EXCEPT ![h] = r]
    BY <1>9 DEF VerifyToken, Begin
  <2>3. QED
    BY <1>0, <2>1, <2>2, TrustStays, FoundStays DEF Rooted
<1>10. ASSUME NEW h \in Handlers, Guard(h) PROVE Rooted'
  <2>1. UNCHANGED <<dev, first, voucher>> /\ Return(h)
    BY <1>10 DEF Guard
  <2>2. handler[h].device \in Devices
    BY <1>0 DEF Request
  <2>3. served' \subseteq Approved
    BY <1>0, <1>10, <2>2 DEF Guard, Guards, Approved
  <2>4. QED
    BY <1>0, <2>1, <2>3, TrustStays, FoundStays DEF Rooted, Return
<1>11. CASE Restart
  <2>1. UNCHANGED <<dev, first, voucher, served>>
    BY <1>11 DEF Restart, histories
  <2>2. \A h \in Handlers : handler'[h].pc = "idle"
    BY <1>0, <1>11 DEF Restart
  <2>3. Creating' /\ Creators' /\ Approving' /\ Targeting'
    BY <2>2 DEF Creating, Creators, Approving, Targeting
  <2>4. QED
    BY <1>0, <2>1, <2>3, TrustStays DEF Rooted
<1>12. CASE UNCHANGED vars
  <2>1. UNCHANGED <<dev, first, voucher, served, handler>>
    BY <1>12 DEF vars
  <2>2. Creating' /\ Creators' /\ Approving' /\ Targeting'
    BY <2>1 DEF Rooted, Creating, Creators, Approving, Targeting, Exists, Approved
  <2>3. QED
    BY <1>0, <2>1, <2>2, TrustStays DEF Rooted
<1>13. QED
  BY <1>1, <1>2, <1>3, <1>4, <1>5, <1>6, <1>7, <1>8, <1>9, <1>10, <1>11, <1>12 DEF Next

\* What requests have found stays true, and trust stays rooted, in every state.
THEOREM RootedInvariant == Spec => []Rooted
<1>1. QED
  BY TypeCorrect, RootedInit, RootedNext, PTL DEF Spec

\* Trust comes from a device created approved, through attestations only,
\* whatever interleaves and whichever storage the server has.
THEOREM TrustRooted == Spec => []TrustIsRooted
<1>1. Rooted => TrustIsRooted
  BY DEF Rooted
<1>2. QED
  BY <1>1, RootedInvariant, PTL

\* An account that has a device has a trusted one, also when enrolments race.
THEOREM SomeoneIsTrusted == Spec => []SomeoneTrusted
<1>1. Rooted => SomeoneTrusted
  BY DEF Rooted
<1>2. QED
  BY <1>1, RootedInvariant, PTL

-----------------------------------------------------------------------------
(* Challenges. *)

Asserting(h) == handler[h].pc = "device" /\ handler[h].op = "assert"

\* Of the challenges minted, those still unused are in one place and have opened
\* nothing; one an assertion has used up opens a session through it only.
Spent ==
    /\ TypeOK
    /\ \A d \in Devices : store[d].id =< minted /\ (store[d].id = 0 => store[d].used)
    /\ \A d, e \in Devices : store[d].id # 0 /\ store[d].id = store[e].id => d = e
    /\ \A d \in Devices : ~store[d].used => opened[store[d].id] = 0
    /\ \A c \in Challenges : c > minted => opened[c] = 0
    /\ \A h \in Handlers : Asserting(h) =>
          /\ handler[h].challenge \in 1..minted
          /\ opened[handler[h].challenge] = 0
          /\ \A d \in Devices : store[d].id = handler[h].challenge => store[d].used
    /\ \A g, h \in Handlers :
          Asserting(g) /\ Asserting(h) /\ handler[g].challenge = handler[h].challenge => g = h
    /\ OneSessionPerChallenge

\* A step of another kind: challenges and sessions stay, and the slot asserts nothing.
LEMMA SpentStays ==
    ASSUME Spent, TypeOK', UNCHANGED <<store, minted, opened>>,
           \A h \in Handlers : handler'[h] = handler[h] \/ ~Asserting(h)'
    PROVE  Spent'
BY DEF Spent, Asserting, OneSessionPerChallenge

LEMMA SpentNext == Spent /\ TypeOK' /\ [Next]_vars => Spent'
<1> SUFFICES ASSUME Spent, TypeOK', [Next]_vars PROVE Spent'
  OBVIOUS
<1>0. handler \in [Handlers -> Request] /\ Idle.pc = "idle"
  BY IdleIsIdle DEF Spent, TypeOK
<1>1. ASSUME NEW h \in Handlers, NEW d \in Devices, ListDevices(h, d) PROVE Spent'
  BY <1>0, <1>1, SpentStays DEF ListDevices, Begin, Asserting, histories
<1>2. ASSUME NEW h \in Handlers, CreateDevice(h) PROVE Spent'
  BY <1>0, <1>2, SpentStays DEF CreateDevice, Return, Asserting
<1>3. ASSUME NEW h \in Handlers, NEW by \in Devices, NEW target \in Devices, NEW g \in BOOLEAN,
             ReadApprover(h, by, target, g) PROVE Spent'
  BY <1>0, <1>3, SpentStays DEF ReadApprover, Begin, Asserting, histories
<1>4. ASSUME NEW h \in Handlers, ReadTarget(h) PROVE Spent'
  BY <1>0, <1>4, SpentStays DEF ReadTarget, Return, Proceed, Asserting, Request, histories
<1>5. ASSUME NEW h \in Handlers, SetApproved(h) PROVE Spent'
  BY <1>0, <1>5, SpentStays DEF SetApproved, Return, Asserting
<1>6. ASSUME NEW d \in Devices, CreateChallenge(d) PROVE Spent'
  <2>1. UNCHANGED <<handler, opened>> /\ minted' = minted + 1 /\ minted < MaxChallenges
    BY <1>6 DEF CreateChallenge, NewChallenge, histories
  <2>2. /\ store'[d] = [id |-> minted + 1, used |-> FALSE]
        /\ \A e \in Devices \ {d} : store'[e] = store[e]
    BY <1>6 DEF CreateChallenge, NewChallenge, Spent, TypeOK
  <2>3. minted \in Nat /\ minted' \in Challenges
    BY <2>1, ChallengesAssumption DEF Spent, TypeOK, Challenges
  <2>4. \A e \in Devices : store[e].id \in Nat
    BY ChallengesAssumption DEF Spent, TypeOK, Challenge, Challenges
  <2>5. \A e \in Devices : store'[e].id =< minted' /\ (store'[e].id = 0 => store'[e].used)
    BY <2>1, <2>2, <2>3, <2>4 DEF Spent
  <2>6. \A e, f \in Devices : store'[e].id # 0 /\ store'[e].id = store'[f].id => e = f
    BY <2>2, <2>3, <2>4 DEF Spent
  <2>7. opened[minted + 1] = 0
    BY <2>1, <2>3 DEF Spent
  <2>8. \A e \in Devices : ~store'[e].used => opened'[store'[e].id] = 0
    BY <2>1, <2>2, <2>7 DEF Spent
  <2>9. \A c \in Challenges : c > minted' => opened'[c] = 0
    BY <2>1, <2>3, ChallengesAssumption DEF Spent, Challenges
  <2>10. \A h \in Handlers : Asserting(h)' =>
            /\ handler'[h].challenge \in 1..minted'
            /\ opened'[handler'[h].challenge] = 0
            /\ \A e \in Devices : store'[e].id = handler'[h].challenge => store'[e].used
    BY <2>1, <2>2, <2>3 DEF Spent, Asserting
  <2>11. QED
    BY <2>1, <2>5, <2>6, <2>8, <2>9, <2>10 DEF Spent, Asserting, OneSessionPerChallenge
<1>7. ASSUME NEW h \in Handlers, NEW d \in Devices, NEW g \in BOOLEAN, ConsumeChallenge(h, d, g) PROVE Spent'
  <2> DEFINE c == store[d].id
  <2>1. UNCHANGED <<minted, opened>> /\ ~store[d].used
    BY <1>7 DEF ConsumeChallenge, histories
  <2>2. /\ store'[d].id = c /\ store'[d].used
        /\ \A e \in Devices \ {d} : store'[e] = store[e]
    BY <1>7 DEF ConsumeChallenge, Consumes, Spent, TypeOK, Challenge
  <2>3. /\ Asserting(h)' /\ handler'[h].challenge = c
        /\ \A k \in Handlers \ {h} : handler'[k] = handler[k]
    BY <1>0, <1>7 DEF ConsumeChallenge, Begin, Asserting
  <2>4. c \in 1..minted /\ opened[c] = 0
    BY <2>1, ChallengesAssumption DEF Spent, TypeOK, Challenge, Challenges
  <2>5. \A e \in Devices : store'[e].id = store[e].id /\ (store[e].used => store'[e].used)
    BY <2>2
  <2>6. \A k \in Handlers : Asserting(k)' =>
            /\ handler'[k].challenge \in 1..minted'
            /\ opened'[handler'[k].challenge] = 0
            /\ \A e \in Devices : store'[e].id = handler'[k].challenge => store'[e].used
    <3>1. \A e \in Devices : store[e].id = c => e = d
      BY <2>4 DEF Spent
    <3>2. QED
      BY <2>1, <2>2, <2>3, <2>4, <2>5, <3>1 DEF Spent, Asserting
  <2>7. \A k \in Handlers : Asserting(k) => handler[k].challenge # c
    BY <2>1 DEF Spent
  <2>8. \A k, l \in Handlers :
          Asserting(k)' /\ Asserting(l)' /\ handler'[k].challenge = handler'[l].challenge => k = l
    BY <2>3, <2>7 DEF Spent, Asserting
  <2>9. QED
    BY <2>1, <2>2, <2>5, <2>6, <2>8 DEF Spent, OneSessionPerChallenge
<1>8. ASSUME NEW h \in Handlers, OpenSession(h) PROVE Spent'
  <2> DEFINE c == handler[h].challenge
  <2>1. Asserting(h) /\ UNCHANGED <<store, minted>>
    BY <1>8 DEF OpenSession, Asserting
  <2>2. /\ ~Asserting(h)'
        /\ \A k \in Handlers \ {h} : handler'[k] = handler[k]
    BY <1>0, <1>8 DEF OpenSession, Return, Asserting
  <2>3. c \in 1..minted /\ minted \in Nat /\ c \in Challenges /\ opened[c] = 0
    BY <2>1, ChallengesAssumption DEF Spent, TypeOK, Challenges
  <2>4. PICK n : opened' = [opened EXCEPT ![c] = n] /\ n \in {opened[c], opened[c] + 1}
    BY <1>8 DEF OpenSession
  <2>5. opened'[c] \in {0, 1} /\ \A x \in Challenges \ {c} : opened'[x] = opened[x]
    BY <2>3, <2>4 DEF Spent, TypeOK
  <2>6. \A d \in Devices : store[d].id = c => store[d].used
    BY <2>1 DEF Spent
  <2>7. \A d \in Devices : ~store'[d].used => opened'[store'[d].id] = 0
    <3>1. SUFFICES ASSUME NEW d \in Devices, ~store[d].used PROVE opened'[store[d].id] = 0
      BY <2>1
    <3>2. store[d].id \in Challenges /\ store[d].id # c
      BY <2>6, <3>1 DEF Spent, TypeOK, Challenge
    <3>3. QED
      BY <2>5, <3>1, <3>2 DEF Spent
  <2>8. \A x \in Challenges : x > minted' => opened'[x] = 0
    BY <2>1, <2>3, <2>5 DEF Spent, Challenges
  <2>9. \A k \in Handlers : Asserting(k)' =>
            /\ handler'[k].challenge \in 1..minted'
            /\ opened'[handler'[k].challenge] = 0
            /\ \A d \in Devices : store'[d].id = handler'[k].challenge => store'[d].used
    <3>1. SUFFICES ASSUME NEW k \in Handlers, Asserting(k)'
                   PROVE  /\ handler'[k].challenge \in 1..minted'
                          /\ opened'[handler'[k].challenge] = 0
                          /\ \A d \in Devices : store'[d].id = handler'[k].challenge => store'[d].used
      OBVIOUS
    <3>2. k # h /\ handler'[k] = handler[k] /\ Asserting(k)
      BY <2>2, <3>1 DEF Asserting
    <3>3. handler[k].challenge # c
      BY <2>1, <3>2 DEF Spent
    <3>4. handler[k].challenge \in Challenges
      BY <2>3, <3>2, ChallengesAssumption DEF Spent, Challenges, TypeOK
    <3>5. QED
      BY <2>1, <2>5, <3>2, <3>3, <3>4 DEF Spent
  <2>10. OneSessionPerChallenge'
    BY <2>5 DEF Spent, OneSessionPerChallenge
  <2>11. \A k, l \in Handlers :
          Asserting(k)' /\ Asserting(l)' /\ handler'[k].challenge = handler'[l].challenge => k = l
    BY <2>2 DEF Spent, Asserting
  <2>12. QED
    BY <2>1, <2>7, <2>8, <2>9, <2>10, <2>11 DEF Spent
<1>9. ASSUME NEW h \in Handlers, NEW d \in Devices, VerifyToken(h, d) PROVE Spent'
  BY <1>0, <1>9, SpentStays DEF VerifyToken, Begin, Asserting, histories
<1>10. ASSUME NEW h \in Handlers, Guard(h) PROVE Spent'
  BY <1>0, <1>10, SpentStays DEF Guard, Return, Asserting
<1>11. CASE Restart
  <2>1. UNCHANGED <<minted, opened>>
    BY <1>11 DEF Restart, histories
  <2>2. \A h \in Handlers : ~Asserting(h)'
    BY <1>0, <1>11 DEF Restart, Asserting
  <2>3. \A d \in Devices : store'[d].id = 0 /\ store'[d].used
    BY <1>11 DEF Restart, NoChallenge
  <2>4. minted \in Nat
    BY ChallengesAssumption DEF Spent, TypeOK, Challenges
  <2>5. QED
    BY <2>1, <2>2, <2>3, <2>4 DEF Spent, OneSessionPerChallenge
<1>12. CASE UNCHANGED vars
  BY <1>12, SpentStays DEF vars, Asserting
<1>13. QED
  BY <1>1, <1>2, <1>3, <1>4, <1>5, <1>6, <1>7, <1>8, <1>9, <1>10, <1>11, <1>12 DEF Next

\* A challenge opens one session at most, for both storages: it is marked before
\* the first await.
THEOREM OneSession == Spec => []OneSessionPerChallenge
<1>1. Init => Spent
  <2> SUFFICES ASSUME Init PROVE Spent
    OBVIOUS
  <2>1. TypeOK
    BY RootedInit DEF Rooted
  <2>2. \A h \in Handlers : ~Asserting(h)
    BY IdleIsIdle DEF Init, Asserting
  <2>3. QED
    BY <2>1, <2>2 DEF Init, Spent, NoChallenge, OneSessionPerChallenge
<1>2. Spent => OneSessionPerChallenge
  BY DEF Spent
<1>3. QED
  BY <1>1, <1>2, TypeCorrect, SpentNext, PTL DEF Spec

-----------------------------------------------------------------------------
(* The trust rule. *)

\* With the file store a request that has begun is alone, so what it listed is
\* still the list when it creates its device.
Alone == \A g, h \in Handlers : handler[g].pc # "idle" /\ handler[h].pc # "idle" => g = h
Listed == \A h \in Handlers : handler[h].pc = "create" => handler[h].isFirst = IsFirst

Exclusive == Rooted /\ Alone /\ Listed

\* A request that begins while nothing else runs, one that goes on, and one that
\* ends, keep requests alone.
LEMMA AloneStays ==
    ASSUME Storage = "file", Exclusive, [Next]_vars
    PROVE  Alone'
<1>0. handler \in [Handlers -> Request] /\ Idle.pc = "idle"
  BY IdleIsIdle DEF Exclusive, Rooted, TypeOK
<1>1. ASSUME NEW h \in Handlers, NEW r, Begin(h, r) PROVE Alone'
  BY <1>0, <1>1 DEF Begin, MayRun, Alone
<1>2. ASSUME NEW h \in Handlers, Return(h) PROVE Alone'
  BY <1>0, <1>2 DEF Return, Exclusive, Alone
<1>3. ASSUME NEW h \in Handlers, Proceed(h, "set"), handler[h].pc = "target" PROVE Alone'
  BY <1>0, <1>3 DEF Proceed, Exclusive, Alone, Request
<1>4. CASE UNCHANGED handler
  BY <1>4 DEF Exclusive, Alone
<1>5. CASE Restart
  BY <1>0, <1>5 DEF Restart, Alone
<1>6. \/ \E h \in Handlers : \E r : Begin(h, r)
      \/ \E h \in Handlers : Return(h)
      \/ \E h \in Handlers : Proceed(h, "set") /\ handler[h].pc = "target"
      \/ UNCHANGED handler
      \/ Restart
  BY DEF Next, vars, ListDevices, CreateDevice, ReadApprover, ReadTarget, SetApproved,
         CreateChallenge, ConsumeChallenge, OpenSession, VerifyToken, Guard
<1>7. QED
  BY <1>1, <1>2, <1>3, <1>4, <1>5, <1>6

\* Records change only in a step that ends the one request under way.
LEMMA ChangeEnds ==
    ASSUME Exclusive, [Next]_vars, dev' # dev
    PROVE  \E h \in Handlers :
              /\ CreateDevice(h) \/ SetApproved(h)
              /\ \A g \in Handlers : handler'[g].pc = "idle"
<1>0. handler \in [Handlers -> Request] /\ Idle.pc = "idle"
  BY IdleIsIdle DEF Exclusive, Rooted, TypeOK
<1>1. PICK h \in Handlers : CreateDevice(h) \/ SetApproved(h)
  BY DEF Next, vars, ListDevices, ReadApprover, ReadTarget, CreateChallenge, ConsumeChallenge,
         OpenSession, VerifyToken, Guard, Restart
<1>2. handler[h].pc # "idle" /\ Return(h)
  BY <1>1 DEF CreateDevice, NewStatus, SetApproved
<1>3. QED
  BY <1>0, <1>1, <1>2 DEF Return, Exclusive, Alone

LEMMA ListedStays ==
    ASSUME Exclusive, [Next]_vars
    PROVE  Listed'
<1>0. handler \in [Handlers -> Request] /\ Idle.pc = "idle"
  BY IdleIsIdle DEF Exclusive, Rooted, TypeOK
<1>1. CASE dev' # dev
  BY <1>1, ChangeEnds DEF Listed
<1>2. CASE dev' = dev
  <2>1. IsFirst' = IsFirst
    BY <1>2 DEF IsFirst
  <2>2. SUFFICES ASSUME NEW h \in Handlers, handler'[h].pc = "create"
                 PROVE  handler'[h].isFirst = IsFirst
    BY <2>1 DEF Listed
  <2>3. CASE handler'[h] = handler[h]
    BY <2>2, <2>3 DEF Exclusive, Listed
  <2>4. CASE handler'[h] # handler[h]
    <3>1. PICK g \in Handlers : \E d \in Devices : ListDevices(g, d)
      <4>1. ASSUME NEW g \in Handlers, Return(g) PROVE FALSE
        BY <1>0, <2>2, <2>4, <4>1 DEF Return
      <4>2. ASSUME NEW g \in Handlers, Proceed(g, "set") PROVE FALSE
        BY <1>0, <2>2, <2>4, <4>2 DEF Proceed, Request
      <4>3. ASSUME NEW g \in Handlers, NEW d \in Devices, NEW t \in Devices, NEW b \in BOOLEAN,
                   ReadApprover(g, d, t, b) \/ ConsumeChallenge(g, d, b) \/ VerifyToken(g, d)
            PROVE  FALSE
        BY <1>0, <2>2, <2>4, <4>3 DEF ReadApprover, ConsumeChallenge, VerifyToken, Begin
      <4>4. CASE Restart
        BY <1>0, <2>2, <4>4 DEF Restart
      <4>5. CASE UNCHANGED handler
        BY <2>4, <4>5
      <4>6. \/ \E g \in Handlers : \E d \in Devices : ListDevices(g, d)
            \/ \E g \in Handlers : Return(g) \/ Proceed(g, "set")
            \/ \E g \in Handlers, d, t \in Devices, b \in BOOLEAN :
                  ReadApprover(g, d, t, b) \/ ConsumeChallenge(g, d, b) \/ VerifyToken(g, d)
            \/ Restart
            \/ UNCHANGED handler
        BY DEF Next, vars, CreateDevice, ReadTarget, SetApproved, CreateChallenge, OpenSession, Guard
      <4>7. QED
        BY <4>1, <4>2, <4>3, <4>4, <4>5, <4>6
    <3>2. QED
      BY <1>0, <2>4, <3>1 DEF ListDevices, Begin
  <2>5. QED
    BY <2>3, <2>4
<1>3. QED
  BY <1>1, <1>2

LEMMA ExclusiveInvariant == ASSUME Storage = "file" PROVE Spec => []Exclusive
<1>1. Init => Exclusive
  BY RootedInit, IdleIsIdle DEF Init, Exclusive, Alone, Listed
<1>2. Exclusive /\ Rooted' /\ [Next]_vars => Exclusive'
  BY AloneStays, ListedStays DEF Exclusive
<1>3. QED
  BY <1>1, <1>2, RootedInvariant, PTL DEF Spec

\* Every step of the server is a step of the trust rule, or none.
LEMMA StepKeepsRule ==
    ASSUME Exclusive, [Next]_vars
    PROVE  [Contract!Next]_dev
<1>1. CASE dev' = dev
  BY <1>1
<1>2. CASE dev' # dev
  <2>1. PICK h \in Handlers : CreateDevice(h) \/ SetApproved(h)
    BY <1>2, ChangeEnds
  <2> DEFINE d == handler[h].device
  <2>2. d \in Devices /\ dev \in [Devices -> {"none", "pending", "approved"}]
    BY DEF Exclusive, Rooted, TypeOK, Request
  <2>3. CASE CreateDevice(h) /\ handler[h].isFirst
    <3>1. \A e \in Devices : dev[e] = "none"
      BY <2>3 DEF CreateDevice, Exclusive, Listed, IsFirst
    <3>2. Contract!Bootstrap(d)
      BY <2>3, <3>1 DEF CreateDevice, NewStatus, Contract!Bootstrap
    <3>3. QED
      BY <2>2, <3>2 DEF Contract!Next
  <2>4. CASE CreateDevice(h) /\ ~handler[h].isFirst
    <3>1. dev[d] = "none" /\ Exists
      BY <2>4 DEF CreateDevice, Exclusive, Rooted, Creating
    <3>2. \E e \in Devices : dev[e] = "approved"
      BY <3>1 DEF Exclusive, Rooted, SomeoneTrusted, Exists, Approved
    <3>3. Contract!Enroll(d)
      BY <2>4, <3>1, <3>2 DEF CreateDevice, NewStatus, Contract!Enroll
    <3>4. QED
      BY <2>2, <3>3 DEF Contract!Next
  <2>5. CASE SetApproved(h)
    <3>1. dev' = [dev EXCEPT ![d] = "approved"] /\ handler[h].pc = "set"
      BY <2>5 DEF SetApproved
    <3>2. dev[d] = "pending"
      BY <1>2, <2>2, <3>1 DEF Exclusive, Rooted, Targeting
    <3>3. handler[h].by \in Devices \ {d} /\ dev[handler[h].by] = "approved"
      BY <3>1, <3>2 DEF Exclusive, Rooted, Approving, Approved
    <3>4. Contract!Approve(d)
      BY <3>1, <3>2, <3>3 DEF Contract!Approve
    <3>5. QED
      BY <2>2, <3>4 DEF Contract!Next
  <2>6. QED
    BY <2>1, <2>3, <2>4, <2>5
<1>3. QED
  BY <1>1, <1>2

\* Over the file store the device service implements the trust rule in its
\* header: one bootstrap, and every other device approved by a trusted one.
THEOREM TrustKept == ASSUME Storage = "file" PROVE Spec => KeepsTrust
<1>1. Init => Contract!Init
  BY DEF Init, Contract!Init
<1>2. Exclusive /\ [Next]_vars => [Contract!Next]_dev
  BY StepKeepsRule
<1>3. QED
  BY <1>1, <1>2, ExclusiveInvariant, PTL DEF Spec, KeepsTrust, Contract!Spec
=============================================================================
