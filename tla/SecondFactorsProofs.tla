------------------------ MODULE SecondFactorsProofs ------------------------
(***************************************************************************)
(* What SecondFactors guarantees for every number of accounts, handlers,   *)
(* credentials and challenges.  Type correctness, one account per email,   *)
(* one use per challenge and what strands an account hold for both         *)
(* storages; that clones are detected and counters grow holds for the      *)
(* file store, where the check of a counter and its update are one step    *)
(* for every other handler.                                                *)
(***************************************************************************)
EXTENDS SecondFactors, TLAPS

LEMMA IdleIsRequest == Idle \in Request /\ Gone \in Pending /\ NoRecord \in Record
<1>1. /\ (CHOOSE u \in Users : TRUE) \in Users
      /\ (CHOOSE e \in Emails : TRUE) \in Emails
      /\ (CHOOSE c \in Credentials : TRUE) \in Credentials
  BY NonEmptyAssumption
<1>2. 0 \in Counts
  BY CountAssumption DEF Counts
<1>3. QED
  BY <1>1, <1>2 DEF Idle, Request, Gone, Pending, NoRecord, Record

\* What the death of the process does to the shape of the state: nothing.
LEMMA DieKeepsTypes ==
    ASSUME TypeOK, Die
    PROVE  /\ handler' \in [Handlers -> Request]
           /\ challenge' \in [Challenges -> Pending]
           /\ client' \in [Users -> {"waiting", "enrolling", "code", "enabled", "signedin", "left", "lost"}]
BY IdleIsRequest DEF Die, TypeOK

LEMMA ReturnKeepsTypes ==
    ASSUME TypeOK, NEW h \in Handlers, Return(h)
    PROVE  handler' \in [Handlers -> Request]
BY IdleIsRequest DEF Return, TypeOK

LEMMA ProceedKeepsTypes ==
    ASSUME TypeOK, NEW h \in Handlers, NEW pc \in {"start", "store"}, Proceed(h, pc)
    PROVE  handler' \in [Handlers -> Request]
<1>1. [handler[h] EXCEPT !.pc = pc] \in Request
  BY DEF TypeOK, Request
<1>2. QED
  BY <1>1 DEF Proceed, TypeOK

\* A history that counts goes on counting.
LEMMA CountOn ==
    ASSUME NEW S, NEW f \in [S -> Nat], NEW x
    PROVE  [f EXCEPT ![x] = @ + 1] \in [S -> Nat]
<1> DEFINE g == [f EXCEPT ![x] = @ + 1]
<1>1. ASSUME NEW y \in S PROVE g[y] \in Nat
  <2>1. f[y] \in Nat
    OBVIOUS
  <2>2. g[y] = IF y = x THEN f[y] + 1 ELSE f[y]
    OBVIOUS
  <2>3. QED
    BY <2>1, <2>2
<1>2. g = [y \in S |-> g[y]]
  OBVIOUS
<1>3. QED
  BY <1>1, <1>2

LEMMA LetThroughKeepsTypes ==
    ASSUME TypeOK, NEW r \in Request, LetThrough(r)
    PROVE  used' \in [Challenges -> Nat] /\ accepted' \in [Credentials -> [Counts -> Nat]]
<1> DEFINE c == r.cred
           seen == [accepted[c] EXCEPT ![r.count] = @ + 1]
<1>1. c \in Credentials /\ accepted[c] \in [Counts -> Nat]
  BY DEF TypeOK, Request
<1>2. seen \in [Counts -> Nat]
  BY <1>1, CountOn
<1>3. accepted' = [accepted EXCEPT ![c] = seen]
  BY DEF LetThrough
<1>4. used' = [used EXCEPT ![r.challenge] = @ + 1]
  BY DEF LetThrough
<1>5. used \in [Challenges -> Nat] /\ accepted \in [Credentials -> [Counts -> Nat]]
  BY DEF TypeOK
<1>6. used' \in [Challenges -> Nat]
  BY <1>4, <1>5, CountOn
<1>7. accepted' \in [Credentials -> [Counts -> Nat]]
  BY <1>2, <1>3, <1>5
<1>8. QED
  BY <1>6, <1>7

\* Records, challenges, requests and histories keep their shape, for both
\* storages: no counter leaves its range and no handler an unknown phase.
THEOREM TypeCorrect == Spec => []TypeOK
<1>1. Init => TypeOK
  <2>1. 0 \in Nat /\ 0 \in Challenges \cup {0}
    OBVIOUS
  <2>2. QED
    BY <2>1, IdleIsRequest DEF Init, TypeOK
<1>2. TypeOK /\ [Next]_vars => TypeOK'
  <2> SUFFICES ASSUME TypeOK, [Next]_vars PROVE TypeOK'
    OBVIOUS
  <2> USE DEF TypeOK
  <2>1. ASSUME NEW h \in Handlers, NEW u \in Users, NEW e \in Emails, HashVerifier(h, u, e)
        PROVE  TypeOK'
    <3>1. [Idle EXCEPT !.user = u, !.email = e, !.pc = "hash"] \in Request
      BY IdleIsRequest DEF Request
    <3>2. QED
      BY <2>1, <3>1 DEF HashVerifier, Begin, histories
  <2>2. ASSUME NEW h \in Handlers, NEW u \in Users, NEW code \in Codes, ConfirmCode(h, u, code)
        PROVE  TypeOK'
    <3>1. [Idle EXCEPT !.op = "confirm", !.user = u, !.pc = "upsert"] \in Request
      BY IdleIsRequest DEF Request
    <3>2. QED
      BY <2>2, <3>1 DEF ConfirmCode, Begin, histories
  <2>3. ASSUME NEW h \in Handlers, NEW u \in Users, NEW k \in Challenges, NEW c \in Credentials,
               NEW n \in Counts, NEW type \in Ceremonies, NEW g \in BOOLEAN,
               BeginCeremony(h, type, u, k, c, n, g)
        PROVE  TypeOK'
    <3>1. [Idle EXCEPT !.op = type, !.user = u, !.cred = c, !.count = n,
                       !.challenge = k, !.genuine = g, !.pc = "lookup"] \in Request
      BY IdleIsRequest DEF Request, Ceremonies
    <3>2. challenge' \in [Challenges -> Pending]
      BY <2>3, IdleIsRequest DEF BeginCeremony, Consume
    <3>3. handler' \in [Handlers -> Request]
      BY <2>3, <3>1 DEF BeginCeremony, Begin
    <3>4. QED
      BY <2>3, <3>2, <3>3 DEF BeginCeremony, histories
  <2>4. ASSUME NEW h \in Handlers, CreateAccount(h) PROVE TypeOK'
    <3>1. handler' \in [Handlers -> Request]
      BY <2>4, ReturnKeepsTypes, ProceedKeepsTypes DEF CreateAccount
    <3>2. account' \in [Users -> Emails \cup {NoEmail}]
      BY <2>4 DEF CreateAccount, Request
    <3>3. QED
      BY <2>4, <3>1, <3>2 DEF CreateAccount, histories
  <2>5. ASSUME NEW h \in Handlers, StartMfa(h) PROVE TypeOK'
    <3>1. handler' \in [Handlers -> Request]
      BY <2>5, ReturnKeepsTypes DEF StartMfa
    <3>2. mfa' \in [Users -> {"none", "pending", "confirmed"}]
      BY <2>5 DEF StartMfa
    <3>3. \E to \in {"enrolling", "left", "lost"} :
              client' = [client EXCEPT ![handler[h].user] = to]
      BY <2>5 DEF StartMfa
    <3>4. client' \in [Users -> {"waiting", "enrolling", "code", "enabled", "signedin", "left", "lost"}]
      BY <3>3 DEF Request
    <3>5. faults' \in Nat
      BY <2>5 DEF StartMfa
    <3>6. QED
      BY <2>5, <3>1, <3>2, <3>4, <3>5 DEF StartMfa, histories
  <2>6. ASSUME NEW h \in Handlers, UpsertMfa(h) PROVE TypeOK'
    <3>1. handler' \in [Handlers -> Request]
      BY <2>6, ReturnKeepsTypes DEF UpsertMfa
    <3>2. /\ mfa' \in [Users -> {"none", "pending", "confirmed"}]
          /\ client' \in [Users -> {"waiting", "enrolling", "code", "enabled", "signedin", "left", "lost"}]
      BY <2>6 DEF UpsertMfa, Confirmed
    <3>3. QED
      BY <2>6, <3>1, <3>2 DEF UpsertMfa, histories
  <2>7. ASSUME NEW h \in Handlers, LookupNew(h) PROVE TypeOK'
    <3>1. handler' \in [Handlers -> Request]
      BY <2>7, ReturnKeepsTypes, ProceedKeepsTypes DEF LookupNew
    <3>2. QED
      BY <2>7, <3>1 DEF LookupNew, histories
  <2>8. ASSUME NEW h \in Handlers, StorePasskey(h) PROVE TypeOK'
    <3>1. CASE passkey[handler[h].cred].stored
      BY <2>8, <3>1, DieKeepsTypes DEF StorePasskey
    <3>2. CASE ~passkey[handler[h].cred].stored
      <4>1. handler[h] \in Request
        OBVIOUS
      <4>2. [stored |-> TRUE, owner |-> handler[h].user, count |-> handler[h].count] \in Record
        BY <4>1 DEF Request, Record
      <4>3. passkey' \in [Credentials -> Record]
        BY <2>8, <3>2, <4>2 DEF StorePasskey
      <4>4. handler' \in [Handlers -> Request]
        BY <2>8, <3>2, ReturnKeepsTypes DEF StorePasskey
      <4>5. used' \in [Challenges -> Nat]
        BY <2>8, <3>2 DEF StorePasskey
      <4>6. QED
        BY <2>8, <3>2, <4>3, <4>4, <4>5 DEF StorePasskey
    <3>3. QED
      BY <3>1, <3>2
  <2>9. ASSUME NEW h \in Handlers, CheckCounter(h) PROVE TypeOK'
    <3>1. handler' \in [Handlers -> Request]
      BY <2>9, ReturnKeepsTypes, ProceedKeepsTypes DEF CheckCounter
    <3>2. used' \in [Challenges -> Nat] /\ accepted' \in [Credentials -> [Counts -> Nat]]
      BY <2>9, LetThroughKeepsTypes DEF CheckCounter, histories
    <3>3. QED
      BY <2>9, <3>1, <3>2 DEF CheckCounter
  <2>10. ASSUME NEW h \in Handlers, StoreCounter(h) PROVE TypeOK'
    <3>1. handler' \in [Handlers -> Request]
      BY <2>10, ReturnKeepsTypes DEF StoreCounter
    <3>2. used' \in [Challenges -> Nat] /\ accepted' \in [Credentials -> [Counts -> Nat]]
      BY <2>10, LetThroughKeepsTypes DEF StoreCounter
    <3>3. handler[h].count \in Counts
      BY DEF Request
    <3>4. passkey' \in [Credentials -> Record]
      BY <2>10, <3>3 DEF StoreCounter, UpdateSignCount, Record
    <3>5. QED
      BY <2>10, <3>1, <3>2, <3>4 DEF StoreCounter
  <2>11. ASSUME NEW u \in Users, EnrollBrowser(u) \/ LeavePage(u) PROVE TypeOK'
    BY <2>11 DEF EnrollBrowser, LeavePage, histories
  <2>12. ASSUME NEW u \in Users, NEW code \in Codes, SignInWithCode(u, code) PROVE TypeOK'
    BY <2>12 DEF SignInWithCode, histories
  <2>13. ASSUME NEW u \in Users, NEW type \in Ceremonies, MintChallenge(u, type) PROVE TypeOK'
    <3>1. minted' \in Challenges
      BY <2>13, ChallengesAssumption DEF MintChallenge, Challenges
    <3>2. challenge' \in [Challenges -> Pending]
      BY <2>13, <3>1 DEF MintChallenge, Pending
    <3>3. QED
      BY <2>13, <3>1, <3>2 DEF MintChallenge, histories
  <2>14. ASSUME NEW k \in Challenges, Expire(k) PROVE TypeOK'
    BY <2>14, IdleIsRequest DEF Expire, histories
  <2>15. ASSUME NEW k \in Challenges, WrongOrigin(k) PROVE TypeOK'
    BY <2>15, IdleIsRequest DEF WrongOrigin, Consume, histories
  <2>16. CASE Restart
    BY <2>16, DieKeepsTypes DEF Restart, histories
  <2>17. CASE UNCHANGED vars
    BY <2>17 DEF vars, histories
  <2>18. QED
    BY <2>1, <2>2, <2>3, <2>4, <2>5, <2>6, <2>7, <2>8, <2>9, <2>10, <2>11, <2>12, <2>13,
       <2>14, <2>15, <2>16, <2>17 DEF Next
<1>3. QED
  BY <1>1, <1>2, PTL DEF Spec

-----------------------------------------------------------------------------
LEMMA OnlyCreateAccounts ==
    ASSUME [Next]_vars, ~ \E h \in Handlers : CreateAccount(h)
    PROVE  UNCHANGED account
<1>1. ASSUME NEW h \in Handlers,
             \/ \E u \in Users, e \in Emails : HashVerifier(h, u, e)
             \/ \E u \in Users, code \in Codes : ConfirmCode(h, u, code)
             \/ \E u \in Users, k \in Challenges, c \in Credentials, n \in Counts,
                   type \in Ceremonies, g \in BOOLEAN : BeginCeremony(h, type, u, k, c, n, g)
      PROVE  UNCHANGED account
  BY <1>1 DEF HashVerifier, ConfirmCode, BeginCeremony
<1>2. ASSUME NEW h \in Handlers,
             \/ StartMfa(h) \/ UpsertMfa(h) \/ LookupNew(h)
             \/ StorePasskey(h) \/ CheckCounter(h) \/ StoreCounter(h)
      PROVE  UNCHANGED account
  BY <1>2 DEF StartMfa, UpsertMfa, LookupNew, StorePasskey, CheckCounter, StoreCounter
<1>3. ASSUME NEW u \in Users,
             \/ EnrollBrowser(u) \/ LeavePage(u)
             \/ \E code \in Codes : SignInWithCode(u, code)
             \/ \E type \in Ceremonies : MintChallenge(u, type)
      PROVE  UNCHANGED account
  BY <1>3 DEF EnrollBrowser, LeavePage, SignInWithCode, MintChallenge
<1>4. ASSUME \/ \E k \in Challenges : Expire(k) \/ WrongOrigin(k)
             \/ Restart
             \/ UNCHANGED vars
      PROVE  UNCHANGED account
  BY <1>4 DEF Expire, WrongOrigin, Restart, vars
<1>5. QED
  BY <1>1, <1>2, <1>3, <1>4 DEF Next

\* Two registrations of one email never both get an account, for both storages.
THEOREM OneAccount == Spec => []OneAccountPerEmail
<1>1. Init => OneAccountPerEmail
  BY DEF Init, OneAccountPerEmail
<1>2. TypeOK /\ OneAccountPerEmail /\ [Next]_vars => OneAccountPerEmail'
  <2> SUFFICES ASSUME TypeOK, OneAccountPerEmail, [Next]_vars PROVE OneAccountPerEmail'
    OBVIOUS
  <2>1. ASSUME NEW h \in Handlers, CreateAccount(h) PROVE OneAccountPerEmail'
    <3>1. CASE EmailTaken(handler[h].email)
      BY <2>1, <3>1 DEF CreateAccount, OneAccountPerEmail
    <3>2. CASE ~EmailTaken(handler[h].email)
      <4>1. account' = [account EXCEPT ![handler[h].user] = handler[h].email]
        BY <2>1, <3>2 DEF CreateAccount
      <4>2. \A u \in Users : account[u] # handler[h].email
        BY <3>2 DEF EmailTaken
      <4>3. QED
        BY <4>1, <4>2 DEF OneAccountPerEmail, TypeOK
    <3>3. QED
      BY <3>1, <3>2
  <2>2. CASE ~ \E h \in Handlers : CreateAccount(h)
    <3>1. UNCHANGED account
      BY <2>2, OnlyCreateAccounts
    <3>2. QED
      BY <3>1 DEF OneAccountPerEmail
  <2>3. QED
    BY <2>1, <2>2
<1>3. QED
  BY <1>1, <1>2, TypeCorrect, PTL DEF Spec

-----------------------------------------------------------------------------
(* What strands an account. *)

\* The state of one account's enrolment, as StrandedByFaultOrLeaving asks for it.
Starting(u) == \E h \in Handlers : handler[h].pc = "start" /\ handler[h].user = u
OnItsWay(u) ==
    \/ Starting(u)
    \/ client[u] \in {"enrolling", "code"} /\ mfa[u] # "none"
    \/ client[u] \in {"enabled", "signedin"} /\ mfa[u] = "confirmed"
    \/ client[u] = "left"
    \/ client[u] = "lost" /\ faults > 0

LEMMA FaultsOnlyGrow ==
    ASSUME TypeOK, [Next]_vars
    PROVE  faults' \in Nat /\ (faults > 0 => faults' > 0)
<1> DEFINE Grow == faults' = faults \/ faults' = faults + 1
<1>1. ASSUME NEW h \in Handlers,
             \/ \E u \in Users, e \in Emails : HashVerifier(h, u, e)
             \/ \E u \in Users, code \in Codes : ConfirmCode(h, u, code)
             \/ \E u \in Users, k \in Challenges, c \in Credentials, n \in Counts,
                   type \in Ceremonies, g \in BOOLEAN : BeginCeremony(h, type, u, k, c, n, g)
      PROVE  Grow
  BY <1>1 DEF HashVerifier, ConfirmCode, BeginCeremony
<1>2. ASSUME NEW h \in Handlers,
             \/ CreateAccount(h) \/ StartMfa(h) \/ UpsertMfa(h) \/ LookupNew(h)
             \/ StorePasskey(h) \/ CheckCounter(h) \/ StoreCounter(h)
      PROVE  Grow
  BY <1>2 DEF CreateAccount, StartMfa, UpsertMfa, LookupNew, StorePasskey, CheckCounter, StoreCounter
<1>3. ASSUME NEW u \in Users,
             \/ EnrollBrowser(u) \/ LeavePage(u)
             \/ \E code \in Codes : SignInWithCode(u, code)
             \/ \E type \in Ceremonies : MintChallenge(u, type)
      PROVE  Grow
  BY <1>3 DEF EnrollBrowser, LeavePage, SignInWithCode, MintChallenge
<1>4. ASSUME \/ \E k \in Challenges : Expire(k) \/ WrongOrigin(k)
             \/ Restart
             \/ UNCHANGED vars
      PROVE  Grow
  BY <1>4 DEF Expire, WrongOrigin, Restart, vars
<1>5. Grow
  BY <1>1, <1>2, <1>3, <1>4 DEF Next
<1>6. QED
  BY <1>5 DEF TypeOK

\* Requests that are not registrations between their two writes are not spoken of.
LEMMA StartersStay ==
    ASSUME TypeOK, NEW h \in Handlers, handler[h].pc # "start",
           \A g \in Handlers \ {h} : handler'[g] = handler[g],
           NEW u \in Users, OnItsWay(u), client'[u] = client[u], UNCHANGED <<mfa, faults>>
    PROVE  OnItsWay(u)'
<1>1. Starting(u) => Starting(u)'
  BY DEF Starting
<1>2. QED
  BY <1>1 DEF OnItsWay

\* The end of the process loses the pages of the registrations it was serving, and
\* no other.
LEMMA DeathStrandsStarters ==
    ASSUME TypeOK, Die, faults' = faults + 1, UNCHANGED mfa, NEW u \in Users, OnItsWay(u)
    PROVE  OnItsWay(u)'
<1>1. faults' > 0
  BY DEF TypeOK
<1>2. CASE Starting(u)
  <2>1. client'[u] = "lost"
    BY <1>2 DEF Die, Starting
  <2>2. QED
    BY <1>1, <2>1 DEF OnItsWay
<1>3. CASE ~Starting(u)
  <2>1. client'[u] = client[u]
    BY <1>3 DEF Die, Starting
  <2>2. QED
    BY <1>1, <1>3, <2>1 DEF OnItsWay
<1>4. QED
  BY <1>2, <1>3

\* An account whose enrolment can never be finished was left by its person at that
\* step or cut off there by a fault, for both storages and any number of
\* registrations at a time; and a fault that befalls one account strands no other.
THEOREM OnlyFaultsOrLeavingStrand == Spec => []StrandedByFaultOrLeaving
<1>1. Init => StrandedByFaultOrLeaving
  BY DEF Init, StrandedByFaultOrLeaving
<1>2. TypeOK /\ StrandedByFaultOrLeaving /\ [Next]_vars => StrandedByFaultOrLeaving'
  <2> SUFFICES ASSUME TypeOK, StrandedByFaultOrLeaving, [Next]_vars,
                      NEW u \in Users, account'[u] # NoEmail
               PROVE  OnItsWay(u)'
    BY DEF StrandedByFaultOrLeaving, OnItsWay, Starting
  <2>0. account[u] # NoEmail => OnItsWay(u)
    BY DEF StrandedByFaultOrLeaving, OnItsWay, Starting
  <2>1. ASSUME NEW h \in Handlers, CreateAccount(h) PROVE OnItsWay(u)'
    <3>1. /\ handler[h].pc = "hash" /\ \A g \in Handlers \ {h} : handler'[g] = handler[g]
          /\ UNCHANGED <<client, mfa, faults>>
      BY <2>1 DEF CreateAccount, Return, Proceed, TypeOK
    <3>2. CASE account[u] # NoEmail
      BY <2>0, <3>1, <3>2, StartersStay
    <3>3. CASE account[u] = NoEmail
      <4>1. u = handler[h].user /\ Proceed(h, "start")
        BY <2>1, <3>3 DEF CreateAccount, TypeOK
      <4>2. handler'[h].pc = "start" /\ handler'[h].user = u
        BY <4>1 DEF Proceed, TypeOK, Request
      <4>3. QED
        BY <4>2 DEF OnItsWay, Starting
    <3>4. QED
      BY <3>2, <3>3
  <2>2. ASSUME NEW h \in Handlers, StartMfa(h) PROVE OnItsWay(u)'
    <3>1. /\ \A g \in Handlers \ {h} : handler'[g] = handler[g]
          /\ mfa' = [mfa EXCEPT ![handler[h].user] = "pending"]
          /\ account' = account
      BY <2>2 DEF StartMfa, Return, TypeOK
    <3>2. \/ /\ client' = [client EXCEPT ![handler[h].user] =
                              IF @ = "left" THEN @ ELSE "enrolling"]
             /\ UNCHANGED faults
          \/ client' = [client EXCEPT ![handler[h].user] = "lost"] /\ faults' = faults + 1
      BY <2>2 DEF StartMfa
    <3>3. CASE u = handler[h].user
      BY <3>1, <3>2, <3>3, FaultsOnlyGrow DEF OnItsWay, TypeOK, Request
    <3>4. CASE u # handler[h].user
      <4>1. client'[u] = client[u] /\ mfa'[u] = mfa[u] /\ (Starting(u) => Starting(u)')
        BY <3>1, <3>2, <3>4 DEF TypeOK, Starting
      <4>2. faults > 0 => faults' > 0
        BY FaultsOnlyGrow
      <4>3. QED
        BY <2>0, <3>1, <4>1, <4>2 DEF OnItsWay
    <3>5. QED
      BY <3>3, <3>4
  <2>3. ASSUME NEW h \in Handlers, UpsertMfa(h) PROVE OnItsWay(u)'
    <3>1. /\ \A g \in Handlers \ {h} : handler'[g] = handler[g]
          /\ handler[h].pc # "start"
          /\ mfa' = [mfa EXCEPT ![handler[h].user] = "confirmed"]
          /\ client' = [client EXCEPT ![handler[h].user] = IF @ = "code" THEN "enabled" ELSE @]
          /\ UNCHANGED <<account, faults>>
      BY <2>3 DEF UpsertMfa, Return, TypeOK, Confirmed
    <3>2. Starting(u) => Starting(u)'
      BY <3>1 DEF Starting
    <3>3. CASE u = handler[h].user
      BY <2>0, <3>1, <3>2, <3>3 DEF OnItsWay, TypeOK
    <3>4. CASE u # handler[h].user
      BY <2>0, <3>1, <3>2, <3>4 DEF OnItsWay, TypeOK
    <3>5. QED
      BY <3>3, <3>4
  <2>4. ASSUME NEW v \in Users, EnrollBrowser(v) PROVE OnItsWay(u)'
    <3>1. /\ \/ client' = [client EXCEPT ![v] = "code"] /\ UNCHANGED faults
             \/ client' = [client EXCEPT ![v] = "lost"] /\ faults' = faults + 1
          /\ client[v] = "enrolling"
          /\ UNCHANGED <<account, mfa, handler>>
      BY <2>4 DEF EnrollBrowser
    <3>2. QED
      BY <2>0, <3>1 DEF OnItsWay, Starting, TypeOK
  <2>5. ASSUME NEW v \in Users, LeavePage(v) PROVE OnItsWay(u)'
    <3>1. client' = [client EXCEPT ![v] = "left"] /\ UNCHANGED <<account, mfa, handler, faults>>
      BY <2>5 DEF LeavePage
    <3>2. QED
      BY <2>0, <3>1 DEF OnItsWay, Starting, TypeOK
  <2>6. ASSUME NEW v \in Users, NEW code \in Codes, SignInWithCode(v, code) PROVE OnItsWay(u)'
    <3>1. /\ client' = [client EXCEPT ![v] = "signedin"] /\ UNCHANGED <<account, mfa, handler, faults>>
          /\ mfa[v] = "confirmed"
      BY <2>6 DEF SignInWithCode
    <3>2. QED
      BY <2>0, <3>1 DEF OnItsWay, Starting, TypeOK
  <2>7. ASSUME NEW h \in Handlers, NEW v \in Users, NEW e \in Emails, HashVerifier(h, v, e)
        PROVE  OnItsWay(u)'
    <3>1. /\ handler[h].pc = "idle" /\ \A g \in Handlers \ {h} : handler'[g] = handler[g]
          /\ account[v] = NoEmail /\ client' = [client EXCEPT ![v] = "waiting"]
          /\ UNCHANGED <<account, mfa, faults>>
      BY <2>7 DEF HashVerifier, Begin, TypeOK
    <3>2. u # v /\ client'[u] = client[u]
      BY <3>1 DEF TypeOK
    <3>3. QED
      BY <2>0, <3>1, <3>2, StartersStay
  <2>8. ASSUME NEW h \in Handlers,
               \/ \E v \in Users, code \in Codes : ConfirmCode(h, v, code)
               \/ \E v \in Users, k \in Challenges, c \in Credentials, n \in Counts,
                     type \in Ceremonies, g \in BOOLEAN : BeginCeremony(h, type, v, k, c, n, g)
               \/ LookupNew(h) \/ CheckCounter(h) \/ StoreCounter(h)
        PROVE  OnItsWay(u)'
    <3>1. /\ handler[h].pc # "start"
          /\ \A g \in Handlers \ {h} : handler'[g] = handler[g]
          /\ UNCHANGED <<account, client, mfa, faults>>
      BY <2>8 DEF ConfirmCode, BeginCeremony, Begin, LookupNew, CheckCounter, StoreCounter,
                  Return, Proceed, TypeOK
    <3>2. QED
      BY <2>0, <3>1, StartersStay
  <2>9. ASSUME NEW h \in Handlers, StorePasskey(h) PROVE OnItsWay(u)'
    <3>1. CASE passkey[handler[h].cred].stored
      BY <2>0, <2>9, <3>1, DeathStrandsStarters DEF StorePasskey
    <3>2. CASE ~passkey[handler[h].cred].stored
      <4>1. /\ handler[h].pc # "start"
            /\ \A g \in Handlers \ {h} : handler'[g] = handler[g]
            /\ UNCHANGED <<account, client, mfa, faults>>
        BY <2>9, <3>2 DEF StorePasskey, Return, TypeOK
      <4>2. QED
        BY <2>0, <4>1, StartersStay
    <3>3. QED
      BY <3>1, <3>2
  <2>10. ASSUME UNCHANGED <<account, client, mfa, faults, handler>> PROVE OnItsWay(u)'
    BY <2>0, <2>10 DEF OnItsWay, Starting
  <2>11. ASSUME \/ \E v \in Users, type \in Ceremonies : MintChallenge(v, type)
                \/ \E k \in Challenges : Expire(k) \/ WrongOrigin(k)
                \/ UNCHANGED vars
         PROVE  OnItsWay(u)'
    BY <2>10, <2>11 DEF MintChallenge, Expire, WrongOrigin, vars
  <2>12. CASE Restart
    BY <2>0, <2>12, DeathStrandsStarters DEF Restart
  <2>13. QED
    BY <2>1, <2>2, <2>3, <2>4, <2>5, <2>6, <2>7, <2>8, <2>9, <2>11, <2>12 DEF Next
<1>3. QED
  BY <1>1, <1>2, TypeCorrect, PTL DEF Spec

-----------------------------------------------------------------------------
(* A challenge lets one ceremony through: it is spent before the first await,  *)
(* so a challenge is out, or in the hands of one handler, or spent.            *)

InFlight(h, k) == handler[h].pc \in {"lookup", "store"} /\ handler[h].challenge = k
Unspent(k) == used[k] = 0 /\ \A h \in Handlers : ~InFlight(h, k)

UnmintedUnspent == \A k \in Challenges : k > minted => challenge[k] = Gone /\ Unspent(k)
OutIsUnspent == \A k \in Challenges : challenge[k] # Gone => Unspent(k)
HeldIsUnused == \A h \in Handlers, k \in Challenges : InFlight(h, k) => used[k] = 0
OneHolder == \A g, h \in Handlers, k \in Challenges : InFlight(g, k) /\ InFlight(h, k) => g = h

Once == UnmintedUnspent /\ OutIsUnspent /\ HeldIsUnused /\ OneHolder /\ SingleUse

LEMMA IdleHoldsNothing == Idle.pc = "idle" /\ \A t \in Ceremonies, u \in Users : [user |-> u, type |-> t] # Gone
BY DEF Idle, Gone, Ceremonies

\* Steps that neither take a challenge nor let anything through.
QuietForChallenges ==
    /\ UNCHANGED <<used, minted>>
    /\ \A k \in Challenges : challenge'[k] # Gone => challenge'[k] = challenge[k]
    /\ \A h \in Handlers, k \in Challenges : InFlight(h, k)' => InFlight(h, k)

LEMMA QuietKeepsOnce ==
    ASSUME Once, QuietForChallenges
    PROVE  Once'
<1> USE DEF QuietForChallenges
<1>1. UnmintedUnspent' /\ OutIsUnspent'
  BY DEF Once, UnmintedUnspent, OutIsUnspent, Unspent
<1>2. HeldIsUnused' /\ OneHolder' /\ SingleUse'
  BY DEF Once, HeldIsUnused, OneHolder, SingleUse
<1>3. QED
  BY <1>1, <1>2 DEF Once

\* The one step that lets a ceremony through: its handler held the challenge.
LEMMA SpendKeepsOnce ==
    ASSUME TypeOK, Once, NEW h \in Handlers, handler[h].pc \in {"lookup", "store"},
           handler' = [handler EXCEPT ![h] = Idle],
           used' = [used EXCEPT ![handler[h].challenge] = @ + 1],
           UNCHANGED <<challenge, minted>>
    PROVE  Once'
<1> DEFINE c == handler[h].challenge
<1>1. \A k \in Challenges : used'[k] = IF k = c THEN used[k] + 1 ELSE used[k]
  BY DEF TypeOK
<1>2. \A k \in Challenges : k = c => InFlight(h, k)
  BY DEF InFlight
<1>3. \A g \in Handlers, k \in Challenges : InFlight(g, k)' => g # h /\ InFlight(g, k)
  BY IdleHoldsNothing DEF InFlight, TypeOK
<1>4. UnmintedUnspent' /\ OutIsUnspent'
  BY <1>1, <1>2, <1>3 DEF Once, UnmintedUnspent, OutIsUnspent, Unspent
<1>5. HeldIsUnused' /\ OneHolder'
  BY <1>1, <1>2, <1>3 DEF Once, HeldIsUnused, OneHolder
<1>6. SingleUse'
  <2> SUFFICES ASSUME NEW k \in Challenges PROVE used'[k] =< 1
    BY DEF SingleUse
  <2>1. CASE k = c
    BY <1>1, <1>2, <2>1 DEF Once, HeldIsUnused
  <2>2. CASE k # c
    BY <1>1, <2>2 DEF Once, SingleUse
  <2>3. QED
    BY <2>1, <2>2
<1>7. QED
  BY <1>4, <1>5, <1>6 DEF Once

LEMMA MintKeepsOnce ==
    ASSUME TypeOK, Once, NEW u \in Users, NEW type \in Ceremonies, MintChallenge(u, type)
    PROVE  Once'
<1>1. /\ minted' = minted + 1
      /\ challenge' = [challenge EXCEPT ![minted + 1] = [user |-> u, type |-> type]]
      /\ UNCHANGED <<handler, used>>
  BY DEF MintChallenge, histories
<1>2. minted \in Nat /\ \A k \in Challenges : k \in Int
  BY DEF TypeOK, Challenges
<1>3. \A k \in Challenges : challenge'[k] = IF k = minted + 1 THEN [user |-> u, type |-> type] ELSE challenge[k]
  BY <1>1 DEF TypeOK
<1>4. \A k \in Challenges : Unspent(k)' <=> Unspent(k)
  BY <1>1 DEF Unspent, InFlight
<1>5. \A k \in Challenges : k > minted' => k > minted /\ k # minted + 1
  BY <1>1, <1>2
<1>6. UnmintedUnspent'
  BY <1>3, <1>4, <1>5 DEF Once, UnmintedUnspent
<1>7. \A k \in Challenges : k = minted + 1 => k > minted
  BY <1>2
<1>8. OutIsUnspent'
  BY <1>3, <1>4, <1>7 DEF Once, OutIsUnspent, UnmintedUnspent
<1>9. HeldIsUnused' /\ OneHolder' /\ SingleUse'
  BY <1>1 DEF Once, HeldIsUnused, OneHolder, SingleUse, InFlight
<1>10. QED
  BY <1>6, <1>8, <1>9 DEF Once

LEMMA BeginKeepsOnce ==
    ASSUME TypeOK, Once, NEW h \in Handlers, NEW u \in Users, NEW k \in Challenges,
           NEW c \in Credentials, NEW n \in Counts, NEW type \in Ceremonies, NEW genuine \in BOOLEAN,
           BeginCeremony(h, type, u, k, c, n, genuine)
    PROVE  Once'
<1>1. /\ challenge[k] # Gone
      /\ challenge' = [challenge EXCEPT ![k] = Gone]
      /\ UNCHANGED <<used, minted>>
  BY IdleHoldsNothing DEF BeginCeremony, Matches, Consume, histories
<1>2. /\ handler[h].pc = "idle"
      /\ handler'[h].challenge = k
      /\ \A g \in Handlers \ {h} : handler'[g] = handler[g]
  BY DEF BeginCeremony, Begin, TypeOK, Idle
<1>3. Unspent(k)
  BY <1>1 DEF Once, OutIsUnspent
<1>4. \A g \in Handlers, l \in Challenges : InFlight(g, l)' => InFlight(g, l) \/ (g = h /\ l = k)
  BY <1>2 DEF InFlight
<1>5. \A l \in Challenges : challenge'[l] = IF l = k THEN Gone ELSE challenge[l]
  BY <1>1 DEF TypeOK
<1>6. ~(k > minted)
  BY <1>1 DEF Once, UnmintedUnspent
<1>7. UnmintedUnspent' /\ OutIsUnspent'
  BY <1>1, <1>4, <1>5, <1>6 DEF Once, UnmintedUnspent, OutIsUnspent, Unspent
<1>8. HeldIsUnused' /\ OneHolder' /\ SingleUse'
  BY <1>1, <1>3, <1>4 DEF Once, HeldIsUnused, OneHolder, SingleUse, Unspent
<1>9. QED
  BY <1>7, <1>8 DEF Once

LEMMA DieIsQuiet ==
    ASSUME TypeOK, Die, UNCHANGED <<used, minted>>
    PROVE  QuietForChallenges
BY IdleHoldsNothing DEF Die, QuietForChallenges, InFlight

\* A challenge lets one ceremony through at most, for both storages, whatever
\* interleaves and however often the process restarts.
THEOREM ChallengesAreSingleUse == Spec => []SingleUse
<1>1. Init => Once
  BY IdleHoldsNothing DEF Init, Once, UnmintedUnspent, OutIsUnspent, HeldIsUnused, OneHolder,
                          SingleUse, Unspent, InFlight
<1>2. TypeOK /\ Once /\ [Next]_vars => Once'
  <2> SUFFICES ASSUME TypeOK, Once, [Next]_vars PROVE Once'
    OBVIOUS
  <2>1. ASSUME NEW h \in Handlers,
               \/ \E u \in Users, e \in Emails : HashVerifier(h, u, e)
               \/ \E u \in Users, code \in Codes : ConfirmCode(h, u, code)
               \/ CreateAccount(h) \/ StartMfa(h) \/ UpsertMfa(h)
        PROVE  Once'
    <3>1. UNCHANGED <<challenge, minted, used>>
      BY <2>1 DEF HashVerifier, ConfirmCode, CreateAccount, StartMfa, UpsertMfa, histories
    <3>2. \/ \E u \in Users, e \in Emails : handler' = [handler EXCEPT ![h] =
                [Idle EXCEPT !.user = u, !.email = e, !.pc = "hash"]]
          \/ \E u \in Users : handler' = [handler EXCEPT ![h] =
                [Idle EXCEPT !.op = "confirm", !.user = u, !.pc = "upsert"]]
          \/ handler' = [handler EXCEPT ![h].pc = "start"]
          \/ handler' = [handler EXCEPT ![h] = Idle]
      BY <2>1 DEF HashVerifier, ConfirmCode, CreateAccount, StartMfa, UpsertMfa, Begin, Return, Proceed
    <3>3. handler'[h].pc \notin {"lookup", "store"}
      <4>0. handler \in [Handlers -> Request]
        BY DEF TypeOK
      <4>1. ASSUME NEW u \in Users, NEW e \in Emails,
                   handler' = [handler EXCEPT ![h] = [Idle EXCEPT !.user = u, !.email = e, !.pc = "hash"]]
            PROVE  handler'[h].pc = "hash"
        BY <4>0, <4>1 DEF Idle
      <4>2. ASSUME NEW u \in Users,
                   handler' = [handler EXCEPT ![h] = [Idle EXCEPT !.op = "confirm", !.user = u, !.pc = "upsert"]]
            PROVE  handler'[h].pc = "upsert"
        BY <4>0, <4>2 DEF Idle
      <4>3. ASSUME handler' = [handler EXCEPT ![h].pc = "start"]
            PROVE  handler'[h].pc = "start"
        BY <4>0, <4>3 DEF Request
      <4>4. ASSUME handler' = [handler EXCEPT ![h] = Idle]
            PROVE  handler'[h].pc = "idle"
        BY <4>0, <4>4, IdleHoldsNothing
      <4>5. QED
        BY <3>2, <4>1, <4>2, <4>3, <4>4
    <3>4. \A g \in Handlers \ {h} : handler'[g] = handler[g]
      BY <3>2 DEF TypeOK
    <3>5. QED
      BY <3>1, <3>3, <3>4, QuietKeepsOnce DEF QuietForChallenges, InFlight
  <2>2. ASSUME NEW h \in Handlers, NEW u \in Users, NEW k \in Challenges, NEW c \in Credentials,
               NEW n \in Counts, NEW type \in Ceremonies, NEW g \in BOOLEAN,
               BeginCeremony(h, type, u, k, c, n, g)
        PROVE  Once'
    BY <2>2, BeginKeepsOnce
  <2>3. ASSUME NEW h \in Handlers, LookupNew(h) PROVE Once'
    <3>1. /\ handler[h].pc = "lookup"
          /\ handler'[h] = Idle \/ handler'[h].challenge = handler[h].challenge
          /\ \A g \in Handlers \ {h} : handler'[g] = handler[g]
          /\ UNCHANGED <<challenge, minted, used>>
      BY <2>3 DEF LookupNew, Return, Proceed, histories, TypeOK, Request
    <3>2. QED
      BY <3>1, QuietKeepsOnce, IdleHoldsNothing DEF QuietForChallenges, InFlight
  <2>4. ASSUME NEW h \in Handlers, StorePasskey(h) PROVE Once'
    <3>1. CASE passkey[handler[h].cred].stored
      BY <2>4, <3>1, DieIsQuiet, QuietKeepsOnce DEF StorePasskey
    <3>2. CASE ~passkey[handler[h].cred].stored
      BY <2>4, <3>2, SpendKeepsOnce DEF StorePasskey, Return
    <3>3. QED
      BY <3>1, <3>2
  <2>5. ASSUME NEW h \in Handlers, CheckCounter(h) PROVE Once'
    <3>0. handler[h].pc = "lookup" /\ UNCHANGED <<challenge, minted>>
      BY <2>5 DEF CheckCounter
    <3>1. CASE LetThrough(handler[h]) /\ Return(h)
      BY <3>0, <3>1, SpendKeepsOnce DEF LetThrough, Return
    <3>2. CASE (Return(h) \/ Proceed(h, "store")) /\ UNCHANGED histories
      <4>1. /\ handler'[h] = Idle \/ handler'[h].challenge = handler[h].challenge
            /\ \A g \in Handlers \ {h} : handler'[g] = handler[g]
            /\ UNCHANGED used
        BY <3>2 DEF Return, Proceed, histories, TypeOK, Request
      <4>2. QED
        BY <3>0, <4>1, QuietKeepsOnce, IdleHoldsNothing DEF QuietForChallenges, InFlight
    <3>3. QED
      BY <2>5, <3>1, <3>2 DEF CheckCounter
  <2>6. ASSUME NEW h \in Handlers, StoreCounter(h) PROVE Once'
    BY <2>6, SpendKeepsOnce DEF StoreCounter, LetThrough, Return
  <2>7. ASSUME NEW u \in Users,
               EnrollBrowser(u) \/ LeavePage(u) \/ \E code \in Codes : SignInWithCode(u, code)
        PROVE  Once'
    <3>1. UNCHANGED <<challenge, minted, handler, used>>
      BY <2>7 DEF EnrollBrowser, LeavePage, SignInWithCode, histories
    <3>2. QED
      BY <3>1, QuietKeepsOnce DEF QuietForChallenges, InFlight
  <2>8. ASSUME NEW u \in Users, NEW type \in Ceremonies, MintChallenge(u, type) PROVE Once'
    BY <2>8, MintKeepsOnce
  <2>9. ASSUME NEW k \in Challenges, Expire(k) \/ WrongOrigin(k) PROVE Once'
    <3>1. UNCHANGED <<minted, handler, used>> /\ challenge' = [challenge EXCEPT ![k] = Gone]
      BY <2>9 DEF Expire, WrongOrigin, Consume, histories
    <3>2. QED
      BY <3>1, QuietKeepsOnce DEF QuietForChallenges, InFlight, TypeOK
  <2>10. CASE Restart
    BY <2>10, DieIsQuiet, QuietKeepsOnce DEF Restart, histories
  <2>11. CASE UNCHANGED vars
    BY <2>11, QuietKeepsOnce DEF vars, histories, QuietForChallenges, InFlight
  <2>12. QED
    BY <2>1, <2>2, <2>3, <2>4, <2>5, <2>6, <2>7, <2>8, <2>9, <2>10, <2>11 DEF Next
<1>3. Once => SingleUse
  BY DEF Once
<1>4. QED
  BY <1>1, <1>2, <1>3, TypeCorrect, PTL DEF Spec

-----------------------------------------------------------------------------
(* Counters, over the file store: a handler that has looked a credential up    *)
(* is alone with it, so what it stores is ahead of what is stored.             *)

Busy(h) == handler[h].pc \notin {"idle", "hash"}

OneBusy == \A g, h \in Handlers : Busy(g) /\ Busy(h) => g = h

\* No counter that was let through is ahead of the stored one.
Counted == \A c \in Credentials : \A n \in Counts \ {0} :
              accepted[c][n] > 0 => passkey[c].stored /\ n =< passkey[c].count

\* A counter about to be stored is ahead of the stored one.
Ahead == \A h \in Handlers :
            handler[h].op = "get" /\ handler[h].pc = "store"
              => /\ passkey[handler[h].cred].stored
                 /\ handler[h].count > passkey[handler[h].cred].count

Counters == storage = "file" => OneBusy /\ Counted /\ Ahead /\ NoCountTwice

\* Steps that leave the credentials and what was let through alone.
QuietForCounters ==
    /\ UNCHANGED <<storage, passkey, accepted>>
    /\ \A h \in Handlers :
          /\ Busy(h)' => Busy(h) \/ (storage = "file" => \A g \in Handlers \ {h} : ~Busy(g)')
          /\ handler'[h].op = "get" /\ handler'[h].pc = "store" => handler'[h] = handler[h]

LEMMA QuietKeepsCounters ==
    ASSUME Counters, QuietForCounters
    PROVE  Counters'
<1> SUFFICES ASSUME storage = "file" PROVE (OneBusy /\ Counted /\ Ahead /\ NoCountTwice)'
  BY DEF QuietForCounters, Counters
<1>1. OneBusy'
  BY DEF Counters, QuietForCounters, OneBusy
<1>2. Counted' /\ NoCountTwice'
  BY DEF Counters, QuietForCounters, Counted, NoCountTwice
<1>3. Ahead'
  BY DEF Counters, QuietForCounters, Ahead
<1>4. QED
  BY <1>1, <1>2, <1>3

\* The handler of h returns, or goes on, while the others are not busy.
LEMMA AloneAfterwards ==
    ASSUME TypeOK, OneBusy, NEW h \in Handlers, Busy(h),
           \A g \in Handlers \ {h} : handler'[g] = handler[g]
    PROVE  OneBusy' /\ \A g \in Handlers \ {h} : ~Busy(g) /\ ~Busy(g)'
BY DEF OneBusy, Busy

LEMMA StorePasskeyKeepsCounters ==
    ASSUME TypeOK, Counters, NEW h \in Handlers, StorePasskey(h),
           ~passkey[handler[h].cred].stored
    PROVE  Counters'
<1> DEFINE r == handler[h]
<1>1. /\ storage' = storage /\ accepted' = accepted
      /\ passkey' = [passkey EXCEPT ![r.cred] = [stored |-> TRUE, owner |-> r.user, count |-> r.count]]
      /\ handler' = [handler EXCEPT ![h] = Idle]
      /\ r.pc = "store"
  BY DEF StorePasskey, Return
<1> SUFFICES ASSUME storage = "file" PROVE (OneBusy /\ Counted /\ Ahead /\ NoCountTwice)'
  BY <1>1 DEF Counters
<1>2. /\ \A g \in Handlers \ {h} : handler'[g] = handler[g]
      /\ handler'[h].pc = "idle"
  BY <1>1, IdleHoldsNothing DEF TypeOK
<1>3. OneBusy' /\ \A g \in Handlers \ {h} : ~Busy(g)'
  BY <1>1, <1>2, AloneAfterwards DEF Counters, Busy
<1>4. Ahead'
  BY <1>2, <1>3 DEF Ahead, Busy
<1>5. \A c \in Credentials : c # r.cred => passkey'[c] = passkey[c]
  BY <1>1 DEF TypeOK
<1>6. Counted'
  BY <1>1, <1>5 DEF Counters, Counted
<1>7. NoCountTwice'
  BY <1>1 DEF Counters, NoCountTwice
<1>8. QED
  BY <1>3, <1>4, <1>6, <1>7

LEMMA StoreCounterKeepsCounters ==
    ASSUME TypeOK, Counters, NEW h \in Handlers, StoreCounter(h), storage = "file"
    PROVE  /\ Counters'
           /\ \A c \in Credentials : passkey[c].stored => passkey'[c].count >= passkey[c].count
<1> DEFINE r == handler[h]
           c == r.cred
           n == r.count
<1>0. /\ c \in Credentials /\ n \in Counts /\ n \in Nat /\ r.pc = "store" /\ r.op = "get"
      /\ \A d \in Credentials : passkey[d] \in Record /\ passkey[d].count \in Nat
      /\ \A m \in Counts : m \in Nat
  BY DEF TypeOK, Request, StoreCounter, Counts, Record
<1>1. /\ storage' = storage
      /\ passkey' = [passkey EXCEPT ![c].count = n]
      /\ accepted' = [accepted EXCEPT ![c][n] = @ + 1]
      /\ handler' = [handler EXCEPT ![h] = Idle]
  BY DEF StoreCounter, UpdateSignCount, LetThrough, Return
<1>2. passkey[c].stored /\ n > passkey[c].count
  BY <1>0 DEF Counters, Ahead
<1>3. /\ \A d \in Credentials : d # c => passkey'[d] = passkey[d] /\ accepted'[d] = accepted[d]
      /\ passkey'[c].stored /\ passkey'[c].count = n
  <2>1. passkey' = [passkey EXCEPT ![c] = [passkey[c] EXCEPT !.count = n]]
    BY <1>1
  <2>2. [passkey[c] EXCEPT !.count = n].stored /\ [passkey[c] EXCEPT !.count = n].count = n
    BY <1>0, <1>2 DEF Record
  <2>3. QED
    BY <1>0, <1>1, <2>1, <2>2 DEF TypeOK
<1>4. \A m \in Counts : accepted'[c][m] = IF m = n THEN accepted[c][m] + 1 ELSE accepted[c][m]
  <2>1. accepted' = [accepted EXCEPT ![c] = [accepted[c] EXCEPT ![n] = @ + 1]]
    BY <1>1
  <2>2. accepted \in [Credentials -> [Counts -> Nat]]
    BY DEF TypeOK
  <2>3. accepted'[c] = [accepted[c] EXCEPT ![n] = @ + 1] /\ accepted[c] \in [Counts -> Nat]
    BY <1>0, <2>1, <2>2
  <2>4. QED
    BY <2>3
<1>5. /\ \A g \in Handlers \ {h} : handler'[g] = handler[g]
      /\ handler'[h].pc = "idle"
  BY <1>1, IdleHoldsNothing DEF TypeOK
<1>6. OneBusy' /\ \A g \in Handlers \ {h} : ~Busy(g)'
  BY <1>0, <1>5, AloneAfterwards DEF Counters, Busy
<1>7. Ahead'
  BY <1>5, <1>6 DEF Ahead, Busy
<1>8. \A m \in Counts \ {0} : accepted[c][m] > 0 => m =< passkey[c].count
  BY <1>0 DEF Counters, Counted
<1>9. Counted'
  <2> SUFFICES ASSUME NEW d \in Credentials, NEW m \in Counts \ {0}, accepted'[d][m] > 0
               PROVE  passkey'[d].stored /\ m =< passkey'[d].count
    BY DEF Counted
  <2>1. CASE d # c
    BY <1>3, <2>1 DEF Counters, Counted
  <2>2. CASE d = c /\ m = n
    BY <1>0, <1>3, <2>2
  <2>3. CASE d = c /\ m # n
    BY <1>0, <1>2, <1>3, <1>4, <1>8, <2>3
  <2>4. QED
    BY <2>1, <2>2, <2>3
<1>10. NoCountTwice'
  <2> SUFFICES ASSUME NEW d \in Credentials, NEW m \in Counts \ {0} PROVE accepted'[d][m] =< 1
    BY DEF NoCountTwice
  <2>1. CASE d # c
    BY <1>3, <2>1 DEF Counters, NoCountTwice
  <2>2. CASE d = c /\ m # n
    BY <1>4, <2>2 DEF Counters, NoCountTwice
  <2>3. CASE d = c /\ m = n
    <3>1. ~(accepted[c][n] > 0)
      BY <1>0, <1>2, <1>8, <2>3
    <3>2. accepted[c][n] \in Nat
      BY <1>0 DEF TypeOK
    <3>3. QED
      BY <1>4, <2>3, <3>1, <3>2
  <2>4. QED
    BY <2>1, <2>2, <2>3
<1>11. \A d \in Credentials : passkey[d].stored => passkey'[d].count >= passkey[d].count
  BY <1>0, <1>2, <1>3
<1>12. QED
  BY <1>1, <1>6, <1>7, <1>9, <1>10, <1>11 DEF Counters

LEMMA CheckKeepsCounters ==
    ASSUME TypeOK, Counters, NEW h \in Handlers, CheckCounter(h), storage = "file"
    PROVE  Counters'
<1> DEFINE r == handler[h]
           c == r.cred
<1>0. /\ c \in Credentials /\ r.count \in Nat /\ r.pc = "lookup" /\ r.op = "get" /\ r \in Request
      /\ passkey[c].count \in Nat
      /\ UNCHANGED <<storage, passkey>>
  BY DEF TypeOK, Request, CheckCounter, Counts, Record
<1>1. ASSUME Return(h), UNCHANGED histories PROVE Counters'
  <2>1. handler'[h].pc = "idle" /\ \A g \in Handlers \ {h} : handler'[g] = handler[g]
    BY <1>1, IdleHoldsNothing DEF Return, TypeOK
  <2>2. QED
    BY <1>0, <1>1, <2>1, QuietKeepsCounters DEF QuietForCounters, Busy, histories
<1>2. ASSUME LetThrough(r), Return(h), r.count = 0 PROVE Counters'
  <2>1. /\ handler'[h].pc = "idle" /\ \A g \in Handlers \ {h} : handler'[g] = handler[g]
    BY <1>2, IdleHoldsNothing DEF Return, TypeOK
  <2>2. OneBusy' /\ \A g \in Handlers \ {h} : ~Busy(g)'
    BY <1>0, <2>1, AloneAfterwards DEF Counters, Busy
  <2>3. Ahead'
    BY <2>1, <2>2 DEF Ahead, Busy
  <2>4. \A d \in Credentials : \A m \in Counts \ {0} : accepted'[d][m] = accepted[d][m]
    <3>1. accepted' = [accepted EXCEPT ![c] = [accepted[c] EXCEPT ![0] = @ + 1]]
      BY <1>2 DEF LetThrough
    <3>2. accepted \in [Credentials -> [Counts -> Nat]]
      BY DEF TypeOK
    <3>3. accepted'[c] = [accepted[c] EXCEPT ![0] = @ + 1] /\ accepted[c] \in [Counts -> Nat]
      BY <1>0, <3>1, <3>2
    <3>4. \A d \in Credentials : d # c => accepted'[d] = accepted[d]
      BY <3>1, <3>2
    <3>5. \A m \in Counts \ {0} : accepted'[c][m] = accepted[c][m]
      BY <3>3
    <3>6. QED
      BY <3>4, <3>5
  <2>5. Counted' /\ NoCountTwice'
    BY <1>0, <2>4 DEF Counters, Counted, NoCountTwice
  <2>6. QED
    BY <1>0, <2>2, <2>3, <2>5 DEF Counters
<1>3. ASSUME passkey[c].stored, r.count > passkey[c].count, Proceed(h, "store"), UNCHANGED histories
      PROVE  Counters'
  <2>1. \A g \in Handlers \ {h} : handler'[g] = handler[g]
    BY <1>3 DEF Proceed, TypeOK
  <2>2. handler'[h].cred = c /\ handler'[h].count = r.count
    BY <1>0, <1>3 DEF Proceed, TypeOK, Request
  <2>3. OneBusy' /\ \A g \in Handlers \ {h} : ~Busy(g)'
    BY <1>0, <2>1, AloneAfterwards DEF Counters, Busy
  <2>4. Ahead'
    BY <1>0, <1>3, <2>2, <2>3 DEF Ahead, Busy
  <2>5. Counted' /\ NoCountTwice'
    BY <1>0, <1>3 DEF Counters, Counted, NoCountTwice, histories
  <2>6. QED
    BY <1>0, <2>3, <2>4, <2>5 DEF Counters
<1>4. QED
  <2>1. CASE Return(h) /\ UNCHANGED histories
    BY <1>1, <2>1
  <2>2. CASE /\ ~(r.count > 0 \/ passkey[c].count > 0)
             /\ LetThrough(r) /\ Return(h)
    BY <1>0, <1>2, <2>2
  <2>3. CASE /\ passkey[c].stored /\ ~Regresses(r.count, passkey[c].count)
             /\ Proceed(h, "store") /\ UNCHANGED histories
    BY <1>0, <1>3, <2>3 DEF Regresses
  <2>4. QED
    BY <2>1, <2>2, <2>3 DEF CheckCounter

LEMMA StorageFixed ==
    ASSUME [Next]_vars
    PROVE  UNCHANGED storage
<1>1. ASSUME NEW h \in Handlers,
             \/ \E u \in Users, e \in Emails : HashVerifier(h, u, e)
             \/ \E u \in Users, code \in Codes : ConfirmCode(h, u, code)
             \/ \E u \in Users, k \in Challenges, c \in Credentials, n \in Counts,
                   type \in Ceremonies, g \in BOOLEAN : BeginCeremony(h, type, u, k, c, n, g)
      PROVE  UNCHANGED storage
  BY <1>1 DEF HashVerifier, ConfirmCode, BeginCeremony
<1>2. ASSUME NEW h \in Handlers,
             \/ CreateAccount(h) \/ StartMfa(h) \/ UpsertMfa(h) \/ LookupNew(h)
             \/ StorePasskey(h) \/ CheckCounter(h) \/ StoreCounter(h)
      PROVE  UNCHANGED storage
  BY <1>2 DEF CreateAccount, StartMfa, UpsertMfa, LookupNew, StorePasskey, CheckCounter, StoreCounter
<1>3. ASSUME NEW u \in Users,
             \/ EnrollBrowser(u) \/ LeavePage(u)
             \/ \E code \in Codes : SignInWithCode(u, code)
             \/ \E type \in Ceremonies : MintChallenge(u, type)
      PROVE  UNCHANGED storage
  BY <1>3 DEF EnrollBrowser, LeavePage, SignInWithCode, MintChallenge
<1>4. ASSUME \/ \E k \in Challenges : Expire(k) \/ WrongOrigin(k)
             \/ Restart
             \/ UNCHANGED vars
      PROVE  UNCHANGED storage
  BY <1>4 DEF Expire, WrongOrigin, Restart, vars
<1>5. QED
  BY <1>1, <1>2, <1>3, <1>4 DEF Next

\* A handler that begins its repository calls does so while no other one is at
\* them, or hashes still.
LEMMA BeginsQuietly ==
    ASSUME TypeOK, storage = "file", NEW h \in Handlers,
           UNCHANGED <<storage, passkey, accepted>>,
           handler'[h].pc # "store",
           \A g \in Handlers \ {h} : handler'[g] = handler[g],
           Busy(h)' => Busy(h) \/ MayRun(h)
    PROVE  QuietForCounters
<1>1. MayRun(h) => \A g \in Handlers \ {h} : ~Busy(g)
  BY DEF MayRun, Busy
<1>2. \A g \in Handlers \ {h} : Busy(g)' <=> Busy(g)
  BY DEF Busy
<1>3. QED
  BY <1>1, <1>2 DEF QuietForCounters

LEMMA DieKeepsCounters ==
    ASSUME Counters, Die, UNCHANGED <<storage, passkey, accepted>>
    PROVE  Counters'
<1>1. \A h \in Handlers : handler'[h].pc = "idle"
  BY IdleHoldsNothing DEF Die
<1>2. QED
  BY <1>1, QuietKeepsCounters DEF QuietForCounters, Busy

LEMMA StepKeepsCounters ==
    ASSUME TypeOK, Counters, [Next]_vars, storage = "file"
    PROVE  Counters'
<1>0. handler \in [Handlers -> Request]
  BY DEF TypeOK
<1>1. ASSUME NEW h \in Handlers, NEW u \in Users, NEW e \in Emails, HashVerifier(h, u, e)
      PROVE  Counters'
  <2>1. handler' = [handler EXCEPT ![h] = [Idle EXCEPT !.user = u, !.email = e, !.pc = "hash"]]
    BY <1>1 DEF HashVerifier, Begin
  <2>2. handler'[h].pc = "hash" /\ \A g \in Handlers \ {h} : handler'[g] = handler[g]
    BY <1>0, <2>1 DEF Idle
  <2>3. QED
    BY <1>1, <2>2, BeginsQuietly, QuietKeepsCounters DEF HashVerifier, histories, Busy
<1>2. ASSUME NEW h \in Handlers, NEW u \in Users, NEW code \in Codes, ConfirmCode(h, u, code)
      PROVE  Counters'
  <2>1. handler' = [handler EXCEPT ![h] = [Idle EXCEPT !.op = "confirm", !.user = u, !.pc = "upsert"]]
    BY <1>2 DEF ConfirmCode, Begin
  <2>2. handler'[h].pc = "upsert" /\ \A g \in Handlers \ {h} : handler'[g] = handler[g]
    BY <1>0, <2>1 DEF Idle
  <2>3. QED
    BY <1>2, <2>2, BeginsQuietly, QuietKeepsCounters DEF ConfirmCode, histories
<1>3. ASSUME NEW h \in Handlers, NEW u \in Users, NEW k \in Challenges, NEW c \in Credentials,
             NEW n \in Counts, NEW type \in Ceremonies, NEW genuine \in BOOLEAN,
             BeginCeremony(h, type, u, k, c, n, genuine)
      PROVE  Counters'
  <2>1. handler' = [handler EXCEPT ![h] =
                      [Idle EXCEPT !.op = type, !.user = u, !.cred = c, !.count = n,
                                   !.challenge = k, !.genuine = genuine, !.pc = "lookup"]]
    BY <1>3 DEF BeginCeremony, Begin
  <2>2. handler'[h].pc = "lookup" /\ \A g \in Handlers \ {h} : handler'[g] = handler[g]
    BY <1>0, <2>1 DEF Idle
  <2>3. QED
    BY <1>3, <2>2, BeginsQuietly, QuietKeepsCounters DEF BeginCeremony, histories
<1>4. ASSUME NEW h \in Handlers, CreateAccount(h) \/ StartMfa(h) \/ UpsertMfa(h)
      PROVE  Counters'
  <2>1. handler' = [handler EXCEPT ![h].pc = "start"] \/ handler' = [handler EXCEPT ![h] = Idle]
    BY <1>4 DEF CreateAccount, StartMfa, UpsertMfa, Return, Proceed
  <2>2. handler'[h].pc \in {"start", "idle"} /\ \A g \in Handlers \ {h} : handler'[g] = handler[g]
    BY <1>0, <2>1, IdleHoldsNothing DEF Request
  <2>3. Busy(h)' => Busy(h) \/ MayRun(h)
    BY <1>4 DEF CreateAccount, StartMfa, UpsertMfa, Busy
  <2>4. UNCHANGED <<storage, passkey, accepted>>
    BY <1>4 DEF CreateAccount, StartMfa, UpsertMfa, histories
  <2>5. QED
    BY <2>2, <2>3, <2>4, BeginsQuietly, QuietKeepsCounters
<1>5. ASSUME NEW h \in Handlers, LookupNew(h) PROVE Counters'
  <2>1. /\ handler[h].pc = "lookup" /\ handler[h].op = "create"
        /\ Return(h) \/ Proceed(h, "store")
        /\ UNCHANGED <<storage, passkey, accepted>>
    BY <1>5 DEF LookupNew, histories
  <2>2. /\ \A g \in Handlers \ {h} : handler'[g] = handler[g]
        /\ handler'[h].pc = "idle" \/ handler'[h].op = "create"
    BY <1>0, <2>1, IdleHoldsNothing DEF Return, Proceed, Request
  <2>3. QED
    BY <2>1, <2>2, QuietKeepsCounters DEF QuietForCounters, Busy
<1>6. ASSUME NEW h \in Handlers, StorePasskey(h) PROVE Counters'
  <2>1. CASE passkey[handler[h].cred].stored
    BY <1>6, <2>1, DieKeepsCounters DEF StorePasskey
  <2>2. CASE ~passkey[handler[h].cred].stored
    BY <1>6, <2>2, StorePasskeyKeepsCounters
  <2>3. QED
    BY <2>1, <2>2
<1>7. ASSUME NEW h \in Handlers, CheckCounter(h) \/ StoreCounter(h) PROVE Counters'
  BY <1>7, CheckKeepsCounters, StoreCounterKeepsCounters
<1>8. ASSUME UNCHANGED <<storage, passkey, accepted, handler>> PROVE Counters'
  BY <1>8, QuietKeepsCounters DEF QuietForCounters, Busy
<1>9. ASSUME NEW u \in Users,
             \/ EnrollBrowser(u) \/ LeavePage(u)
             \/ \E code \in Codes : SignInWithCode(u, code)
             \/ \E type \in Ceremonies : MintChallenge(u, type)
      PROVE  Counters'
  BY <1>8, <1>9 DEF EnrollBrowser, LeavePage, SignInWithCode, MintChallenge, histories
<1>10. ASSUME (\E k \in Challenges : Expire(k) \/ WrongOrigin(k)) \/ UNCHANGED vars
       PROVE  Counters'
  BY <1>8, <1>10 DEF Expire, WrongOrigin, vars, histories
<1>11. CASE Restart
  BY <1>11, DieKeepsCounters DEF Restart, histories
<1>12. QED
  BY <1>1, <1>2, <1>3, <1>4, <1>5, <1>6, <1>7, <1>9, <1>10, <1>11 DEF Next

\* Over the file store the handler at a credential is alone with it, and what
\* was let through is not ahead of what is stored.
THEOREM CountersInvariant == Spec => []Counters
<1>1. Init => Counters
  BY IdleHoldsNothing DEF Init, Counters, OneBusy, Busy, Counted, Ahead, NoCountTwice
<1>2. TypeOK /\ Counters /\ [Next]_vars => Counters'
  <2>1. TypeOK /\ Counters /\ [Next]_vars /\ storage # "file" => Counters'
    BY StorageFixed DEF Counters
  <2>2. QED
    BY <2>1, StepKeepsCounters
<1>3. QED
  BY <1>1, <1>2, TypeCorrect, PTL DEF Spec

\* A cloned authenticator is found out: over the file store a counter value above
\* 0 is accepted once per credential.
THEOREM ClonesAreDetected == Spec => []ClonesDetected
<1>1. Counters => ClonesDetected
  BY DEF Counters, ClonesDetected
<1>2. QED
  BY <1>1, CountersInvariant, PTL

\* The stored counter never goes back over the file store.
THEOREM CountersGrow == Spec => CounterGrows
<1> DEFINE Step == storage = "file" => \A c \in Credentials :
                      passkey[c].stored => passkey'[c].count >= passkey[c].count
<1>1. TypeOK /\ Counters /\ [Next]_vars => [Step]_vars
  <2> SUFFICES ASSUME TypeOK, Counters, Next, storage = "file" PROVE Step
    OBVIOUS
  <2>0. \A c \in Credentials : passkey[c].count \in Nat
    BY DEF TypeOK, Record, Counts
  <2>1. ASSUME NEW h \in Handlers, StoreCounter(h) PROVE Step
    BY <2>1, StoreCounterKeepsCounters
  <2>2. ASSUME NEW h \in Handlers, StorePasskey(h) PROVE Step
    BY <2>0, <2>2 DEF StorePasskey, TypeOK
  <2>3. ASSUME UNCHANGED passkey PROVE Step
    BY <2>0, <2>3
  <2>4. ASSUME NEW h \in Handlers,
               \/ \E u \in Users, e \in Emails : HashVerifier(h, u, e)
               \/ \E u \in Users, code \in Codes : ConfirmCode(h, u, code)
               \/ \E u \in Users, k \in Challenges, c \in Credentials, n \in Counts,
                     type \in Ceremonies, g \in BOOLEAN : BeginCeremony(h, type, u, k, c, n, g)
        PROVE  UNCHANGED passkey
    BY <2>4 DEF HashVerifier, ConfirmCode, BeginCeremony
  <2>5. ASSUME NEW h \in Handlers,
               CreateAccount(h) \/ StartMfa(h) \/ UpsertMfa(h) \/ LookupNew(h) \/ CheckCounter(h)
        PROVE  UNCHANGED passkey
    BY <2>5 DEF CreateAccount, StartMfa, UpsertMfa, LookupNew, CheckCounter
  <2>6. ASSUME \/ \E u \in Users :
                    \/ EnrollBrowser(u) \/ LeavePage(u)
                    \/ \E code \in Codes : SignInWithCode(u, code)
                    \/ \E type \in Ceremonies : MintChallenge(u, type)
               \/ \E k \in Challenges : Expire(k) \/ WrongOrigin(k)
               \/ Restart
        PROVE  UNCHANGED passkey
    BY <2>6 DEF EnrollBrowser, LeavePage, SignInWithCode, MintChallenge, Expire, WrongOrigin, Restart
  <2>7. QED
    BY <2>1, <2>2, <2>3, <2>4, <2>5, <2>6 DEF Next
<1>2. QED
  BY <1>1, TypeCorrect, CountersInvariant, PTL DEF Spec, CounterGrows
=============================================================================
