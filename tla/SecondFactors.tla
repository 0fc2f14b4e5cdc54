--------------------------- MODULE SecondFactors ---------------------------
(***************************************************************************)
(* Accounts and the second factors a person has: registration (account,    *)
(* TOTP secret, device of the browser), the confirmation of the TOTP       *)
(* secret and sign-in with a code, and the passkeys of PasskeyService      *)
(* (packages/server/src/auth, src/mfa, and the forms of public/app/app.js).*)
(*                                                                         *)
(* A registration hashes the verifier in a thread before its first         *)
(* repository call; otherwise handlers yield at each repository call as in *)
(* VaultServer.  A request enters its slot when its hash, or its first     *)
(* repository call, is under way; one that is refused leaves no trace.     *)
(* mfa.start is only called by the registration, so an account has one     *)
(* TOTP secret ever, and the secret is told apart by the account.          *)
(*                                                                         *)
(* Tokens are signed and not stored.  A full one, which the registration   *)
(* of a passkey asks for, may come from any factor, those of DeviceTrust   *)
(* included: here every account can have one.                              *)
(***************************************************************************)
EXTENDS Integers, FiniteSets

CONSTANTS
    Users,          \* ids of accounts (randomUUID: never used again)
    Emails,
    Credentials,    \* credential ids
    NoEmail,        \* the email of an id without an account
    Handlers,       \* requests the server may be serving at the same time
    Storages,       \* the storages the server may be started with
    MaxCount,       \* bound: signature counters
    MaxChallenges,  \* bound: challenges ever minted
    MaxFaults       \* bound: ends of the process from outside, and lost answers

ASSUME NonEmptyAssumption == Users # {} /\ Emails # {} /\ Credentials # {}
ASSUME EmailAssumption == NoEmail \notin Emails
ASSUME StorageAssumption == Storages \subseteq {"file", "postgres"}
ASSUME CountAssumption == MaxCount \in Nat
ASSUME ChallengesAssumption == MaxChallenges \in Nat

VARIABLES
    storage,    \* the repositories this server was started with
    account,    \* account[u]: the email of the stored account, or NoEmail
    mfa,        \* mfa[u]: the TOTP record
    client,     \* client[u]: how far the client that registers u has come
    passkey,    \* passkey[c]: the stored credential
    challenge,  \* challenge[k]: who may still use the challenge, and for what
    minted,     \* how many challenges were minted
    handler,    \* handler[h]: the request in slot h
    faults,     \* how many faults have happened
    used,       \* history: used[k], what challenge k has let through
    accepted    \* history: accepted[c][n], the assertions let through with counter n

histories == <<used, accepted>>
vars == <<storage, account, mfa, client, passkey, challenge, minted, handler, faults,
          used, accepted>>

Challenges == 1..MaxChallenges
Counts == 0..MaxCount
Ceremonies == {"create", "get"}

\* A challenge that is not minted, used, expired, or forgotten by a restart.
Gone == [user |-> CHOOSE u \in Users : TRUE, type |-> "none"]
Pending == [user : Users, type : Ceremonies] \cup {Gone}

\* owner and count mean something when stored.
Record == [stored : BOOLEAN, owner : Users, count : Counts]
NoRecord == [stored |-> FALSE, owner |-> CHOOSE u \in Users : TRUE, count |-> 0]

Request == [op : {"register", "confirm", "create", "get"},
            user : Users,
            email : Emails,
            cred : Credentials,
            count : Counts,          \* signCount of the authenticator data
            challenge : Challenges \cup {0},
            genuine : BOOLEAN,       \* authenticator data and signature verify
            pc : {"idle", "hash", "start", "upsert", "lookup", "store"}]

Idle == [op |-> "register", user |-> CHOOSE u \in Users : TRUE,
         email |-> CHOOSE e \in Emails : TRUE, cred |-> CHOOSE c \in Credentials : TRUE,
         count |-> 0, challenge |-> 0, genuine |-> FALSE, pc |-> "idle"]

TypeOK == /\ storage \in Storages
          /\ account \in [Users -> Emails \cup {NoEmail}]
          /\ mfa \in [Users -> {"none", "pending", "confirmed"}]
          /\ client \in [Users -> {"waiting", "enrolling", "code", "enabled", "signedin", "left", "lost"}]
          /\ passkey \in [Credentials -> Record]
          /\ challenge \in [Challenges -> Pending]
          /\ minted \in Challenges \cup {0}
          /\ handler \in [Handlers -> Request]
          /\ faults \in Nat
          /\ used \in [Challenges -> Nat]
          /\ accepted \in [Credentials -> [Counts -> Nat]]

Init == /\ storage \in Storages
        /\ account = [u \in Users |-> NoEmail]
        /\ mfa = [u \in Users |-> "none"]
        /\ client = [u \in Users |-> "waiting"]
        /\ passkey = [c \in Credentials |-> NoRecord]
        /\ challenge = [k \in Challenges |-> Gone]
        /\ minted = 0
        /\ handler = [h \in Handlers |-> Idle]
        /\ faults = 0
        /\ used = [k \in Challenges |-> 0]
        /\ accepted = [c \in Credentials |-> [n \in Counts |-> 0]]

-----------------------------------------------------------------------------
\* With the file store a handler that has made a repository call runs to its end
\* undisturbed; one that hashes is still to make it.
BadMayRun(h) == TRUE
MayRun(h) == \/ storage = "postgres"
             \/ \A g \in Handlers \ {h} : handler[g].pc \in {"idle", "hash"}

Return(h) == handler' = [handler EXCEPT ![h] = Idle]
Proceed(h, pc) == handler' = [handler EXCEPT ![h].pc = pc]
Begin(h, request) == /\ handler[h].pc = "idle"
                     /\ handler' = [handler EXCEPT ![h] = request]

-----------------------------------------------------------------------------
(* Registration. *)

\* POST /auth/register, accounts.register: the verifier is being hashed, and a
\* page waits for the answer.
HashVerifier(h, u, e) ==
    /\ account[u] = NoEmail
    /\ \A g \in Handlers : handler[g].pc = "hash" => handler[g].user # u
    /\ Begin(h, [Idle EXCEPT !.user = u, !.email = e, !.pc = "hash"])
    /\ client' = [client EXCEPT ![u] = "waiting"]
    /\ UNCHANGED <<storage, account, mfa, passkey, challenge, minted, faults, histories>>

\* AccountRepository.create: "email already registered".
BadEmailTaken(e) == FALSE
EmailTaken(e) == \E u \in Users : account[u] = e

CreateAccount(h) ==
    LET r == handler[h] IN
    /\ r.pc = "hash"
    /\ MayRun(h)
    /\ IF EmailTaken(r.email)
       THEN Return(h) /\ UNCHANGED account
       ELSE Proceed(h, "start") /\ account' = [account EXCEPT ![r.user] = r.email]
    /\ UNCHANGED <<storage, mfa, client, passkey, challenge, minted, faults, histories>>

\* mfa.start: the secret is stored unconfirmed, and the answer carries it.
StartMfa(h) ==
    LET u == handler[h].user IN
    /\ handler[h].pc = "start"
    /\ mfa' = [mfa EXCEPT ![u] = "pending"]
    /\ Return(h)
    /\ \/ /\ client' = [client EXCEPT ![u] = IF @ = "left" THEN @ ELSE "enrolling"]
          /\ UNCHANGED faults
       \/ /\ faults < MaxFaults
          /\ faults' = faults + 1
          /\ client' = [client EXCEPT ![u] = "lost"]
    /\ UNCHANGED <<storage, account, passkey, challenge, minted, histories>>

\* The client enrols its device before it shows the secret; when that fails it
\* never shows it.
EnrollBrowser(u) ==
    /\ client[u] = "enrolling"
    /\ \/ client' = [client EXCEPT ![u] = "code"] /\ UNCHANGED faults
       \/ /\ faults < MaxFaults
          /\ faults' = faults + 1
          /\ client' = [client EXCEPT ![u] = "lost"]
    /\ UNCHANGED <<storage, account, mfa, passkey, challenge, minted, handler, histories>>

\* The page of a registration is reloaded or closed, or another tab of the form is
\* clicked: the secret and pendingUserId were in that page only, and nothing shows
\* them again.  A request it has sent is still served.
LeavePage(u) ==
    /\ \/ client[u] \in {"enrolling", "code"}
       \/ client[u] = "waiting" /\ \E h \in Handlers :
             handler[h].pc \in {"hash", "start"} /\ handler[h].user = u
    /\ client' = [client EXCEPT ![u] = "left"]
    /\ UNCHANGED <<storage, account, mfa, passkey, challenge, minted, handler, faults, histories>>

-----------------------------------------------------------------------------
(* TOTP. *)

\* A code: whose secret made it, and how many steps from the server's clock.
Codes == [secret : Users, drift : -2..2]

\* verifyTOTP: "allowing +-1 step for clock skew".
VerifyTOTP(u, code) == code.secret = u /\ code.drift \in {-1, 0, 1}

\* Nobody has a code of a secret that was never shown; who has left the page may
\* have the secret in an authenticator.
Types(code) == client[code.secret] \in {"code", "enabled", "signedin", "left"}

\* mfa.confirm up to its upsert: the record and the code.  Only the page of the
\* registration knows the account's id.
ConfirmCode(h, u, code) ==
    /\ MayRun(h)
    /\ Types(code) /\ client[u] # "left"
    /\ mfa[u] # "none" /\ VerifyTOTP(u, code)
    /\ Begin(h, [Idle EXCEPT !.op = "confirm", !.user = u, !.pc = "upsert"])
    /\ UNCHANGED <<storage, account, mfa, client, passkey, challenge, minted, faults, histories>>

\* mfa.confirm: the record it read, confirmed; the form then asks to sign in.
BadConfirmed == "pending"
Confirmed == "confirmed"
UpsertMfa(h) ==
    LET u == handler[h].user IN
    /\ handler[h].pc = "upsert"
    /\ mfa' = [mfa EXCEPT ![u] = Confirmed]
    /\ client' = [client EXCEPT ![u] = IF @ = "code" THEN "enabled" ELSE @]
    /\ Return(h)
    /\ UNCHANGED <<storage, account, passkey, challenge, minted, faults, histories>>

\* The password is proved, and this browser has a device for the email.
PasswordLogin(u) == account[u] # NoEmail /\ client[u] \in {"code", "enabled", "signedin", "left"}

\* POST /auth/mfa: a code of the confirmed secret buys the full token.
SignInWithCode(u, code) ==
    /\ PasswordLogin(u)
    /\ \E h \in Handlers : handler[h].pc = "idle" /\ MayRun(h)
    /\ Types(code)
    /\ mfa[u] = "confirmed" /\ VerifyTOTP(u, code)
    /\ client' = [client EXCEPT ![u] = "signedin"]
    /\ UNCHANGED <<storage, account, mfa, passkey, challenge, minted, handler, faults, histories>>

-----------------------------------------------------------------------------
(* Passkeys. *)

HasPasskeys(u) == \E c \in Credentials : passkey[c].stored /\ passkey[c].owner = u

\* registrationOptions and assertionOptions: any number of challenges may be out.
MintChallenge(u, type) ==
    /\ account[u] # NoEmail
    /\ type = "get" => HasPasskeys(u)
    /\ \E h \in Handlers : handler[h].pc = "idle" /\ MayRun(h)
    /\ minted < MaxChallenges
    /\ minted' = minted + 1
    /\ challenge' = [challenge EXCEPT ![minted'] = [user |-> u, type |-> type]]
    /\ UNCHANGED <<storage, account, mfa, client, passkey, handler, faults, histories>>

\* Its two minutes are over.
Expire(k) ==
    /\ challenge[k] # Gone
    /\ challenge' = [challenge EXCEPT ![k] = Gone]
    /\ UNCHANGED <<storage, account, mfa, client, passkey, minted, handler, faults, histories>>

\* checkClientData: the challenge of this user and ceremony is deleted before the
\* origin is looked at, and before any await.
BadConsume(k) == UNCHANGED challenge
Consume(k) == challenge' = [challenge EXCEPT ![k] = Gone]
Matches(k, u, type) == challenge[k] = [user |-> u, type |-> type]

\* verifyRegistration and verifyAssertion up to their first await: the origin is
\* one of ours, and the credential is being looked up; or it is not.
BeginCeremony(h, type, u, k, c, n, genuine) ==
    /\ MayRun(h)
    /\ Matches(k, u, type)
    /\ Consume(k)
    /\ Begin(h, [Idle EXCEPT !.op = type, !.user = u, !.cred = c, !.count = n,
                             !.challenge = k, !.genuine = genuine, !.pc = "lookup"])
    /\ UNCHANGED <<storage, account, mfa, client, passkey, minted, faults, histories>>

WrongOrigin(k) ==
    /\ \E h \in Handlers : handler[h].pc = "idle" /\ MayRun(h)
    /\ challenge[k] # Gone
    /\ Consume(k)
    /\ UNCHANGED <<storage, account, mfa, client, passkey, minted, handler, faults, histories>>

\* The process ends: requests and challenges are gone, the records stay.  The
\* forms of the clients whose registration it was serving fail.
Die == /\ handler' = [h \in Handlers |-> Idle]
       /\ challenge' = [k \in Challenges |-> Gone]
       /\ client' = [u \in Users |->
              IF \E h \in Handlers : handler[h].pc = "start" /\ handler[h].user = u
              THEN "lost" ELSE client[u]]

\* verifyRegistration: "credential already registered".
LookupNew(h) ==
    LET r == handler[h] IN
    /\ r.op = "create" /\ r.pc = "lookup"
    /\ IF passkey[r.cred].stored \/ ~r.genuine THEN Return(h) ELSE Proceed(h, "store")
    /\ UNCHANGED <<storage, account, mfa, client, passkey, challenge, minted, faults, histories>>

\* verifyRegistration: the credential is stored.  Two requests for one credential
\* may get here over Postgres: the second breaks the unique key, nothing catches
\* what it throws, and the process ends.
StorePasskey(h) ==
    LET r == handler[h] IN
    /\ r.op = "create" /\ r.pc = "store"
    /\ IF passkey[r.cred].stored
       THEN Die /\ faults' = faults + 1 /\ UNCHANGED <<passkey, used>>
       ELSE /\ passkey' = [passkey EXCEPT ![r.cred] =
                               [stored |-> TRUE, owner |-> r.user, count |-> r.count]]
            /\ used' = [used EXCEPT ![r.challenge] = @ + 1]
            /\ Return(h)
            /\ UNCHANGED <<challenge, client, faults>>
    /\ UNCHANGED <<storage, account, mfa, minted, accepted>>

\* The session an assertion opens.
LetThrough(r) ==
    /\ used' = [used EXCEPT ![r.challenge] = @ + 1]
    /\ accepted' = [accepted EXCEPT ![r.cred][r.count] = @ + 1]

\* "Clone detection: a counter that goes backwards means a copied key."
BadRegresses(seen, stored) == seen < stored
Regresses(seen, stored) == seen =< stored

\* verifyAssertion after its lookup: the credential, the signature, the counter.
\* An authenticator that keeps no counter always says 0.
CheckCounter(h) ==
    LET r == handler[h]
        cred == passkey[r.cred]
        bad == ~cred.stored \/ cred.owner # r.user \/ ~r.genuine
        counts == r.count > 0 \/ cred.count > 0 IN
    /\ r.op = "get" /\ r.pc = "lookup"
    /\ \/ /\ bad \/ (counts /\ Regresses(r.count, cred.count))
          /\ Return(h) /\ UNCHANGED histories
       \/ /\ ~bad /\ ~counts
          /\ LetThrough(r) /\ Return(h)
       \/ /\ ~bad /\ counts /\ ~Regresses(r.count, cred.count)
          /\ Proceed(h, "store") /\ UNCHANGED histories
    /\ UNCHANGED <<storage, account, mfa, client, passkey, challenge, minted, faults>>

\* updateSignCount, whatever the counter is by now, and the full token.
BadUpdateSignCount(c, n) == passkey' = [passkey EXCEPT ![c].count = n + 1]
UpdateSignCount(c, n) == passkey' = [passkey EXCEPT ![c].count = n]
StoreCounter(h) ==
    LET r == handler[h] IN
    /\ r.op = "get" /\ r.pc = "store"
    /\ UpdateSignCount(r.cred, r.count)
    /\ LetThrough(r)
    /\ Return(h)
    /\ UNCHANGED <<storage, account, mfa, client, challenge, minted, faults>>

-----------------------------------------------------------------------------
Restart == /\ faults < MaxFaults
           /\ faults' = faults + 1
           /\ Die
           /\ UNCHANGED <<storage, account, mfa, passkey, minted, histories>>

Next == \/ \E h \in Handlers :
              \/ \E u \in Users, e \in Emails : HashVerifier(h, u, e)
              \/ \E u \in Users, code \in Codes : ConfirmCode(h, u, code)
              \/ \E u \in Users, k \in Challenges, c \in Credentials, n \in Counts,
                    type \in Ceremonies, g \in BOOLEAN : BeginCeremony(h, type, u, k, c, n, g)
              \/ CreateAccount(h) \/ StartMfa(h) \/ UpsertMfa(h)
              \/ LookupNew(h) \/ StorePasskey(h) \/ CheckCounter(h) \/ StoreCounter(h)
        \/ \E u \in Users : EnrollBrowser(u) \/ LeavePage(u)
        \/ \E u \in Users, code \in Codes : SignInWithCode(u, code)
        \/ \E u \in Users, type \in Ceremonies : MintChallenge(u, type)
        \/ \E k \in Challenges : Expire(k) \/ WrongOrigin(k)
        \/ Restart

Spec == Init /\ [][Next]_vars

-----------------------------------------------------------------------------
\* However registrations of one email interleave around their hashes, one of them
\* gets the account ("email already registered", account.repository.ts).
OneAccountPerEmail ==
    \A u, v \in Users : account[u] = account[v] /\ account[u] # NoEmail => u = v

\* Every stored account is being served, can be finished by the page that waits for
\* its secret or shows it, or can be signed in to, unless the person left that very
\* page, or a fault cut that very registration off (main.ts: account, then secret,
\* then device; what befalls other accounts is no excuse).
StrandedByFaultOrLeaving ==
    \A u \in Users : account[u] # NoEmail =>
        \/ \E h \in Handlers : handler[h].pc = "start" /\ handler[h].user = u
        \/ client[u] \in {"enrolling", "code"} /\ mfa[u] # "none"
        \/ client[u] \in {"enabled", "signedin"} /\ mfa[u] = "confirmed"
        \/ client[u] = "left"
        \/ client[u] = "lost" /\ faults > 0

\* A challenge lets one ceremony through at most, however many of its assertions
\* are in flight and across restarts ("single-use, even on failure",
\* passkey.service.ts).
SingleUse == \A k \in Challenges : used[k] =< 1

\* Over the file store a counter value is accepted once per credential, so of two
\* authenticators with the same key the one behind is refused ("signCount
\* regression -> rejected (clone detection)", passkey.service.ts).
NoCountTwice ==
    \A c \in Credentials : \A n \in Counts \ {0} : accepted[c][n] =< 1
ClonesDetected == storage = "file" => NoCountTwice

\* Over the file store the stored counter never goes back.
CounterGrows ==
    [][storage = "file" => \A c \in Credentials :
          passkey[c].stored => passkey'[c].count >= passkey[c].count]_vars
=============================================================================
