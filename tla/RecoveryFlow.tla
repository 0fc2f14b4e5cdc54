---------------------------- MODULE RecoveryFlow ----------------------------
(***************************************************************************)
(* The recovery kit and the reset of a forgotten password, from the first  *)
(* offer of a kit to the rotation that ends a recovery: the web client     *)
(* (packages/server/public/app/app.js), RecoveryService.setup, isConfigured*)
(* and begin, and AccountService.resetVerifier.                            *)
(*                                                                         *)
(* One account.  The salt of its key never changes, so a key is told apart *)
(* by its password.  Each request of a browser is one step: the server     *)
(* reads and writes one record for it (recovery/complete checks the kit,   *)
(* hashes, and writes the account, which nothing here reads meanwhile).    *)
(* The browsers interleave freely; a page may be closed between any two of *)
(* its requests, and an answer may be lost after its request was served.   *)
(*                                                                         *)
(* A recovery key is told apart by the kit it opens.  What a person does:  *)
(* one recovery at a time; and, unless Interrupts says otherwise, repeating*)
(* an interrupted recovery with the password it had set, approving a       *)
(* browser before or after it recovers, and starting no recovery while     *)
(* another page is still about to store the first kit of a retired password*)
(***************************************************************************)
EXTENDS Integers, FiniteSets

CONSTANTS
    Browsers,
    Items,
    Passwords,
    Kits,           \* names of recovery keys: one not in use is as good as new
    None,           \* no row, no password, no kit
    Interrupts,     \* what else may happen: "password", "approval", "offer"
    MaxFaults       \* bound: pages closed, requests refused or answers lost,
                    \* recoveries begun in a browser without an approved device

ASSUME NoneAssumption == None \notin Passwords \cup Kits
ASSUME KitsAssumption == IsFiniteSet(Kits) /\ IsFiniteSet(Browsers)
                         /\ Cardinality(Kits) > Cardinality(Browsers) + 1
ASSUME FaultsAssumption == MaxFaults \in Nat

VARIABLES
    login,      \* the password whose verifier the account stores
    row,        \* row[i]: the password whose key encrypts item i
    kit,        \* the recovery record: its recovery key, the key it wraps, and
                \* whether the person was shown the recovery key
    approved,   \* browsers whose device is approved
    tab,        \* tab[b]: the page of browser b
    faults,     \* how many faults have happened
    left        \* history: items left under a retired key

vars == <<login, row, kit, approved, tab, faults, left>>

\* Where a page is: signed out, asking for the kit's status, storing the first
\* kit, showing the vault, and the steps of a recovery.
Recovery == {"complete", "signin", "list", "rows", "rotate"}
Page == [pc : {"out", "status", "setup", "open"} \cup Recovery,
         key : Passwords \cup {None},   \* of aesKey, or of newAesKey
         old : Passwords \cup {None},   \* of oldAesKey
         kit : Kits \cup {None},        \* the recovery key that was typed
         todo : SUBSET Items]           \* rows still to encrypt again
SignedOut == [pc |-> "out", key |-> None, old |-> None, kit |-> None, todo |-> {}]
Opened(key) == [SignedOut EXCEPT !.pc = "open", !.key = key]

Kit == [key : Kits, wraps : Passwords, shown : BOOLEAN]
NoKit == [key |-> None, wraps |-> None, shown |-> FALSE]

TypeOK == /\ login \in Passwords
          /\ row \in [Items -> Passwords \cup {None}]
          /\ kit \in Kit \cup {NoKit}
          /\ approved \in SUBSET Browsers
          /\ tab \in [Browsers -> Page]
          /\ faults \in Nat
          /\ left \in SUBSET Items

\* A registered account: one of the browsers created it and is approved.
Init == /\ login \in Passwords
        /\ row = [i \in Items |-> None]
        /\ kit = NoKit
        /\ \E b \in Browsers : approved = {b}
        /\ tab = [b \in Browsers |-> SignedOut]
        /\ faults = 0
        /\ left = {}

-----------------------------------------------------------------------------
Goto(b, page) == tab' = [tab EXCEPT ![b] = page]
Fault == faults < MaxFaults /\ faults' = faults + 1

\* passwordLogin and finishLogin: the vault is loaded and the kit's status asked
\* for; a browser that is not approved is refused both, and shows nothing.
SignIn(b) ==
    /\ tab[b].pc = "out"
    /\ Goto(b, [Opened(login) EXCEPT !.pc = IF b \in approved THEN "status" ELSE "open"])
    /\ UNCHANGED <<login, row, kit, approved, faults, left>>

\* offerRecoveryKit: a kit is made unless one is configured.
Offers == kit = NoKit

OfferKit(b) ==
    /\ tab[b].pc = "status"
    /\ Goto(b, [tab[b] EXCEPT !.pc = IF Offers THEN "setup" ELSE "open"])
    /\ UNCHANGED <<login, row, kit, approved, faults, left>>

\* A recovery key nobody has used yet.
FreshKit == CHOOSE k \in Kits : k # kit.key /\ \A b \in Browsers : tab[b].kit # k

\* POST /recovery/setup, answered with 201 and shown, or not.
BadWraps(b) == tab[b].old
Wraps(b) == tab[b].key
StoreKit(b, shown) == kit' = [key |-> FreshKit, wraps |-> Wraps(b), shown |-> shown]

SetupKit(b) ==
    /\ tab[b].pc = "setup"
    /\ Goto(b, Opened(tab[b].key))
    /\ \/ StoreKit(b, TRUE) /\ UNCHANGED faults
       \/ StoreKit(b, FALSE) /\ Fault
    /\ UNCHANGED <<login, row, approved, left>>

-----------------------------------------------------------------------------
(* The vault of an open page. *)

Writes(b) == tab[b].pc = "open" /\ b \in approved

\* saveItem: always a new row, under the key the page has.
Save(b, i) ==
    /\ Writes(b)
    /\ row[i] = None
    /\ row' = [row EXCEPT ![i] = tab[b].key]
    /\ left' = IF tab[b].key = login THEN left ELSE left \cup {i}
    /\ UNCHANGED <<login, kit, approved, tab, faults>>

\* deleteItem: of a row the page could decrypt.
Delete(b, i) ==
    /\ Writes(b)
    /\ row[i] = tab[b].key
    /\ row' = [row EXCEPT ![i] = None]
    /\ left' = left \ {i}
    /\ UNCHANGED <<login, kit, approved, tab, faults>>

Logout(b) ==
    /\ tab[b].pc = "open"
    /\ Goto(b, SignedOut)
    /\ UNCHANGED <<login, row, kit, approved, faults, left>>

-----------------------------------------------------------------------------
(* Recovery. *)

\* The person misses rows: the kit still wraps a key the account no longer has.
Unfinished == kit # NoKit /\ kit.wraps # login

\* recoverBtn up to its second request: the server gives the wrapped key for the
\* recovery key the person was shown, and the page unwraps it.
BeginRecovery(b, new) ==
    /\ tab[b].pc \in {"out", "open"}
    /\ \A c \in Browsers : tab[c].pc \notin Recovery
    /\ \/ \A c \in Browsers : tab[c].pc = "setup" => tab[c].key = login
       \/ "offer" \in Interrupts
    /\ kit.shown
    /\ Unfinished => new = login \/ "password" \in Interrupts
    /\ Goto(b, [pc |-> "complete", key |-> new, old |-> kit.wraps,
                kit |-> kit.key, todo |-> {}])
    /\ IF b \in approved THEN UNCHANGED faults ELSE Fault
    /\ UNCHANGED <<login, row, kit, approved, left>>

\* POST /recovery/complete checks the recovery key again, and then resetVerifier.
Complete(b) ==
    /\ tab[b].pc = "complete"
    /\ \/ /\ tab[b].kit = kit.key
          /\ login' = tab[b].key
          /\ \/ Goto(b, [tab[b] EXCEPT !.pc = "signin", !.kit = None]) /\ UNCHANGED faults
             \/ Goto(b, SignedOut) /\ Fault
       \/ /\ tab[b].kit # kit.key
          /\ Goto(b, SignedOut)
          /\ UNCHANGED <<login, faults>>
    /\ UNCHANGED <<row, kit, approved, left>>

\* loginEnrollingDevice and the code: the browser gets a device if it has none.
SignInAgain(b) ==
    /\ tab[b].pc = "signin"
    /\ Goto(b, IF tab[b].key = login THEN [tab[b] EXCEPT !.pc = "list"] ELSE SignedOut)
    /\ UNCHANGED <<login, row, kit, approved, faults, left>>

\* GET /vault/items: the rows under the old key are those to do; a refusal is
\* taken for an empty vault.
Listed(b) == IF b \in approved THEN {i \in Items : row[i] = tab[b].old} ELSE {}

ListRows(b) ==
    /\ tab[b].pc = "list"
    /\ Goto(b, [tab[b] EXCEPT !.pc = "rows", !.todo = Listed(b)])
    /\ UNCHANGED <<login, row, kit, approved, faults, left>>

\* One PUT of the loop, on the version that was listed.  A deleted row is refused.
\* Any other refusal or failure is ignored, and leaves the row as it is.
Reencrypt(b, i) ==
    /\ tab[b].pc = "rows"
    /\ i \in tab[b].todo
    /\ Goto(b, [tab[b] EXCEPT !.todo = @ \ {i}])
    /\ \/ /\ row[i] = tab[b].old
          /\ row' = [row EXCEPT ![i] = tab[b].key]
          /\ left' = IF tab[b].key = login THEN left \ {i} ELSE left \cup {i}
          /\ UNCHANGED faults
       \/ /\ row[i] = tab[b].old
          /\ left' = left \cup {i}
          /\ Fault
          /\ UNCHANGED row
       \/ /\ row[i] # tab[b].old
          /\ UNCHANGED <<row, left, faults>>
    /\ UNCHANGED <<login, kit, approved>>

\* The loop is over: the vault is shown under the new key.
BadAllDone(b) == TRUE
AllDone(b) == tab[b].todo = {}

ShowVault(b) ==
    /\ tab[b].pc = "rows"
    /\ AllDone(b)
    /\ Goto(b, [tab[b] EXCEPT !.pc = "rotate", !.todo = {}])
    /\ UNCHANGED <<login, row, kit, approved, faults, left>>

\* "The old recovery kit wrapped the OLD key - rotate to a fresh one."  A browser
\* that is not approved is refused.
Rotate(b) ==
    /\ tab[b].pc = "rotate"
    /\ Goto(b, Opened(tab[b].key))
    /\ \/ b \in approved /\ StoreKit(b, TRUE) /\ UNCHANGED faults
       \/ b \in approved /\ StoreKit(b, FALSE) /\ Fault
       \/ b \notin approved /\ UNCHANGED <<kit, faults>>
    /\ UNCHANGED <<login, row, approved, left>>

\* The page is closed, or a request of it fails.
Stop(b) ==
    /\ tab[b].pc \notin {"out", "open"}
    /\ Fault
    /\ Goto(b, SignedOut)
    /\ UNCHANGED <<login, row, kit, approved, left>>

\* A trusted device approves the browser's.
Approve(b) ==
    /\ b \notin approved
    /\ tab[b].pc \in {"rows", "rotate"} => "approval" \in Interrupts
    /\ approved' = approved \cup {b}
    /\ UNCHANGED <<login, row, kit, tab, faults, left>>

-----------------------------------------------------------------------------
Step(b) == \/ OfferKit(b) \/ SetupKit(b)
           \/ Complete(b) \/ SignInAgain(b) \/ ListRows(b)
           \/ \E i \in Items : Reencrypt(b, i)
           \/ ShowVault(b) \/ Rotate(b)

Next == \E b \in Browsers :
           \/ SignIn(b) \/ Logout(b) \/ Stop(b) \/ Approve(b) \/ Step(b)
           \/ \E i \in Items : Save(b, i) \/ Delete(b, i)
           \/ \E new \in Passwords : BeginRecovery(b, new)

Spec == Init /\ [][Next]_vars

\* A page goes on by itself from one request to the next.  That a person who still
\* misses rows recovers again, in the end, in an approved browser is assumed.
Resumes == \E b \in approved : Unfinished /\ BeginRecovery(b, login)

FairSpec == /\ Spec
            /\ \A b \in Browsers : WF_vars(Step(b))
            /\ SF_vars(Resumes)

-----------------------------------------------------------------------------
\* Wherever recoveries stop and whatever other browsers do, a row can be read with
\* the password the account has or with the key the recovery kit wraps - except a
\* row whose PUT the recovery saw fail and ignored, or that a client still open
\* under a retired key wrote (app.js, recoverBtn: the rotation comes last).
RowsReachable ==
    \A i \in Items \ left : row[i] \in {None, login, kit.wraps}

\* After a recovery every row is under the key of the account or of the kit
\* ("re-encrypt every item under the new key", app.js:219).
EveryRowReachable ==
    \A i \in Items : row[i] \in {None, login, kit.wraps}

\* An unfinished recovery can be finished: as long as the person holds the recovery
\* key of the kit, trying again ends with a kit that wraps the account's key.
RecoveryEnds == (Unfinished /\ kit.shown) ~> (~Unfinished \/ ~kit.shown)
=============================================================================
