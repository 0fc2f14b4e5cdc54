------------------------- MODULE RecoveryFlowProofs -------------------------
(***************************************************************************)
(* Proofs about recovery kits, for any number of browsers, items and       *)
(* passwords and wherever recoveries stop.  That a row stays readable is   *)
(* not inductive: the rotation drops the old key, so it depends on what    *)
(* the loop before it has done, and that on which key the kit wraps while  *)
(* pages that offer a first kit are still about.  KeysMeet says the second,*)
(* Done the first.                                                         *)
(***************************************************************************)
EXTENDS RecoveryFlow, FiniteSetTheorems, TLAPS

-----------------------------------------------------------------------------
(* Types. *)

\* One of A is neither x nor a value of f, when A has more than f's arguments and x.
LEMMA OneIsFree ==
    ASSUME NEW A, NEW B, NEW x, NEW f, f = [b \in B |-> f[b]],
           IsFiniteSet(A), IsFiniteSet(B), Cardinality(A) > Cardinality(B) + 1
    PROVE  \E a \in A : a # x /\ \A b \in B : f[b] # a
<1> DEFINE T == {f[b] : b \in B}
<1>1. f \in Surjection(B, T)
  BY DEF Surjection
<1>2. IsFiniteSet(T) /\ Cardinality(T) =< Cardinality(B)
  BY <1>1, FS_Surjection
<1> HIDE DEF T
<1>3. /\ IsFiniteSet(T \cup {x})
      /\ Cardinality(T \cup {x}) = IF x \in T THEN Cardinality(T) ELSE Cardinality(T) + 1
  BY <1>2, FS_AddElement
<1>4. Cardinality(A) \in Nat /\ Cardinality(B) \in Nat /\ Cardinality(T) \in Nat
  BY <1>2, FS_CardinalityType
<1>5. ~(A \subseteq T \cup {x})
  BY <1>2, <1>3, <1>4, FS_Subset
<1>6. PICK a \in A : a \notin T \cup {x}
  BY <1>5
<1> QED
  BY <1>6 DEF T

\* A recovery key that is neither stored nor typed in a page.
LEMMA FreshKitExists ==
    FreshKit \in Kits /\ FreshKit # kit.key
<1> DEFINE typed == [b \in Browsers |-> tab[b].kit]
<1>1. \E k \in Kits : k # kit.key /\ \A b \in Browsers : typed[b] # k
  <2>1. typed = [b \in Browsers |-> typed[b]]
    OBVIOUS
  <2> HIDE DEF typed
  <2> QED
    BY <2>1, OneIsFree, KitsAssumption
<1>2. \E k \in Kits : k # kit.key /\ \A b \in Browsers : tab[b].kit # k
  BY <1>1
<1> QED
  BY <1>2 DEF FreshKit

\* A page that is signed in has a key.
Keyed == \A b \in Browsers : tab[b].pc # "out" => tab[b].key \in Passwords

\* Pages change one at a time.
LEMMA GotoKeepsType ==
    ASSUME TypeOK, Keyed, NEW b \in Browsers, NEW page \in Page,
           page.pc # "out" => page.key \in Passwords,
           Goto(b, page)
    PROVE  /\ tab' \in [Browsers -> Page] /\ Keyed'
           /\ tab'[b] = page /\ \A c \in Browsers \ {b} : tab'[c] = tab[c]
BY DEF TypeOK, Keyed, Goto

LEMMA Pages ==
    /\ SignedOut \in Page /\ SignedOut.pc = "out"
    /\ \A key \in Passwords : Opened(key) \in Page /\ Opened(key).pc = "open" /\ Opened(key).key = key
BY DEF SignedOut, Opened, Page

LEMMA FaultKeepsType ==
    ASSUME TypeOK, Fault \/ UNCHANGED faults
    PROVE  faults' \in Nat
BY DEF TypeOK, Fault

LEMMA StoreKitKeepsType ==
    ASSUME TypeOK, Keyed, NEW b \in Browsers, tab[b].pc # "out", NEW shown \in BOOLEAN, StoreKit(b, shown)
    PROVE  kit' \in Kit /\ kit' # NoKit /\ kit'.wraps = tab[b].key
<1>1. kit' = [key |-> FreshKit, wraps |-> tab[b].key, shown |-> shown] /\ tab[b].key \in Passwords
  BY DEF Keyed, StoreKit, Wraps
<1> QED
  BY <1>1, FreshKitExists, NoneAssumption DEF Kit, NoKit

LEMMA ExistingKit ==
    ASSUME TypeOK, kit # NoKit
    PROVE  kit.wraps \in Passwords
BY DEF TypeOK, Kit

\* Every step of a page leads to a page, and leaves the pages of the others alone.
PageStep(b) ==
    \/ SignIn(b) \/ Logout(b) \/ Stop(b) \/ Approve(b) \/ Step(b)
    \/ \E i \in Items : Save(b, i) \/ Delete(b, i)
    \/ \E new \in Passwords : BeginRecovery(b, new)

\* Where each action takes the page.
LEMMA Moves ==
    ASSUME TypeOK, Keyed, NEW b \in Browsers, PageStep(b)
    PROVE  \E page \in Page : /\ Goto(b, page)
                              /\ page.pc # "out" => page.key \in Passwords
<1> USE Pages
<1>0. tab[b] \in Page /\ (tab[b].pc # "out" => tab[b].key \in Passwords) /\ tab = [tab EXCEPT ![b] = tab[b]]
  BY DEF TypeOK, Keyed
<1>1. CASE SignIn(b)
  <2> DEFINE pc == IF b \in approved THEN "status" ELSE "open"
  <2>1. /\ [Opened(login) EXCEPT !.pc = pc] \in Page
        /\ [Opened(login) EXCEPT !.pc = pc].key = login
        /\ login \in Passwords
    BY DEF TypeOK, Opened, SignedOut, Page
  <2>2. Goto(b, [Opened(login) EXCEPT !.pc = pc])
    BY <1>1 DEF SignIn
  <2> HIDE DEF pc
  <2> QED
    BY <2>1, <2>2
<1>2. CASE Logout(b) \/ Stop(b)
  BY <1>2 DEF Logout, Stop
<1>3. CASE Approve(b) \/ \E i \in Items : Save(b, i) \/ Delete(b, i)
  BY <1>0, <1>3 DEF Approve, Save, Delete, Goto
<1>4. CASE OfferKit(b)
  <2> DEFINE pc == IF Offers THEN "setup" ELSE "open"
  <2>1. [tab[b] EXCEPT !.pc = pc] \in Page /\ [tab[b] EXCEPT !.pc = pc].key = tab[b].key
    BY <1>0 DEF Page
  <2>2. Goto(b, [tab[b] EXCEPT !.pc = pc]) /\ tab[b].pc # "out"
    BY <1>4 DEF OfferKit
  <2> HIDE DEF pc
  <2> QED
    BY <1>0, <2>1, <2>2
<1>5. CASE SetupKit(b) \/ Rotate(b)
  <2>1. Goto(b, Opened(tab[b].key)) /\ tab[b].pc # "out"
    BY <1>5 DEF SetupKit, Rotate
  <2> QED
    BY <1>0, <2>1
<1>6. CASE Complete(b)
  <2>1. [tab[b] EXCEPT !.pc = "signin", !.kit = None] \in Page
        /\ [tab[b] EXCEPT !.pc = "signin", !.kit = None].key = tab[b].key
    BY <1>0 DEF Page, Recovery
  <2>2. tab[b].pc # "out" /\ (Goto(b, SignedOut) \/ Goto(b, [tab[b] EXCEPT !.pc = "signin", !.kit = None]))
    BY <1>6 DEF Complete
  <2> QED
    BY <1>0, <2>1, <2>2
<1>7. CASE SignInAgain(b)
  <2>1. [tab[b] EXCEPT !.pc = "list"] \in Page /\ [tab[b] EXCEPT !.pc = "list"].key = tab[b].key
    BY <1>0 DEF Page, Recovery
  <2>2. tab[b].pc # "out" /\ (Goto(b, SignedOut) \/ Goto(b, [tab[b] EXCEPT !.pc = "list"]))
    BY <1>7 DEF SignInAgain
  <2> QED
    BY <1>0, <2>1, <2>2
<1>8. CASE ListRows(b)
  <2>1. Listed(b) \in SUBSET Items
    BY DEF Listed
  <2>2. [tab[b] EXCEPT !.pc = "rows", !.todo = Listed(b)] \in Page
        /\ [tab[b] EXCEPT !.pc = "rows", !.todo = Listed(b)].key = tab[b].key
    BY <1>0, <2>1 DEF Page, Recovery
  <2>3. tab[b].pc # "out" /\ Goto(b, [tab[b] EXCEPT !.pc = "rows", !.todo = Listed(b)])
    BY <1>8 DEF ListRows
  <2> QED
    BY <1>0, <2>2, <2>3
<1>9. CASE \E i \in Items : Reencrypt(b, i)
  <2>1. PICK i \in Items : Reencrypt(b, i)
    BY <1>9
  <2>2. Goto(b, [tab[b] EXCEPT !.todo = tab[b].todo \ {i}]) /\ tab[b].pc # "out"
    BY <2>1 DEF Reencrypt
  <2>3. [tab[b] EXCEPT !.todo = tab[b].todo \ {i}] \in Page
        /\ [tab[b] EXCEPT !.todo = tab[b].todo \ {i}].key = tab[b].key
    BY <1>0 DEF Page
  <2> QED
    BY <1>0, <2>2, <2>3
<1>10. CASE ShowVault(b)
  <2>1. [tab[b] EXCEPT !.pc = "rotate", !.todo = {}] \in Page
        /\ [tab[b] EXCEPT !.pc = "rotate", !.todo = {}].key = tab[b].key
    BY <1>0 DEF Page, Recovery
  <2>2. tab[b].pc # "out" /\ Goto(b, [tab[b] EXCEPT !.pc = "rotate", !.todo = {}])
    BY <1>10 DEF ShowVault
  <2> QED
    BY <1>0, <2>1, <2>2
<1>11. CASE \E new \in Passwords : BeginRecovery(b, new)
  <2>1. PICK new \in Passwords : BeginRecovery(b, new)
    BY <1>11
  <2> DEFINE page == [pc |-> "complete", key |-> new, old |-> kit.wraps, kit |-> kit.key, todo |-> {}]
  <2>2. kit.wraps \in Passwords \cup {None} /\ kit.key \in Kits \cup {None}
    BY DEF TypeOK, Kit, NoKit
  <2>3. page \in Page /\ page.key = new
    BY <2>2 DEF Page, Recovery
  <2>4. Goto(b, page)
    BY <2>1 DEF BeginRecovery
  <2> HIDE DEF page
  <2> QED
    BY <2>3, <2>4
<1> QED
  BY <1>1, <1>2, <1>3, <1>4, <1>5, <1>6, <1>7, <1>8, <1>9, <1>10, <1>11 DEF PageStep, Step

LEMMA StepKeepsType ==
    ASSUME TypeOK, Keyed, NEW b \in Browsers, PageStep(b)
    PROVE  TypeOK' /\ Keyed'
<1>1. PICK page \in Page : Goto(b, page) /\ (page.pc # "out" => page.key \in Passwords)
  BY Moves
<1>2. tab' \in [Browsers -> Page] /\ Keyed'
  BY <1>1, GotoKeepsType
<1>3. faults' \in Nat
  <2>1. Fault \/ UNCHANGED faults
    BY DEF PageStep, Step, SignIn, Logout, Stop, Approve, Save, Delete, BeginRecovery, OfferKit, SetupKit,
           Complete, SignInAgain, ListRows, Reencrypt, ShowVault, Rotate
  <2> QED
    BY <2>1, FaultKeepsType
<1>4. kit' \in Kit \cup {NoKit}
  <2>1. CASE SetupKit(b) \/ Rotate(b)
    <3>1. tab[b].pc # "out" /\ (StoreKit(b, TRUE) \/ StoreKit(b, FALSE) \/ UNCHANGED kit)
      BY <2>1 DEF SetupKit, Rotate
    <3>2. StoreKit(b, TRUE) \/ StoreKit(b, FALSE) => kit' \in Kit
      BY <3>1, StoreKitKeepsType
    <3> QED
      BY <3>1, <3>2 DEF TypeOK
  <2>2. CASE ~(SetupKit(b) \/ Rotate(b))
    <3>1. UNCHANGED kit
      BY <2>2 DEF PageStep, Step, SignIn, Logout, Stop, Approve, Save, Delete, BeginRecovery, OfferKit,
                  Complete, SignInAgain, ListRows, Reencrypt, ShowVault
    <3> QED
      BY <3>1 DEF TypeOK
  <2> QED
    BY <2>1, <2>2
<1>5. login' \in Passwords
  <2>1. CASE Complete(b)
    BY <2>1 DEF Complete, TypeOK, Keyed
  <2>2. CASE ~Complete(b)
    BY <2>2 DEF TypeOK, PageStep, Step, SignIn, Logout, Stop, Approve, Save, Delete, BeginRecovery, OfferKit, SetupKit,
                SignInAgain, ListRows, Reencrypt, ShowVault, Rotate
  <2> QED
    BY <2>1, <2>2
<1>6. row' \in [Items -> Passwords \cup {None}] /\ left' \in SUBSET Items
  <2>0. tab[b].key \in Passwords \cup {None}
    BY DEF TypeOK, Page
  <2>1. CASE \E i \in Items : Save(b, i) \/ Delete(b, i) \/ Reencrypt(b, i)
    BY <2>0, <2>1 DEF TypeOK, Save, Delete, Reencrypt
  <2>2. CASE ~\E i \in Items : Save(b, i) \/ Delete(b, i) \/ Reencrypt(b, i)
    <3>1. UNCHANGED <<row, left>>
      BY <2>2 DEF PageStep, Step, SignIn, Logout, Stop, Approve, BeginRecovery, OfferKit, SetupKit,
                  Complete, SignInAgain, ListRows, ShowVault, Rotate
    <3> QED
      BY <3>1 DEF TypeOK
  <2> QED
    BY <2>1, <2>2
<1>7. approved' \in SUBSET Browsers
  BY DEF TypeOK, PageStep, Step, SignIn, Logout, Stop, Approve, Save, Delete, BeginRecovery, OfferKit, SetupKit,
         Complete, SignInAgain, ListRows, Reencrypt, ShowVault, Rotate
<1> QED
  BY <1>2, <1>3, <1>4, <1>5, <1>6, <1>7 DEF TypeOK

LEMMA TypedInvariant == Spec => [](TypeOK /\ Keyed)
<1>1. Init => TypeOK /\ Keyed
  BY Pages DEF Init, TypeOK, Keyed
<1>2. TypeOK /\ Keyed /\ [Next]_vars => TypeOK' /\ Keyed'
  <2>1. ASSUME TypeOK, Keyed, Next PROVE TypeOK' /\ Keyed'
    BY <2>1, StepKeepsType DEF Next, PageStep
  <2>2. ASSUME TypeOK, Keyed, UNCHANGED vars PROVE TypeOK' /\ Keyed'
    BY <2>2 DEF TypeOK, Keyed, vars
  <2> QED
    BY <2>1, <2>2
<1> QED
  BY <1>1, <1>2, PTL DEF Spec

\* The account, its rows, its kit and the pages of the browsers keep their shape.
THEOREM TypeCorrect == Spec => []TypeOK
BY TypedInvariant, PTL

-----------------------------------------------------------------------------
(* Which key the kit wraps. *)

InRecovery(b) == tab[b].pc \in Recovery
Offering(b) == tab[b].pc = "setup"

\* Until there is a kit, nobody has recovered, and what is offered is the key of the account.
FirstKit == kit = NoKit => \A b \in Browsers :
    /\ ~InRecovery(b)
    /\ tab[b].pc \in {"status", "setup"} => tab[b].key = login

OneRecovery == \A b, c \in Browsers : InRecovery(b) /\ InRecovery(c) => b = c

\* What a page still offers is one key, which a recovery under way is about to retire.
SameOffers == \A b, c \in Browsers : Offering(b) /\ Offering(c) => tab[b].key = tab[c].key
OfferFits == \A b \in Browsers : Offering(b) /\ kit # NoKit => kit.wraps \in {login, tab[b].key}
OfferRetires == \A b, c \in Browsers : InRecovery(b) /\ Offering(c) => tab[c].key = tab[b].old

\* A recovery has the key the kit wraps, and leaves no third one.
Unwrapped == \A b \in Browsers : InRecovery(b) =>
    /\ tab[b].old = kit.wraps
    /\ tab[b].pc = "complete" => login \in {tab[b].old, tab[b].key}
    /\ tab[b].pc # "complete" => tab[b].key = login

KeysMeet == FirstKit /\ OneRecovery /\ SameOffers /\ OfferFits /\ OfferRetires /\ Unwrapped

\* A page that goes neither into a recovery nor to an offer.
LEMMA OtherPagesKeepKeys ==
    ASSUME KeysMeet, NEW b \in Browsers, UNCHANGED <<login, kit>>,
           \A c \in Browsers \ {b} : tab'[c] = tab[c],
           \/ tab'[b] = tab[b]
           \/ tab'[b].pc \in {"out", "open"}
           \/ tab'[b].pc = "status" /\ tab'[b].key = login
           \/ /\ InRecovery(b) /\ tab[b].pc # "complete"
              /\ tab'[b].pc \in Recovery \ {"complete"}
              /\ tab'[b].key = tab[b].key /\ tab'[b].old = tab[b].old
    PROVE  KeysMeet'
<1> USE DEF KeysMeet, InRecovery, Offering, Recovery
<1>1. FirstKit'
  BY DEF FirstKit
<1>2. OneRecovery'
  BY DEF OneRecovery
<1>3. SameOffers'
  BY DEF SameOffers
<1>4. OfferFits'
  BY DEF OfferFits
<1>5. OfferRetires'
  BY DEF OfferRetires
<1>6. Unwrapped'
  BY DEF Unwrapped
<1> QED
  BY <1>1, <1>2, <1>3, <1>4, <1>5, <1>6

LEMMA OfferKeepsKeys ==
    ASSUME TypeOK, Keyed, KeysMeet, NEW b \in Browsers, OfferKit(b)
    PROVE  KeysMeet'
<1> USE DEF KeysMeet, InRecovery, Offering, Recovery
<1>1. UNCHANGED <<login, kit>> /\ tab[b].pc = "status" /\ \A c \in Browsers \ {b} : tab'[c] = tab[c]
  BY DEF TypeOK, OfferKit, Goto
<1>2. \/ tab'[b].pc = "open"
      \/ kit = NoKit /\ tab'[b].pc = "setup" /\ tab'[b].key = tab[b].key
  BY DEF TypeOK, OfferKit, Offers, Goto, Page
<1>3. CASE tab'[b].pc = "open"
  BY <1>1, <1>3, OtherPagesKeepKeys
<1>4. CASE kit = NoKit /\ tab'[b].pc = "setup" /\ tab'[b].key = tab[b].key
  <2>1. tab'[b].key = login /\ \A c \in Browsers : ~InRecovery(c)'
    BY <1>1, <1>4 DEF FirstKit
  <2>2. \A c \in Browsers : tab'[c].pc \in {"status", "setup"} => tab'[c].key = login
    BY <1>1, <1>4, <2>1 DEF FirstKit
  <2> QED
    BY <1>1, <1>4, <2>1, <2>2 DEF FirstKit, OneRecovery, SameOffers, OfferFits, OfferRetires, Unwrapped
<1> QED
  BY <1>2, <1>3, <1>4

\* A page that stores its kit, late or not.
LEMMA SetupKeepsKeys ==
    ASSUME TypeOK, Keyed, KeysMeet, NEW b \in Browsers, SetupKit(b)
    PROVE  KeysMeet'
<1> USE DEF KeysMeet, InRecovery, Offering, Recovery
<1>1. /\ login' = login /\ tab[b].pc = "setup" /\ tab'[b].pc = "open"
      /\ \A c \in Browsers \ {b} : tab'[c] = tab[c]
  BY Pages DEF TypeOK, Keyed, SetupKit, Goto
<1>2. kit' # NoKit /\ kit'.wraps = tab[b].key
  BY StoreKitKeepsType DEF SetupKit
<1>3. \A c \in Browsers : tab'[c].pc = "setup" => tab'[c].key = tab[b].key
  BY <1>1 DEF SameOffers
<1>4. \A c \in Browsers : tab'[c].pc \in Recovery => tab'[c] = tab[c] /\ tab[c].old = tab[b].key
  BY <1>1 DEF OfferRetires
<1>5. FirstKit' /\ OfferFits'
  BY <1>2, <1>3 DEF FirstKit, OfferFits
<1>6. OneRecovery'
  BY <1>1, <1>4 DEF OneRecovery
<1>7. SameOffers' /\ OfferRetires'
  BY <1>3, <1>4 DEF SameOffers, OfferRetires
<1>8. Unwrapped'
  BY <1>1, <1>2, <1>4 DEF Unwrapped
<1> QED
  BY <1>5, <1>6, <1>7, <1>8

LEMMA BeginKeepsKeys ==
    ASSUME Interrupts = {}, TypeOK, Keyed, KeysMeet, NEW b \in Browsers, NEW new \in Passwords, BeginRecovery(b, new)
    PROVE  KeysMeet'
<1> USE DEF KeysMeet, InRecovery, Offering
<1>1. /\ UNCHANGED <<login, kit>> /\ tab[b].pc \in {"out", "open"}
      /\ \A c \in Browsers \ {b} : tab'[c] = tab[c]
      /\ \A c \in Browsers : tab[c].pc \notin Recovery
  BY DEF TypeOK, BeginRecovery, Goto
<1>2. /\ tab'[b].pc = "complete" /\ tab'[b].key = new /\ tab'[b].old = kit.wraps
      /\ kit.wraps # login => new = login
      /\ \A c \in Browsers : tab[c].pc = "setup" => tab[c].key = login
      /\ kit # NoKit
  BY DEF TypeOK, BeginRecovery, Goto, Unfinished, NoKit
<1>3. FirstKit' /\ OneRecovery'
  BY <1>1, <1>2 DEF FirstKit, OneRecovery
<1>4. SameOffers' /\ OfferFits'
  BY <1>1, <1>2 DEF SameOffers, OfferFits
<1>5. OfferRetires'
  BY <1>1, <1>2 DEF OfferRetires, OfferFits, Recovery
<1>6. Unwrapped'
  BY <1>1, <1>2 DEF Unwrapped
<1> QED
  BY <1>3, <1>4, <1>5, <1>6

\* The server takes the new password and the page goes on or is lost; or neither.
LEMMA CompleteMoves ==
    ASSUME TypeOK, NEW b \in Browsers, Complete(b)
    PROVE  /\ UNCHANGED <<row, kit, approved, left>> /\ tab[b].pc = "complete"
           /\ \A c \in Browsers \ {b} : tab'[c] = tab[c]
           /\ \/ login' = login /\ tab'[b].pc = "out"
              \/ /\ login' = tab[b].key
                 /\ \/ tab'[b].pc = "out"
                    \/ tab'[b].pc = "signin" /\ tab'[b].key = tab[b].key /\ tab'[b].old = tab[b].old
<1> DEFINE page == [tab[b] EXCEPT !.pc = "signin", !.kit = None]
<1>1. page.pc = "signin" /\ page.key = tab[b].key /\ page.old = tab[b].old
  BY DEF TypeOK, Page
<1>2. /\ UNCHANGED <<row, kit, approved, left>> /\ tab[b].pc = "complete"
      /\ \/ login' = login /\ Goto(b, SignedOut)
         \/ login' = tab[b].key /\ (Goto(b, SignedOut) \/ Goto(b, page))
  BY DEF Complete
<1> HIDE DEF page
<1> QED
  BY <1>1, <1>2, Pages DEF TypeOK, Goto

LEMMA CompleteKeepsKeys ==
    ASSUME TypeOK, Keyed, KeysMeet, NEW b \in Browsers, Complete(b)
    PROVE  KeysMeet'
<1> USE DEF KeysMeet, InRecovery, Offering
<1>1. kit' = kit /\ tab[b].pc = "complete" /\ \A c \in Browsers \ {b} : tab'[c] = tab[c]
  BY CompleteMoves
<1>2. \/ login' = login /\ tab'[b].pc = "out"
      \/ /\ login' = tab[b].key
         /\ \/ tab'[b].pc = "out"
            \/ tab'[b].pc = "signin" /\ tab'[b].key = tab[b].key /\ tab'[b].old = tab[b].old
  BY CompleteMoves
<1>3. CASE login' = login /\ tab'[b].pc = "out"
  BY <1>1, <1>3, OtherPagesKeepKeys
<1>4. CASE /\ login' = tab[b].key
           /\ \/ tab'[b].pc = "out"
              \/ tab'[b].pc = "signin" /\ tab'[b].key = tab[b].key /\ tab'[b].old = tab[b].old
  <2>1. kit # NoKit /\ kit.wraps = tab[b].old
    BY <1>1 DEF FirstKit, Unwrapped, Recovery
  <2>2. \A c \in Browsers \ {b} : tab'[c].pc \notin Recovery
    BY <1>1 DEF OneRecovery, Recovery
  <2>3. \A c \in Browsers : tab'[c].pc = "setup" => c # b /\ tab'[c] = tab[c] /\ tab[c].key = tab[b].old
    BY <1>1, <1>4 DEF OfferRetires, Recovery
  <2>4. FirstKit' /\ OneRecovery' /\ SameOffers'
    BY <1>1, <2>1, <2>2, <2>3 DEF FirstKit, OneRecovery, SameOffers
  <2>5. OfferFits' /\ OfferRetires'
    BY <1>1, <1>4, <2>1, <2>2, <2>3 DEF OfferFits, OfferRetires, Recovery
  <2>6. Unwrapped'
    BY <1>1, <1>4, <2>1, <2>2 DEF Unwrapped, Recovery
  <2> QED
    BY <2>4, <2>5, <2>6
<1> QED
  BY <1>2, <1>3, <1>4

\* The rotation, after which the kit wraps the key of the account.
LEMMA RotateKeepsKeys ==
    ASSUME TypeOK, Keyed, KeysMeet, NEW b \in Browsers, Rotate(b)
    PROVE  KeysMeet'
<1> USE DEF KeysMeet, InRecovery, Offering, Recovery
<1>1. /\ login' = login /\ tab[b].pc = "rotate" /\ tab'[b].pc = "open"
      /\ \A c \in Browsers \ {b} : tab'[c] = tab[c]
  BY Pages DEF TypeOK, Keyed, Rotate, Goto
<1>2. CASE kit' = kit
  BY <1>1, <1>2, OtherPagesKeepKeys
<1>3. CASE kit' # kit
  <2>1. kit' # NoKit /\ kit'.wraps = tab[b].key
    BY <1>3, StoreKitKeepsType DEF Rotate
  <2>2. tab[b].key = login
    BY <1>1 DEF Unwrapped
  <2>3. \A c \in Browsers : tab'[c].pc \notin Recovery
    BY <1>1 DEF OneRecovery
  <2>4. FirstKit' /\ OneRecovery' /\ OfferRetires' /\ Unwrapped'
    BY <2>1, <2>3 DEF FirstKit, OneRecovery, OfferRetires, Unwrapped
  <2>5. SameOffers' /\ OfferFits'
    BY <1>1, <2>1, <2>2 DEF SameOffers, OfferFits
  <2> QED
    BY <2>4, <2>5
<1> QED
  BY <1>2, <1>3

LEMMA StepKeepsKeys ==
    ASSUME Interrupts = {}, TypeOK, Keyed, KeysMeet, NEW b \in Browsers, PageStep(b)
    PROVE  KeysMeet'
<1>0. tab \in [Browsers -> Page]
  BY DEF TypeOK
<1>1. CASE SignIn(b)
  <2>1. UNCHANGED <<login, kit>> /\ \A c \in Browsers \ {b} : tab'[c] = tab[c]
    BY <1>0, <1>1 DEF SignIn, Goto
  <2>2. tab'[b] = [Opened(login) EXCEPT !.pc = IF b \in approved THEN "status" ELSE "open"]
    BY <1>0, <1>1 DEF SignIn, Goto
  <2>3. tab'[b].pc \in {"status", "open"} /\ tab'[b].key = login
    BY <2>2 DEF Opened, SignedOut
  <2> QED
    BY <2>1, <2>3, OtherPagesKeepKeys
<1>2. CASE Logout(b) \/ Stop(b)
  BY <1>0, <1>2, Pages, OtherPagesKeepKeys DEF Logout, Stop, Goto
<1>3. CASE Approve(b) \/ \E i \in Items : Save(b, i) \/ Delete(b, i)
  BY <1>3, OtherPagesKeepKeys DEF Approve, Save, Delete
<1>4. CASE SignInAgain(b)
  <2>1. UNCHANGED <<login, kit>> /\ tab[b].pc = "signin" /\ \A c \in Browsers \ {b} : tab'[c] = tab[c]
    BY <1>0, <1>4 DEF SignInAgain, Goto
  <2>2. \/ tab'[b].pc = "out"
        \/ tab'[b].pc = "list" /\ tab'[b].key = tab[b].key /\ tab'[b].old = tab[b].old
    BY <1>0, <1>4, Pages DEF SignInAgain, Goto, Page
  <2> QED
    BY <2>1, <2>2, OtherPagesKeepKeys DEF InRecovery, Recovery
<1>5. CASE ListRows(b) \/ ShowVault(b) \/ \E i \in Items : Reencrypt(b, i)
  <2>1. /\ UNCHANGED <<login, kit>> /\ tab[b].pc \in {"list", "rows"}
        /\ \A c \in Browsers \ {b} : tab'[c] = tab[c]
    BY <1>0, <1>5 DEF ListRows, ShowVault, Reencrypt, Goto
  <2>2. /\ tab'[b].pc \in {"rows", "rotate"}
        /\ tab'[b].key = tab[b].key /\ tab'[b].old = tab[b].old
    BY <1>0, <1>5 DEF ListRows, ShowVault, Reencrypt, Goto, Page
  <2> QED
    BY <2>1, <2>2, OtherPagesKeepKeys DEF InRecovery, Recovery
<1> QED
  BY <1>1, <1>2, <1>3, <1>4, <1>5, OfferKeepsKeys, SetupKeepsKeys, BeginKeepsKeys, CompleteKeepsKeys,
     RotateKeepsKeys DEF PageStep, Step

-----------------------------------------------------------------------------
(* The rows. *)

\* What an approved browser has not left to do, and has not seen fail, is under the
\* key of the account.
Done == \A b \in approved : tab[b].pc \in {"rows", "rotate"} =>
    /\ tab[b].pc = "rotate" => tab[b].todo = {}
    /\ \A i \in Items \ (left \cup tab[b].todo) : row[i] \in {None, login}

\* Steps that touch no row and no key.
LEMMA QuietKeepsRows ==
    ASSUME TypeOK, RowsReachable, Done, NEW b \in Browsers, UNCHANGED <<login, row, kit, left>>,
           approved' \subseteq approved \cup {b},
           \A c \in Browsers \ {b} : tab'[c] = tab[c],
           tab'[b].pc \in {"rows", "rotate"} => b \in approved /\ tab'[b] = tab[b]
    PROVE  RowsReachable' /\ Done'
BY DEF TypeOK, RowsReachable, Done

LEMMA VaultKeepsRows ==
    ASSUME TypeOK, Keyed, KeysMeet, RowsReachable, Done, NEW b \in Browsers, NEW i \in Items, Save(b, i) \/ Delete(b, i)
    PROVE  RowsReachable' /\ Done'
<1>1. UNCHANGED <<login, kit, approved, tab>>
  BY DEF Save, Delete
<1>2. CASE Save(b, i)
  <2>1. left' = (IF tab[b].key = login THEN left ELSE left \cup {i}) /\ row' = [row EXCEPT ![i] = tab[b].key]
    BY <1>2 DEF Save
  <2>2. \A j \in Items \ left' : j \notin left /\ (row'[j] = row[j] \/ row'[j] = login)
    BY <2>1 DEF TypeOK
  <2> QED
    BY <1>1, <2>1, <2>2 DEF TypeOK, RowsReachable, Done
<1>3. CASE Delete(b, i)
  <2>1. left' = left \ {i} /\ row' = [row EXCEPT ![i] = None]
    BY <1>3 DEF Delete
  <2>2. \A j \in Items \ left' : row'[j] = None \/ (j \notin left /\ row'[j] = row[j])
    BY <2>1 DEF TypeOK
  <2> QED
    BY <1>1, <2>1, <2>2 DEF TypeOK, RowsReachable, Done
<1> QED
  BY <1>2, <1>3

\* A kit that is stored late wraps a key that was reachable before.
LEMMA SetupKeepsRows ==
    ASSUME TypeOK, Keyed, KeysMeet, RowsReachable, Done, NEW b \in Browsers, SetupKit(b)
    PROVE  RowsReachable' /\ Done'
<1>1. /\ UNCHANGED <<login, row, left, approved>> /\ tab[b].pc = "setup" /\ tab'[b].pc = "open"
      /\ \A c \in Browsers \ {b} : tab'[c] = tab[c]
  BY Pages DEF TypeOK, Keyed, SetupKit, Goto
<1>2. kit'.wraps = tab[b].key
  BY StoreKitKeepsType DEF SetupKit
<1>3. kit.wraps \in {None, login, tab[b].key}
  BY <1>1 DEF KeysMeet, OfferFits, Offering, NoKit
<1>4. RowsReachable'
  BY <1>1, <1>2, <1>3 DEF RowsReachable
<1>5. Done'
  BY <1>1 DEF Done, TypeOK
<1> QED
  BY <1>4, <1>5

LEMMA CompleteKeepsRows ==
    ASSUME TypeOK, Keyed, KeysMeet, RowsReachable, Done, NEW b \in Browsers, Complete(b)
    PROVE  RowsReachable' /\ Done'
<1>1. /\ UNCHANGED <<row, left, approved, kit>> /\ tab[b].pc = "complete"
      /\ tab'[b].pc \notin {"rows", "rotate"} /\ login' \in {login, tab[b].key}
      /\ \A c \in Browsers \ {b} : tab'[c] = tab[c]
  BY CompleteMoves
<1>2. kit.wraps = tab[b].old /\ login \in {tab[b].old, tab[b].key}
  BY <1>1 DEF KeysMeet, Unwrapped, InRecovery, Recovery
<1>3. RowsReachable'
  BY <1>1, <1>2 DEF RowsReachable
<1>4. \A c \in Browsers : tab'[c].pc \notin {"rows", "rotate"}
  BY <1>1 DEF KeysMeet, OneRecovery, InRecovery, Recovery
<1> QED
  BY <1>1, <1>3, <1>4 DEF Done, TypeOK

\* The listing: what is not listed is not under the old key.
LEMMA ListKeepsRows ==
    ASSUME TypeOK, Keyed, KeysMeet, RowsReachable, Done, NEW b \in Browsers, ListRows(b)
    PROVE  RowsReachable' /\ Done'
<1>1. /\ UNCHANGED <<login, row, left, approved, kit>> /\ tab[b].pc = "list"
      /\ tab'[b].pc = "rows" /\ tab'[b].todo = Listed(b)
      /\ \A c \in Browsers \ {b} : tab'[c] = tab[c]
  BY DEF TypeOK, ListRows, Goto, Page
<1>2. kit.wraps = tab[b].old
  BY <1>1 DEF KeysMeet, Unwrapped, InRecovery, Recovery
<1>3. b \in approved => \A i \in Items \ (left \cup Listed(b)) : row[i] \in {None, login}
  BY <1>2 DEF RowsReachable, Listed
<1> QED
  BY <1>1, <1>3 DEF RowsReachable, Done, TypeOK

\* One PUT: the row is under the new key, left behind, or of somebody else's making.
LEMMA ReencryptKeepsRows ==
    ASSUME TypeOK, Keyed, KeysMeet, RowsReachable, Done, NEW b \in Browsers, NEW i \in Items, Reencrypt(b, i)
    PROVE  RowsReachable' /\ Done'
<1>1. /\ UNCHANGED <<login, approved, kit>> /\ tab[b].pc = "rows" /\ i \in tab[b].todo
      /\ tab'[b].pc = "rows" /\ tab'[b].todo = tab[b].todo \ {i}
      /\ \A c \in Browsers \ {b} : tab'[c] = tab[c]
  BY DEF TypeOK, Reencrypt, Goto, Page
<1>2. tab[b].key = login /\ tab[b].old = kit.wraps
  BY <1>1 DEF KeysMeet, Unwrapped, InRecovery, Recovery
<1>3. /\ \A j \in Items \ {i} : row'[j] = row[j] /\ (j \in left' <=> j \in left)
      /\ i \notin left' => \/ row'[i] = login
                           \/ i \notin left /\ row'[i] = row[i] /\ row[i] # tab[b].old
  BY <1>2 DEF TypeOK, Reencrypt
<1>4. i \notin left' => row'[i] \in {None, login}
  BY <1>2, <1>3 DEF RowsReachable
<1>5. RowsReachable'
  BY <1>1, <1>3, <1>4 DEF RowsReachable
<1>6. \A c \in Browsers \ {b} : tab'[c].pc \notin {"rows", "rotate"}
  BY <1>1 DEF KeysMeet, OneRecovery, InRecovery, Recovery
<1>7. Done'
  BY <1>1, <1>3, <1>4, <1>6 DEF Done, TypeOK
<1> QED
  BY <1>5, <1>7

LEMMA ShowKeepsRows ==
    ASSUME TypeOK, RowsReachable, Done, NEW b \in Browsers, ShowVault(b)
    PROVE  RowsReachable' /\ Done'
<1>1. /\ UNCHANGED <<login, row, left, approved, kit>> /\ tab[b].pc = "rows" /\ tab[b].todo = {}
      /\ tab'[b].pc = "rotate" /\ tab'[b].todo = {}
      /\ \A c \in Browsers \ {b} : tab'[c] = tab[c]
  BY DEF TypeOK, ShowVault, AllDone, Goto, Page
<1> QED
  BY <1>1 DEF RowsReachable, Done, TypeOK

\* The rotation drops the old key when no row that counts is under it any more.
LEMMA RotateKeepsRows ==
    ASSUME TypeOK, Keyed, KeysMeet, RowsReachable, Done, NEW b \in Browsers, Rotate(b)
    PROVE  RowsReachable' /\ Done'
<1>1. /\ UNCHANGED <<login, row, left, approved>> /\ tab[b].pc = "rotate" /\ tab'[b].pc = "open"
      /\ \A c \in Browsers \ {b} : tab'[c] = tab[c]
  BY Pages DEF TypeOK, Keyed, Rotate, Goto
<1>2. Done'
  BY <1>1 DEF Done, TypeOK
<1>3. RowsReachable'
  <2>1. CASE b \in approved
    BY <1>1, <2>1 DEF Done, RowsReachable
  <2>2. CASE b \notin approved
    BY <1>1, <2>2 DEF Rotate, RowsReachable
  <2> QED
    BY <2>1, <2>2
<1> QED
  BY <1>2, <1>3

LEMMA StepKeepsRows ==
    ASSUME Interrupts = {}, TypeOK, Keyed, KeysMeet, RowsReachable, Done, NEW b \in Browsers, PageStep(b)
    PROVE  RowsReachable' /\ Done'
<1>1. CASE \/ SignIn(b) \/ Logout(b) \/ Stop(b) \/ OfferKit(b) \/ SignInAgain(b) \/ Approve(b)
           \/ \E new \in Passwords : BeginRecovery(b, new)
  <2>1. UNCHANGED <<login, row, kit, left>> /\ approved' \subseteq approved \cup {b}
    BY <1>1 DEF SignIn, Logout, Stop, OfferKit, SignInAgain, Approve, BeginRecovery
  <2>2. \A c \in Browsers \ {b} : tab'[c] = tab[c]
    BY <1>1 DEF TypeOK, SignIn, Logout, Stop, OfferKit, SignInAgain, Approve, BeginRecovery, Goto
  <2>3. tab'[b].pc \notin {"rows", "rotate"}
    <3>1. CASE SignIn(b)
      <4>1. tab'[b] = [Opened(login) EXCEPT !.pc = IF b \in approved THEN "status" ELSE "open"]
        BY <3>1 DEF TypeOK, SignIn, Goto
      <4> QED
        BY <4>1 DEF Opened, SignedOut
    <3>2. CASE Logout(b) \/ Stop(b) \/ SignInAgain(b)
      BY <3>2, Pages DEF TypeOK, Logout, Stop, SignInAgain, Goto, Page
    <3>3. CASE OfferKit(b)
      BY <3>3 DEF TypeOK, OfferKit, Goto, Page
    <3>4. CASE Approve(b)
      BY <3>4 DEF Approve
    <3>5. CASE \E new \in Passwords : BeginRecovery(b, new)
      BY <3>5 DEF TypeOK, BeginRecovery, Goto
    <3> QED
      BY <1>1, <3>1, <3>2, <3>3, <3>4, <3>5
  <2> QED
    BY <2>1, <2>2, <2>3, QuietKeepsRows
<1> QED
  BY <1>1, VaultKeepsRows, SetupKeepsRows, CompleteKeepsRows, ListKeepsRows, ReencryptKeepsRows, ShowKeepsRows,
     RotateKeepsRows DEF PageStep, Step

\* Wherever recoveries stop, the kit wraps the key of the account or of the rows that
\* are still to be encrypted again, and late offers change nothing of that.
THEOREM KeysMeetInvariant ==
    ASSUME Interrupts = {}
    PROVE  Spec => []KeysMeet
<1>1. Init => KeysMeet
  <2>1. SignedOut.pc = "out"
    BY DEF SignedOut
  <2> QED
    BY <2>1 DEF Init, KeysMeet, FirstKit, OneRecovery, SameOffers, OfferFits, OfferRetires, Unwrapped, InRecovery,
                Offering, Recovery
<1>2. TypeOK /\ Keyed /\ KeysMeet /\ [Next]_vars => KeysMeet'
  <2>1. ASSUME TypeOK, Keyed, KeysMeet, Next PROVE KeysMeet'
    BY <2>1, StepKeepsKeys DEF Next, PageStep
  <2>2. ASSUME KeysMeet, UNCHANGED vars PROVE KeysMeet'
    BY <2>2 DEF vars, KeysMeet, FirstKit, OneRecovery, SameOffers, OfferFits, OfferRetires, Unwrapped, InRecovery,
                Offering
  <2> QED
    BY <2>1, <2>2
<1> QED
  BY <1>1, <1>2, TypedInvariant, PTL DEF Spec

\* A row can be read with the password of the account or the key of the kit, but for
\* those a client left behind (app.js, recoverBtn): unless a person changes the new
\* password halfway, approves the browser halfway, or recovers over a pending offer.
THEOREM RowsStayReachable ==
    ASSUME Interrupts = {}
    PROVE  Spec => []RowsReachable
<1>1. Init => RowsReachable /\ Done
  BY DEF Init, RowsReachable, Done, SignedOut
<1>2. TypeOK /\ Keyed /\ KeysMeet /\ RowsReachable /\ Done /\ [Next]_vars => RowsReachable' /\ Done'
  <2>1. ASSUME TypeOK, Keyed, KeysMeet, RowsReachable, Done, Next PROVE RowsReachable' /\ Done'
    BY <2>1, StepKeepsRows DEF Next, PageStep
  <2>2. ASSUME RowsReachable, Done, UNCHANGED vars PROVE RowsReachable' /\ Done'
    BY <2>2 DEF vars, RowsReachable, Done
  <2> QED
    BY <2>1, <2>2
<1> QED
  BY <1>1, <1>2, TypedInvariant, KeysMeetInvariant, PTL DEF Spec
=============================================================================
