--------------------------- MODULE EmergencyAccess ---------------------------
(***************************************************************************)
(* Emergency contacts: RecoveryService.addContact, requestAccess, deny and *)
(* collect (packages/server/src/recovery/recovery.service.ts) as the       *)
(* routes of main.ts call them, over the RecoveryRepository that main.ts   *)
(* builds.                                                                 *)
(*                                                                         *)
(* Each of the three handlers reads the record (await getContact), decides *)
(* on what it read, writes state and unlockAt back (await updateContact)   *)
(* and then calls the notifier and returns.  With Storage = "file" nothing *)
(* runs between these steps but the end of the process; with "postgres"    *)
(* every await lets any other handler run (see VaultServer).               *)
(***************************************************************************)
EXTENDS Integers

CONSTANTS
    Contacts,    \* ids of contact records (randomUUID: never used again)
    Handlers,    \* requests the server may be serving at the same time
    Storage,     \* "file" or "postgres"
    Wait,        \* VK_EMERGENCY_WAIT_MS, in ticks of the clock
    MaxTime,     \* bound: the last tick
    MaxCrashes   \* bound: ends of the process

ASSUME ContactsAssumption == Contacts # {}
ASSUME StorageAssumption == Storage \in {"file", "postgres"}
ASSUME WaitAssumption == Wait \in Nat

VARIABLES
    rec,       \* rec[c]: state and unlockAt of the stored record
    now,       \* the server's clock
    handler,   \* handler[h]: the request in slot h
    crashes,   \* how often the process has ended
    asked,     \* history: when a genuine request of c started a timer
    told,      \* history: what the owner has been notified of about c
    unheard,   \* history: the notifications about c that died with the process
    refused,   \* history: a denial of c was confirmed to the owner
    given      \* history: when the sealed key of c left the server

vars == <<rec, now, handler, crashes, asked, told, unheard, refused, given>>
histories == <<asked, told, unheard, refused, given>>

Record == [state : {"absent", "enrolled", "pending", "denied", "released"},
           unlockAt : Nat]     \* 0 stands for null
Absent == [state |-> "absent", unlockAt |-> 0]

Operations == {"request", "deny", "collect"}

Call == [op : Operations,
         contact : Contacts,
         genuine : BOOLEAN,    \* the signature verifies; for deny, c.userId = userId
         pc : {"idle", "get", "update", "notify"},
         copy : Record]        \* c, as the handler has changed it

TypeOK == /\ rec \in [Contacts -> Record]
          /\ now \in Nat
          /\ handler \in [Handlers -> Call]
          /\ crashes \in Nat
          /\ asked \in [Contacts -> SUBSET Nat]
          /\ told \in [Contacts -> SUBSET Operations]
          /\ unheard \in [Contacts -> SUBSET Operations]
          /\ refused \in [Contacts -> BOOLEAN]
          /\ given \in [Contacts -> SUBSET Nat]

\* An empty slot (only its pc means something).
Idle == [op |-> "request", contact |-> CHOOSE c \in Contacts : TRUE,
         genuine |-> FALSE, pc |-> "idle", copy |-> Absent]

Init == /\ rec = [c \in Contacts |-> Absent]
        /\ now = 0
        /\ handler = [h \in Handlers |-> Idle]
        /\ crashes = 0
        /\ asked = [c \in Contacts |-> {}]
        /\ told = [c \in Contacts |-> {}]
        /\ unheard = [c \in Contacts |-> {}]
        /\ refused = [c \in Contacts |-> FALSE]
        /\ given = [c \in Contacts |-> {}]

-----------------------------------------------------------------------------
\* With the file store a handler runs from its read to its return undisturbed.
BadMayRun(h) == TRUE                                    \* FileDb with an await inside
MayRun(h) == Storage = "postgres"
             \/ \A g \in Handlers \ {h} : handler[g].pc \notin {"update", "notify"}

\* addContact: one insert.
Enroll(c) ==
    /\ rec[c].state = "absent"
    /\ rec' = [rec EXCEPT ![c].state = "enrolled"]
    /\ UNCHANGED <<now, handler, crashes, histories>>

\* POST /emergency/request, /emergency/deny or /emergency/collect arrives.
Receive(h, op, c, genuine) ==
    /\ handler[h].pc = "idle"
    /\ handler' = [handler EXCEPT ![h] = [op |-> op, contact |-> c, genuine |-> genuine,
                                          pc |-> "get", copy |-> Absent]]
    /\ UNCHANGED <<rec, now, crashes, histories>>

\* What the three handlers decide on the record c they read.
BadStartsAgain(c) == c.state \in {"enrolled", "pending"}  \* not idempotent
Starts(c) == c.state = "enrolled"

BadCancels(c) == c.state \in {"pending", "released"}
Cancels(c) == c.state = "pending"

BadReleases(c) == c.state = "pending"                   \* forgets the timer
Releases(c) == c.state = "pending" /\ now >= c.unlockAt

BadHands(c) == FALSE                                    \* a lost answer is never repeated
BadHandsDenied(c) == c.state \in {"released", "denied"}
Hands(c) == c.state = "released"

\* When a timer started now will have elapsed.
BadDeadline == now - Wait
Deadline == now + Wait

\* The handler goes on to updateContact with the changed record.
Change(h, state, unlockAt) ==
    handler' = [handler EXCEPT ![h] = [@ EXCEPT !.pc = "update",
                                                !.copy = [state |-> state, unlockAt |-> unlockAt]]]

\* The handler returns without changing anything.
Return(h) == handler' = [handler EXCEPT ![h] = Idle]

\* requestAccess up to updateContact: a pending request is answered as it is.
RequestAccess(h) ==
    LET c == handler[h].contact IN
    /\ handler[h].pc = "get" /\ handler[h].op = "request"
    /\ MayRun(h)
    /\ IF handler[h].genuine /\ Starts(rec[c])
       THEN /\ Change(h, "pending", Deadline)
            /\ asked' = [asked EXCEPT ![c] = @ \cup {now}]
       ELSE Return(h) /\ UNCHANGED asked
    /\ UNCHANGED <<rec, now, crashes, told, unheard, refused, given>>

\* deny up to updateContact.
Deny(h) ==
    /\ handler[h].pc = "get" /\ handler[h].op = "deny"
    /\ MayRun(h)
    /\ IF handler[h].genuine /\ Cancels(rec[handler[h].contact])
       THEN Change(h, "denied", 0)
       ELSE Return(h)
    /\ UNCHANGED <<rec, now, crashes, histories>>

\* collect up to updateContact; a record already released is handed out again.
Collect(h) ==
    LET c == handler[h].contact IN
    /\ handler[h].pc = "get" /\ handler[h].op = "collect"
    /\ MayRun(h)
    /\ \/ /\ handler[h].genuine /\ Releases(rec[c])
          /\ Change(h, "released", rec[c].unlockAt)
          /\ UNCHANGED given
       \/ /\ handler[h].genuine /\ Hands(rec[c])
          /\ Return(h)
          /\ given' = [given EXCEPT ![c] = @ \cup {now}]
       \/ /\ ~(handler[h].genuine /\ (Releases(rec[c]) \/ Hands(rec[c])))
          /\ Return(h)
          /\ UNCHANGED given
    /\ UNCHANGED <<rec, now, crashes, asked, told, unheard, refused>>

\* updateContact: state and unlockAt of the copy, whatever is stored by now.
UpdateContact(h) ==
    /\ handler[h].pc = "update"
    /\ rec' = [rec EXCEPT ![handler[h].contact] = handler[h].copy]
    /\ handler' = [handler EXCEPT ![h].pc = "notify"]
    /\ UNCHANGED <<now, crashes, histories>>

\* The notifier is called and the handler returns: the answer leaves.
Notify(h) ==
    LET c == handler[h].contact
        op == handler[h].op IN
    /\ handler[h].pc = "notify"
    /\ told' = [told EXCEPT ![c] = @ \cup {op}]
    /\ refused' = [refused EXCEPT ![c] = @ \/ op = "deny"]
    /\ given' = [given EXCEPT ![c] = IF op = "collect" THEN @ \cup {now} ELSE @]
    /\ Return(h)
    /\ UNCHANGED <<rec, now, crashes, asked, unheard>>

Tick == /\ now < MaxTime
        /\ now' = now + 1
        /\ UNCHANGED <<rec, handler, crashes, histories>>

\* What the owner would have been told about c by the requests under way.
Unsent(c) == {handler[h].op : h \in {g \in Handlers : handler[g].pc = "notify"
                                                    /\ handler[g].contact = c}}

\* The process ends and starts again: requests die, stored records stay.
Crash == /\ crashes < MaxCrashes
         /\ crashes' = crashes + 1
         /\ handler' = [h \in Handlers |-> Idle]
         /\ unheard' = [c \in Contacts |-> unheard[c] \cup Unsent(c)]
         /\ UNCHANGED <<rec, now, asked, told, refused, given>>

Step(h) == RequestAccess(h) \/ Deny(h) \/ Collect(h) \/ UpdateContact(h) \/ Notify(h)

Next == \/ \E c \in Contacts : Enroll(c)
        \/ \E h \in Handlers :
              \/ \E op \in Operations, c \in Contacts, genuine \in BOOLEAN : Receive(h, op, c, genuine)
              \/ Step(h)
        \/ Tick
        \/ Crash

Spec == Init /\ [][Next]_vars

\* Handlers run on, time passes, and contact c keeps asking for the key.
CollectsAgain(c) == \E h \in Handlers : Receive(h, "collect", c, TRUE)
FairSpec == /\ Spec
            /\ \A h \in Handlers : WF_vars(Step(h))
            /\ WF_vars(Tick)
            /\ \A c \in Contacts : SF_vars(CollectsAgain(c))

-----------------------------------------------------------------------------
\* The sealed key leaves the server only when the waiting period has passed
\* since a genuine request ("Before unlockAt the sealed blob is NEVER returned",
\* recovery.service.ts), whatever interleaves and crashes.
NeverEarly ==
    \A c \in Contacts : \A t \in given[c] : \E r \in asked[c] : t >= r + Wait

\* "an owner denial is permanent until re-enrollment" (recovery.service.ts; a
\* re-enrolled contact is a new record).
DenialPermanent ==
    [][\A c \in Contacts : rec[c].state = "denied" => rec'[c].state = "denied"]_vars

\* "Every transition fires a notification hook" (recovery.service.ts): the owner
\* has heard of the request and of the release before the key leaves, unless the
\* process ended just between storing that transition and telling the owner, of
\* which no retry tells.
OwnerToldFirst ==
    \A c \in Contacts : given[c] # {} => {"request", "collect"} \subseteq told[c] \cup unheard[c]

\* Once the owner has been told that the denial took place, the key of that
\* contact never leaves the server any more.
NoKeyAfterDenial ==
    [][\A c \in Contacts : refused[c] => given'[c] = given[c]]_vars

\* A running timer is never moved, by asking again or otherwise.
TimerFixed ==
    [][\A c \in Contacts : rec[c].state = "pending" /\ rec'[c].state = "pending"
          => rec'[c].unlockAt = rec[c].unlockAt]_vars

\* A contact that waited for the whole period and keeps collecting receives the
\* key, unless the owner denies: also when the process ended after the release
\* was stored and before the answer left.
Served ==
    \A c \in Contacts :
        rec[c].state = "pending" /\ rec[c].unlockAt =< MaxTime
           ~> given[c] # {} \/ rec[c].state = "denied"

-----------------------------------------------------------------------------
\* The diagram's phase of a record: a pending one becomes releasable in time.
PhaseOf(c) == IF rec[c].state = "pending" /\ now >= rec[c].unlockAt
              THEN "releasable" ELSE rec[c].state

Contract == INSTANCE EmergencyContract
                WITH phase <- [c \in Contacts |-> PhaseOf(c)],
                     given <- {c \in Contacts : given[c] # {}}

\* The three handlers implement the diagram in the header of the service.
KeepsContract == Contract!Spec
=============================================================================
