-------------------------- MODULE ExtensionSession --------------------------
(***************************************************************************)
(* The service worker of the browser extension (packages/extension/src):   *)
(* the unlock flow of unlock.ts, which enrols the browser as a device, the *)
(* session store of session.ts with its sliding expiry, and the messages   *)
(* of the popup and of content scripts that background.ts serves.          *)
(*                                                                         *)
(* The worker serves messages as coroutines: between two awaits (a request *)
(* to the server, a read or a write of chrome.storage) any other message   *)
(* may run.  Storage has one value per key, read and written whole.  The   *)
(* browser may end the worker at any time and start it again for the next  *)
(* message; closing the browser also empties chrome.storage.session.       *)
(*                                                                         *)
(* One account, which already has a device elsewhere, so that a device this*)
(* browser enrols waits for an approval.  A session is told apart by the   *)
(* unlock that activated it.  What a page is offered is in Autofill.       *)
(***************************************************************************)
EXTENDS Autofill

CONSTANTS
    Tasks,          \* messages the worker may be serving at the same time
    AutoLock,       \* autoLockMs
    InFlight,       \* may approvals fall between an enrolment and its pull?
    MaxTime,        \* bound: the clock
    MaxDevices,     \* bound: devices enrolled
    MaxSessions     \* bound: sessions activated

ASSUME AutoLockAssumption == AutoLock \in Nat \ {0}
ASSUME InFlightAssumption == InFlight \in BOOLEAN
ASSUME BoundsAssumption == MaxTime \in Nat /\ MaxDevices \in Nat /\ MaxSessions \in Nat

VARIABLES
    now,        \* the clock
    enrolled,   \* the server: devices of this browser, numbered as they enrol
    approved,   \* the server: those a trusted device has approved
    handle,     \* chrome.storage.local: the saved deviceId, 0 for none
    stored,     \* chrome.storage.session: whose credentials, and their expiry
    sessions,   \* how many sessions were activated
    task,       \* task[t]: the message being served
    ended,      \* history: sessions that were locked, replaced, expired or wiped
    raced,      \* history: those for which a touch was then about to write
    told        \* history: devices the person was told await approval

histories == <<ended, raced, told>>
vars == <<now, enrolled, approved, handle, stored, sessions, task, ended, raced, told>>

Devices == 1..MaxDevices
Sessions == 1..MaxSessions

SessionData == [session : Sessions, expiresAt : 0..(MaxTime + AutoLock)]
Locked == [session |-> 0, expiresAt |-> 0]

\* What a message waits for; device is its deviceId, data what touch will write.
Task == [pc : {"idle", "login", "enroll", "mfa", "pull", "save", "activate",
               "read", "touch", "set", "status", "clear"},
         device : Devices \cup {0},
         data : SessionData \cup {Locked}]
Idle == [pc |-> "idle", device |-> 0, data |-> Locked]

TypeOK == /\ now \in 0..MaxTime
          /\ enrolled \in SUBSET Devices
          /\ approved \in SUBSET enrolled
          /\ handle \in enrolled \cup {0}
          /\ stored \in SessionData \cup {Locked}
          /\ sessions \in Sessions \cup {0}
          /\ task \in [Tasks -> Task]
          /\ ended \in SUBSET Sessions /\ raced \in SUBSET ended
          /\ told \in SUBSET enrolled

Init == /\ now = 0
        /\ enrolled = {} /\ approved = {}
        /\ handle = 0
        /\ stored = Locked
        /\ sessions = 0
        /\ task = [t \in Tasks |-> Idle]
        /\ ended = {} /\ raced = {} /\ told = {}

-----------------------------------------------------------------------------
Message(t, pc) == /\ task[t].pc = "idle"
                  /\ task' = [task EXCEPT ![t] = [Idle EXCEPT !.pc = pc]]
Await(t, pc) == task' = [task EXCEPT ![t].pc = pc]
Answer(t) == task' = [task EXCEPT ![t] = Idle]

\* The expiry of a session that is used now.
BadExtended == stored.expiresAt + AutoLock
Extended == now + AutoLock

\* SessionStore.credentials: an expired session is not there.
Expired == now > stored.expiresAt
Unlocked == stored # Locked /\ ~Expired

\* History: session s is over, unless a touch that found it alive writes it back.
End(over) ==
    /\ ended' = ended \cup over
    /\ raced' = raced \cup {s \in over : \E t \in Tasks : /\ task[t].pc = "set"
                                                          /\ task[t].data.session = s}
    /\ UNCHANGED told

-----------------------------------------------------------------------------
(* session:unlock. *)

\* The popup's Unlock: loadDeviceId, and the key is being derived.
Unlock(t) ==
    /\ task[t].pc = "idle"
    /\ task' = [task EXCEPT ![t] = [Idle EXCEPT !.pc = "login", !.device = handle]]
    /\ UNCHANGED <<now, enrolled, approved, handle, stored, sessions, histories>>

\* SyncClient.login: a wrong password ends the flow; "needsDevice" without one.
Login(t) ==
    /\ task[t].pc = "login"
    /\ \/ Answer(t)
       \/ Await(t, IF task[t].device = 0 THEN "enroll" ELSE "mfa")
    /\ UNCHANGED <<now, enrolled, approved, handle, stored, sessions, histories>>

\* SyncClient.enrollDevice, and the second login.
EnrollDevice(t) ==
    LET device == Cardinality(enrolled) + 1 IN
    /\ task[t].pc = "enroll"
    /\ device =< MaxDevices
    /\ enrolled' = enrolled \cup {device}
    /\ task' = [task EXCEPT ![t] = [Idle EXCEPT !.pc = "mfa", !.device = device]]
    /\ UNCHANGED <<now, approved, handle, stored, sessions, histories>>

\* SyncClient.mfa: the code is wrong, or the token is a full one.
Mfa(t) ==
    /\ task[t].pc = "mfa"
    /\ Answer(t) \/ Await(t, "pull")
    /\ UNCHANGED <<now, enrolled, approved, handle, stored, sessions, histories>>

\* SyncClient.pull: "device not approved" is the guard's answer, and "this browser
\* is awaiting approval from one of your trusted devices" the person's.
Pulls(device) == device \in approved

Pull(t) ==
    /\ task[t].pc = "pull"
    /\ IF Pulls(task[t].device)
       THEN Await(t, "save") /\ UNCHANGED told
       ELSE Answer(t) /\ told' = told \cup {task[t].device}
    /\ UNCHANGED <<now, enrolled, approved, handle, stored, sessions, ended, raced>>

\* saveDeviceId: only now.
BadSaves(t) == UNCHANGED handle
Saves(t) == handle' = task[t].device

SaveDeviceId(t) ==
    /\ task[t].pc = "save"
    /\ Saves(t)
    /\ Await(t, "activate")
    /\ UNCHANGED <<now, enrolled, approved, stored, sessions, histories>>

\* SessionStore.activate, which "replaces any previous one".
Activate(t) ==
    /\ task[t].pc = "activate"
    /\ sessions < MaxSessions
    /\ sessions' = sessions + 1
    /\ stored' = [session |-> sessions', expiresAt |-> Extended]
    /\ Answer(t)
    /\ End(1..sessions)
    /\ UNCHANGED <<now, enrolled, approved, handle>>

-----------------------------------------------------------------------------
(* autofill:request, session:status, session:lock. *)

Request(t) ==
    /\ Message(t, "read")
    /\ UNCHANGED <<now, enrolled, approved, handle, stored, sessions, histories>>

\* credentials(): none; too old, and to be cleared; or there, and either the page
\* matches none of them or one is used, which keeps the session alive.
ReadCredentials(t) ==
    /\ task[t].pc = "read"
    /\ \/ stored = Locked /\ Answer(t)
       \/ stored # Locked /\ Expired /\ Await(t, "clear")
       \/ Unlocked /\ Answer(t)
       \/ Unlocked /\ Await(t, "touch")
    /\ UNCHANGED <<now, enrolled, approved, handle, stored, sessions, histories>>

\* touch(): the session as it is now, if there is one that has not expired...
BadAlive == stored # Locked
Alive == stored # Locked /\ ~Expired

TouchRead(t) ==
    /\ task[t].pc = "touch"
    /\ \/ ~Alive /\ Answer(t)
       \/ /\ Alive
          /\ task' = [task EXCEPT ![t] = [Idle EXCEPT !.pc = "set",
                          !.data = [stored EXCEPT !.expiresAt = Extended]]]
    /\ UNCHANGED <<now, enrolled, approved, handle, stored, sessions, histories>>

\* ... is written back with a later expiry, whatever is stored by then.
TouchSet(t) ==
    /\ task[t].pc = "set"
    /\ stored' = task[t].data
    /\ Answer(t)
    /\ UNCHANGED <<now, enrolled, approved, handle, sessions, histories>>

Status(t) ==
    /\ Message(t, "status")
    /\ UNCHANGED <<now, enrolled, approved, handle, stored, sessions, histories>>

ReadStatus(t) ==
    /\ task[t].pc = "status"
    /\ IF stored # Locked /\ Expired THEN Await(t, "clear") ELSE Answer(t)
    /\ UNCHANGED <<now, enrolled, approved, handle, stored, sessions, histories>>

\* backend.clear of an expired session, whatever is stored by then.
ClearExpired(t) ==
    /\ task[t].pc = "clear"
    /\ stored' = Locked
    /\ Answer(t)
    /\ End({stored.session} \ {0})
    /\ UNCHANGED <<now, enrolled, approved, handle, sessions>>

\* SessionStore.lock.
Locks == stored' = Locked

Lock ==
    /\ \E t \in Tasks : task[t].pc = "idle"
    /\ Locks
    /\ End(1..sessions)
    /\ UNCHANGED <<now, enrolled, approved, handle, sessions, task>>

-----------------------------------------------------------------------------
(* Around the worker. *)

\* The owner approves a device of this browser from a trusted one; without InFlight
\* not while the unlock that enrolled it is still on its way to the pull.
Approve(d) ==
    /\ d \in enrolled \ approved
    /\ InFlight \/ d \in told
    /\ approved' = approved \cup {d}
    /\ UNCHANGED <<now, enrolled, handle, stored, sessions, task, histories>>

Tick ==
    /\ now < MaxTime
    /\ now' = now + 1
    /\ End(IF now' > stored.expiresAt THEN {stored.session} \ {0} ELSE {})
    /\ UNCHANGED <<enrolled, approved, handle, stored, sessions, task>>

\* The browser stops the service worker.
WorkerStops ==
    /\ \E t \in Tasks : task[t].pc # "idle"
    /\ task' = [t \in Tasks |-> Idle]
    /\ UNCHANGED <<now, enrolled, approved, handle, stored, sessions, histories>>

\* The browser is closed.
BrowserCloses ==
    /\ stored # Locked
    /\ stored' = Locked
    /\ task' = [t \in Tasks |-> Idle]
    /\ ended' = ended \cup 1..sessions
    /\ UNCHANGED <<now, enrolled, approved, handle, sessions, raced, told>>

Next == \/ \E t \in Tasks :
              \/ Unlock(t) \/ Login(t) \/ EnrollDevice(t) \/ Mfa(t) \/ Pull(t)
              \/ SaveDeviceId(t) \/ Activate(t)
              \/ Request(t) \/ ReadCredentials(t) \/ TouchRead(t) \/ TouchSet(t)
              \/ Status(t) \/ ReadStatus(t) \/ ClearExpired(t)
        \/ Lock \/ Tick \/ WorkerStops \/ BrowserCloses
        \/ \E d \in Devices : Approve(d)

Spec == Init /\ [][Next]_vars

-----------------------------------------------------------------------------
\* Whatever messages interleave and wherever the worker stops, the saved device is
\* approved, and credentials are only there once it is saved: from then on this
\* browser enrols no other device (background.ts saves it before it activates).
UnlockedByApproval ==
    /\ handle # 0 => handle \in approved
    /\ stored # Locked => handle # 0

\* A session that was locked, replaced, expired or wiped is never read again, however
\* late the messages it left behind run - except where a touch had already found it
\* alive, and writes it back ("auto-lock holds even if no timer ever fired";
\* "Locking clears the credentials", session.ts).
EndedStaysEnded ==
    [][\A t \in Tasks : task[t].pc = "read" /\ task'[t].pc = "touch" =>
          stored.session \notin ended \ raced]_vars

\* Once the device that the person was told about is approved, the next unlock does
\* not ask for another approval ("this browser is awaiting approval from one of your
\* trusted devices", unlock.ts:66).
ApprovalSuffices ==
    [][\A t \in Tasks : task[t].pc = "idle" /\ task'[t].pc = "login" =>
          told \cap approved = {} \/ task'[t].device # 0]_vars

\* While there is a session, what a page is sent from it is right for every form
\* (background.ts, autofill:request; the forms are those of Autofill).
PagesFilled == Unlocked => FormsFilled
=============================================================================
