----------------------- MODULE ExtensionSessionProofs -----------------------
(***************************************************************************)
(* Proofs about the service worker of the extension, for any number of     *)
(* messages in flight and any auto-lock time.  The two invariants say what *)
(* a message carries across its awaits: a device that may be saved is      *)
(* approved (Enrolled), and the session a touch is about to write back is  *)
(* one that nothing has ended behind its back without history knowing      *)
(* (Lively).  What a page is sent is right for forms of every length       *)
(* (PlanIsRight): the field that analyzeForm picks by walking back is the  *)
(* least or greatest of a set of positions, which WFMin of the library     *)
(* provides without an induction.                                          *)
(***************************************************************************)
EXTENDS ExtensionSession, FiniteSetTheorems, WellFoundedInduction, TLAPS

-----------------------------------------------------------------------------
(* Types. *)

LEMMA NextDevice ==
    ASSUME TypeOK
    PROVE  Cardinality(enrolled) + 1 \in Nat \ {0}
<1>1. IsFiniteSet(Devices)
  BY FS_Interval, BoundsAssumption DEF Devices
<1>2. enrolled \subseteq Devices
  BY DEF TypeOK
<1>3. IsFiniteSet(enrolled)
  BY <1>1, <1>2, FS_Subset
<1>4. Cardinality(enrolled) \in Nat
  BY <1>3, FS_CardinalityType
<1> QED
  BY <1>4

LEMMA IdleIsTask == Idle \in Task
BY DEF Idle, Task, Locked

\* A touch ends, or has found a session alive and will write it back.
LEMMA TouchFinds ==
    ASSUME TypeOK, NEW t \in Tasks, TouchRead(t)
    PROVE  /\ UNCHANGED <<now, enrolled, approved, handle, stored, sessions, histories>>
           /\ \A u \in Tasks \ {t} : task'[u] = task[u]
           /\ \/ task'[t] = Idle
              \/ /\ stored # Locked /\ ~Expired
                 /\ task'[t].pc = "set"
                 /\ task'[t].data = [stored EXCEPT !.expiresAt = Extended]
<1> DEFINE writes == [Idle EXCEPT !.pc = "set", !.data = [stored EXCEPT !.expiresAt = Extended]]
<1>1. writes.pc = "set" /\ writes.data = [stored EXCEPT !.expiresAt = Extended]
  BY DEF Idle
<1>2. UNCHANGED <<now, enrolled, approved, handle, stored, sessions, histories>>
  BY DEF TouchRead
<1>3. task' = [task EXCEPT ![t] = Idle] \/ (stored # Locked /\ ~Expired /\ task' = [task EXCEPT ![t] = writes])
  BY DEF TouchRead, Alive, Answer
<1> HIDE DEF writes
<1>4. \A u \in Tasks \ {t} : task'[u] = task[u]
  BY <1>3 DEF TypeOK
<1>5. task'[t] = Idle \/ (stored # Locked /\ ~Expired /\ task'[t] = writes)
  BY <1>3 DEF TypeOK
<1> QED
  BY <1>1, <1>2, <1>4, <1>5

LEMMA ExtendedIsInRange ==
    ASSUME TypeOK
    PROVE  Extended \in 0..(MaxTime + AutoLock)
BY AutoLockAssumption, BoundsAssumption DEF TypeOK, Extended

LEMMA EndKeepsType ==
    ASSUME TypeOK, NEW over \in SUBSET Sessions, End(over)
    PROVE  ended' \in SUBSET Sessions /\ raced' \in SUBSET ended' /\ told' = told
BY DEF TypeOK, End

LEMMA SessionsSoFar ==
    ASSUME TypeOK
    PROVE  1..sessions \in SUBSET Sessions
BY BoundsAssumption DEF TypeOK, Sessions

-----------------------------------------------------------------------------
\* What a message that may save a device, or write a session, has made sure of.
Enrolled ==
    /\ \A t \in Tasks : /\ task[t].pc \in {"save", "activate"} => task[t].device \in approved
                        /\ task[t].pc \in {"activate", "set"} => handle # 0
                        /\ task[t].pc \in {"mfa", "pull"} => task[t].device \in enrolled
                        /\ task[t].pc = "login" => task[t].device \in enrolled \cup {0}
    /\ UnlockedByApproval

\* The steps of an unlock keep their types.
LEMMA UnlockKeepsType ==
    ASSUME TypeOK, Enrolled, NEW t \in Tasks,
           Unlock(t) \/ Login(t) \/ EnrollDevice(t) \/ Mfa(t) \/ Pull(t) \/ SaveDeviceId(t) \/ Activate(t)
    PROVE  TypeOK'
<1> USE IdleIsTask
<1>0. handle \in Devices \cup {0} /\ task[t] \in Task
  BY DEF TypeOK
<1>1. CASE Unlock(t)
  <2>1. [Idle EXCEPT !.pc = "login", !.device = handle] \in Task
    BY <1>0 DEF Idle, Task, Locked
  <2> QED
    BY <1>1, <2>1 DEF TypeOK, Unlock, histories
<1>2. CASE Login(t)
  BY <1>2 DEF TypeOK, Login, Await, Answer, Task, histories
<1>3. CASE EnrollDevice(t)
  <2> DEFINE device == Cardinality(enrolled) + 1
  <2>1. device \in Devices
    BY <1>3, NextDevice DEF EnrollDevice, Devices
  <2>2. [Idle EXCEPT !.pc = "mfa", !.device = device] \in Task
    BY <2>1 DEF Idle, Task, Locked
  <2>3. enrolled' = enrolled \cup {device} /\ task' = [task EXCEPT ![t] = [Idle EXCEPT !.pc = "mfa", !.device = device]]
    BY <1>3 DEF EnrollDevice
  <2> HIDE DEF device
  <2> QED
    BY <1>3, <2>1, <2>2, <2>3 DEF TypeOK, EnrollDevice, histories
<1>4. CASE Mfa(t)
  BY <1>4 DEF TypeOK, Mfa, Await, Answer, Task, histories
<1>5. CASE Pull(t)
  <2>1. task[t].device \in approved => task[t].device \in enrolled
    BY DEF TypeOK
  <2>2. CASE task[t].device \in approved
    BY <1>5, <2>2 DEF TypeOK, Pull, Pulls, Await, Task
  <2>3. CASE task[t].device \notin approved
    <3>1. told' = told \cup {task[t].device} /\ task' = [task EXCEPT ![t] = Idle]
      BY <1>5, <2>3 DEF Pull, Pulls, Answer
    <3>2. task[t].device \in enrolled
      BY <1>5 DEF Pull, Enrolled
    <3> QED
      BY <1>5, <3>1, <3>2 DEF TypeOK, Pull
  <2> QED
    BY <2>2, <2>3
<1>6. CASE SaveDeviceId(t)
  <2>1. handle' \in enrolled
    BY <1>6 DEF TypeOK, Enrolled, SaveDeviceId, Saves
  <2> QED
    BY <1>6, <2>1 DEF TypeOK, SaveDeviceId, Await, Task, histories
<1>7. CASE Activate(t)
  <2>0. sessions' \in Sessions
    BY <1>7, BoundsAssumption DEF TypeOK, Activate, Sessions
  <2>1. stored' \in SessionData
    BY <1>7, <2>0, ExtendedIsInRange DEF Activate, SessionData
  <2>2. ended' \in SUBSET Sessions /\ raced' \in SUBSET ended' /\ told' = told
    BY <1>7, SessionsSoFar, EndKeepsType DEF Activate
  <2>3. task' \in [Tasks -> Task]
    BY <1>7 DEF TypeOK, Activate, Answer
  <2> QED
    BY <1>7, <2>0, <2>1, <2>2, <2>3 DEF TypeOK, Activate
<1> QED
  BY <1>1, <1>2, <1>3, <1>4, <1>5, <1>6, <1>7

\* The steps of the other messages keep their types.
LEMMA UseKeepsType ==
    ASSUME TypeOK, NEW t \in Tasks,
           \/ Request(t) \/ ReadCredentials(t) \/ TouchRead(t) \/ TouchSet(t)
           \/ Status(t) \/ ReadStatus(t) \/ ClearExpired(t)
    PROVE  TypeOK'
<1> USE IdleIsTask
<1>1. CASE Request(t)
  <2>1. [Idle EXCEPT !.pc = "read"] \in Task
    BY DEF Idle, Task, Locked
  <2> QED
    BY <1>1, <2>1 DEF TypeOK, Request, Message, histories
<1>2. CASE ReadCredentials(t)
  BY <1>2 DEF TypeOK, ReadCredentials, Await, Answer, Task, histories
<1>3. CASE TouchRead(t)
  <2>1. stored # Locked => [Idle EXCEPT !.pc = "set", !.data = [stored EXCEPT !.expiresAt = Extended]] \in Task
    BY ExtendedIsInRange DEF TypeOK, Idle, Task, Locked, SessionData
  <2> QED
    BY <1>3, <2>1 DEF TypeOK, TouchRead, Alive, Answer, histories
<1>4. CASE TouchSet(t)
  BY <1>4 DEF TypeOK, TouchSet, Answer, Task, histories
<1>5. CASE Status(t)
  <2>1. [Idle EXCEPT !.pc = "status"] \in Task
    BY DEF Idle, Task, Locked
  <2> QED
    BY <1>5, <2>1 DEF TypeOK, Status, Message, histories
<1>6. CASE ReadStatus(t)
  BY <1>6 DEF TypeOK, ReadStatus, Await, Answer, Task, histories
<1>7. CASE ClearExpired(t)
  <2>1. {stored.session} \ {0} \in SUBSET Sessions
    BY DEF TypeOK, SessionData, Locked
  <2>2. ended' \in SUBSET Sessions /\ raced' \in SUBSET ended' /\ told' = told
    BY <1>7, <2>1, EndKeepsType DEF ClearExpired
  <2> QED
    BY <1>7, <2>2 DEF TypeOK, ClearExpired, Answer
<1> QED
  BY <1>1, <1>2, <1>3, <1>4, <1>5, <1>6, <1>7

\* What happens around the worker keeps the types.
LEMMA AroundKeepsType ==
    ASSUME TypeOK, Lock \/ Tick \/ WorkerStops \/ BrowserCloses \/ \E d \in Devices : Approve(d)
    PROVE  TypeOK'
<1>1. CASE Lock
  <2>1. ended' \in SUBSET Sessions /\ raced' \in SUBSET ended' /\ told' = told
    BY <1>1, SessionsSoFar, EndKeepsType DEF Lock
  <2> QED
    BY <1>1, <2>1 DEF TypeOK, Lock, Locks
<1>2. CASE Tick
  <2> DEFINE over == IF now' > stored.expiresAt THEN {stored.session} \ {0} ELSE {}
  <2>1. over \in SUBSET Sessions
    BY DEF TypeOK, SessionData, Locked
  <2>2. End(over)
    BY <1>2 DEF Tick
  <2> HIDE DEF over
  <2>3. ended' \in SUBSET Sessions /\ raced' \in SUBSET ended' /\ told' = told
    BY <2>1, <2>2, EndKeepsType
  <2>4. now' \in 0..MaxTime
    BY <1>2, BoundsAssumption DEF TypeOK, Tick
  <2> QED
    BY <1>2, <2>3, <2>4 DEF TypeOK, Tick
<1>3. CASE WorkerStops
  BY <1>3, IdleIsTask DEF TypeOK, WorkerStops, histories
<1>4. CASE BrowserCloses
  <2>1. ended' \in SUBSET Sessions /\ raced' \in SUBSET ended'
    BY <1>4, SessionsSoFar DEF TypeOK, BrowserCloses
  <2> QED
    BY <1>4, <2>1, IdleIsTask DEF TypeOK, BrowserCloses
<1>5. CASE \E d \in Devices : Approve(d)
  BY <1>5 DEF TypeOK, Approve, histories
<1> QED
  BY <1>1, <1>2, <1>3, <1>4, <1>5

-----------------------------------------------------------------------------
(* The saved device. *)

\* An unlock saves a device only after a pull that its approval let through.
LEMMA UnlockKeepsEnrolled ==
    ASSUME TypeOK, Enrolled, NEW t \in Tasks,
           Unlock(t) \/ Login(t) \/ EnrollDevice(t) \/ Mfa(t) \/ Pull(t) \/ SaveDeviceId(t) \/ Activate(t)
    PROVE  Enrolled'
<1> USE DEF Enrolled, UnlockedByApproval
<1>1. CASE Unlock(t)
  BY <1>1 DEF TypeOK, Unlock, Idle
<1>2. CASE Login(t)
  BY <1>2 DEF TypeOK, Task, Login, Await, Answer, Idle
<1>3. CASE EnrollDevice(t)
  BY <1>3 DEF TypeOK, EnrollDevice, Idle
<1>4. CASE Mfa(t)
  BY <1>4 DEF TypeOK, Task, Mfa, Await, Answer, Idle
<1>5. CASE Pull(t)
  BY <1>5 DEF TypeOK, Task, Pull, Pulls, Await, Answer, Idle
<1>6. CASE SaveDeviceId(t)
  <2>1. handle' \in approved /\ handle' # 0
    BY <1>6, BoundsAssumption DEF TypeOK, SaveDeviceId, Saves, Devices
  <2> QED
    BY <1>6, <2>1 DEF TypeOK, Task, SaveDeviceId, Await
<1>7. CASE Activate(t)
  BY <1>7 DEF TypeOK, Task, Activate, Answer, Idle
<1> QED
  BY <1>1, <1>2, <1>3, <1>4, <1>5, <1>6, <1>7

LEMMA UseKeepsEnrolled ==
    ASSUME TypeOK, Enrolled, NEW t \in Tasks,
           \/ Request(t) \/ ReadCredentials(t) \/ TouchRead(t) \/ TouchSet(t)
           \/ Status(t) \/ ReadStatus(t) \/ ClearExpired(t)
    PROVE  Enrolled'
<1> USE DEF Enrolled, UnlockedByApproval
<1>1. CASE Request(t) \/ Status(t)
  BY <1>1 DEF TypeOK, Request, Status, Message, Idle
<1>2. CASE ReadCredentials(t)
  BY <1>2 DEF TypeOK, Task, ReadCredentials, Await, Answer, Idle
<1>3. CASE TouchRead(t)
  <2>1. handle' = handle /\ stored' = stored /\ approved' = approved /\ enrolled' = enrolled
    BY <1>3, TouchFinds
  <2>2. \A u \in Tasks : u # t => task'[u] = task[u]
    BY <1>3, TouchFinds
  <2>3. task'[t].pc = "idle" \/ (task'[t].pc = "set" /\ stored # Locked)
    BY <1>3, TouchFinds DEF Idle
  <2> QED
    BY <2>1, <2>2, <2>3
<1>4. CASE TouchSet(t)
  BY <1>4 DEF TypeOK, TouchSet, Answer, Idle
<1>5. CASE ReadStatus(t)
  BY <1>5 DEF TypeOK, Task, ReadStatus, Await, Answer, Idle
<1>6. CASE ClearExpired(t)
  BY <1>6 DEF TypeOK, ClearExpired, Answer, Idle
<1> QED
  BY <1>1, <1>2, <1>3, <1>4, <1>5, <1>6

LEMMA AroundKeepsEnrolled ==
    ASSUME TypeOK, Enrolled, Lock \/ Tick \/ WorkerStops \/ BrowserCloses \/ \E d \in Devices : Approve(d)
    PROVE  Enrolled'
BY DEF TypeOK, Enrolled, UnlockedByApproval, Lock, Locks, Tick, WorkerStops, BrowserCloses, Approve, Idle

\* The saved device of this browser, and what messages under way know of it, are
\* in order whatever interleaves.
THEOREM EnrolledInvariant == Spec => [](TypeOK /\ Enrolled)
<1>1. Init => TypeOK /\ Enrolled
  <2>1. Init => TypeOK
    BY IdleIsTask, BoundsAssumption DEF Init, TypeOK
  <2>2. Init => Enrolled
    BY DEF Init, Enrolled, UnlockedByApproval, Idle
  <2> QED
    BY <2>1, <2>2
<1>2. TypeOK /\ Enrolled /\ [Next]_vars => TypeOK' /\ Enrolled'
  <2> SUFFICES ASSUME TypeOK, Enrolled, [Next]_vars
               PROVE  TypeOK' /\ Enrolled'
    OBVIOUS
  <2>1. CASE \E t \in Tasks : \/ Unlock(t) \/ Login(t) \/ EnrollDevice(t) \/ Mfa(t) \/ Pull(t)
                              \/ SaveDeviceId(t) \/ Activate(t)
    BY <2>1, UnlockKeepsType, UnlockKeepsEnrolled
  <2>2. CASE \E t \in Tasks : \/ Request(t) \/ ReadCredentials(t) \/ TouchRead(t) \/ TouchSet(t)
                              \/ Status(t) \/ ReadStatus(t) \/ ClearExpired(t)
    BY <2>2, UseKeepsType, UseKeepsEnrolled
  <2>3. CASE Lock \/ Tick \/ WorkerStops \/ BrowserCloses \/ \E d \in Devices : Approve(d)
    BY <2>3, AroundKeepsType, AroundKeepsEnrolled
  <2>4. CASE UNCHANGED vars
    BY <2>4 DEF TypeOK, Enrolled, UnlockedByApproval, vars, histories
  <2> QED
    BY <2>1, <2>2, <2>3, <2>4 DEF Next
<1> QED
  BY <1>1, <1>2, PTL DEF Spec

\* The state of the worker, the browser and the server keeps its shape.
THEOREM TypeCorrect == Spec => []TypeOK
BY EnrolledInvariant, PTL

\* Credentials are only there under a device that was approved and then saved,
\* wherever the worker is stopped in an unlock (background.ts).
THEOREM UnlockNeedsApproval == Spec => []UnlockedByApproval
<1>1. Enrolled => UnlockedByApproval
  BY DEF Enrolled
<1> QED
  BY <1>1, EnrolledInvariant, PTL

-----------------------------------------------------------------------------
(* Sessions that ended. *)

\* The session that is stored, unless it is too old, is not one that ended; nor is
\* the one that a touch is about to write back - but for those history names.
Lively ==
    /\ ended \subseteq 1..sessions
    /\ stored # Locked => /\ stored.session \in 1..sessions
                          /\ stored.session \in ended \ raced => Expired
    /\ \A t \in Tasks : task[t].pc = "set" =>
          /\ task[t].data \in SessionData
          /\ task[t].data.session \in (1..sessions) \ (ended \ raced)

\* Steps that change neither what is stored nor what a touch will write.
LEMMA QuietKeepsLively ==
    ASSUME Lively, UNCHANGED <<now, stored, sessions, ended, raced>>,
           \A t \in Tasks : task'[t].pc = "set" => task'[t] = task[t]
    PROVE  Lively'
BY DEF Lively, Expired

\* Ending sessions: those that a touch holds are in raced from then on.
LEMMA EndKeepsHeld ==
    ASSUME Lively, NEW over \in SUBSET (1..sessions), End(over), sessions' = sessions,
           \A t \in Tasks : task'[t].pc = "set" => task'[t] = task[t]
    PROVE  /\ ended' \subseteq 1..sessions
           /\ \A t \in Tasks : task'[t].pc = "set" =>
                 /\ task'[t].data \in SessionData
                 /\ task'[t].data.session \in (1..sessions) \ (ended' \ raced')
BY DEF Lively, End

LEMMA UnlockKeepsLively ==
    ASSUME TypeOK, Lively, NEW t \in Tasks,
           Unlock(t) \/ Login(t) \/ EnrollDevice(t) \/ Mfa(t) \/ Pull(t) \/ SaveDeviceId(t) \/ Activate(t)
    PROVE  Lively'
<1>1. CASE Unlock(t) \/ Login(t) \/ EnrollDevice(t) \/ Mfa(t) \/ Pull(t) \/ SaveDeviceId(t)
  <2>1. UNCHANGED <<now, stored, sessions, ended, raced>>
    BY <1>1 DEF Unlock, Login, EnrollDevice, Mfa, Pull, SaveDeviceId, histories
  <2>2. \A u \in Tasks : task'[u].pc = "set" => task'[u] = task[u]
    <3>1. CASE Unlock(t)
      BY <3>1 DEF TypeOK, Unlock, Idle
    <3>2. CASE Login(t) \/ Mfa(t)
      BY <3>2 DEF TypeOK, Task, Login, Mfa, Await, Answer, Idle
    <3>3. CASE EnrollDevice(t)
      BY <3>3 DEF TypeOK, EnrollDevice, Idle
    <3>4. CASE Pull(t)
      BY <3>4 DEF TypeOK, Task, Pull, Await, Answer, Idle
    <3>5. CASE SaveDeviceId(t)
      BY <3>5 DEF TypeOK, Task, SaveDeviceId, Await
    <3> QED
      BY <1>1, <3>1, <3>2, <3>3, <3>4, <3>5
  <2> QED
    BY <2>1, <2>2, QuietKeepsLively
<1>2. CASE Activate(t)
  <2>1. sessions \in Nat /\ sessions' = sessions + 1
    BY <1>2 DEF TypeOK, Activate, Sessions
  <2>2. stored'.session = sessions + 1
    BY <1>2, <2>1 DEF Activate
  <2>3. ended' \subseteq 1..sessions /\ raced \subseteq raced'
    BY <1>2 DEF Activate, End, Lively
  <2>4. \A u \in Tasks : task'[u].pc = "set" => task'[u] = task[u]
    BY <1>2 DEF TypeOK, Activate, Answer, Idle
  <2>5. \A u \in Tasks : task'[u].pc = "set" =>
           /\ task'[u].data \in SessionData
           /\ task'[u].data.session \in (1..sessions) \ (ended' \ raced')
    BY <1>2, <2>4 DEF Lively, Activate, End
  <2>6. 1..sessions \subseteq 1..sessions' /\ sessions + 1 \in 1..sessions' /\ sessions + 1 \notin 1..sessions
    BY <2>1
  <2> QED
    BY <2>2, <2>3, <2>5, <2>6 DEF Lively
<1> QED
  BY <1>1, <1>2

LEMMA UseKeepsLively ==
    ASSUME TypeOK, Lively, NEW t \in Tasks,
           \/ Request(t) \/ ReadCredentials(t) \/ TouchRead(t) \/ TouchSet(t)
           \/ Status(t) \/ ReadStatus(t) \/ ClearExpired(t)
    PROVE  Lively'
<1>1. CASE Request(t) \/ ReadCredentials(t) \/ Status(t) \/ ReadStatus(t)
  <2>1. UNCHANGED <<now, stored, sessions, ended, raced>>
    BY <1>1 DEF Request, ReadCredentials, Status, ReadStatus, histories
  <2>2. \A u \in Tasks : task'[u].pc = "set" => task'[u] = task[u]
    BY <1>1 DEF TypeOK, Task, Request, ReadCredentials, Status, ReadStatus, Message, Await, Answer, Idle
  <2> QED
    BY <2>1, <2>2, QuietKeepsLively
<1>2. CASE TouchRead(t)
  <2>1. UNCHANGED <<now, stored, sessions, ended, raced>>
    BY <1>2, TouchFinds DEF histories
  <2>2. \A u \in Tasks \ {t} : task'[u] = task[u]
    BY <1>2, TouchFinds
  <2>3. task'[t].pc = "set" => /\ stored # Locked /\ ~Expired
                               /\ task'[t].data = [stored EXCEPT !.expiresAt = Extended]
    BY <1>2, TouchFinds DEF Idle
  <2>4. stored # Locked => [stored EXCEPT !.expiresAt = Extended] \in SessionData
    BY ExtendedIsInRange DEF TypeOK, SessionData
  <2>5. [stored EXCEPT !.expiresAt = Extended].session = stored.session
    BY DEF TypeOK, SessionData, Locked
  <2>6. task'[t].pc = "set" => /\ task'[t].data \in SessionData
                               /\ task'[t].data.session \in (1..sessions) \ (ended \ raced)
    BY <2>3, <2>4, <2>5 DEF Lively
  <2> QED
    BY <2>1, <2>2, <2>6 DEF Lively, Expired
<1>3. CASE TouchSet(t)
  <2>1. \A u \in Tasks : task'[u].pc = "set" => task'[u] = task[u]
    BY <1>3 DEF TypeOK, TouchSet, Answer, Idle
  <2>2. stored' = task[t].data /\ task[t].pc = "set" /\ UNCHANGED <<now, sessions, ended, raced>>
    BY <1>3 DEF TouchSet, histories
  <2> QED
    BY <2>1, <2>2 DEF Lively
<1>4. CASE ClearExpired(t)
  <2> DEFINE over == {stored.session} \ {0}
  <2>1. over \in SUBSET (1..sessions) /\ End(over) /\ sessions' = sessions /\ stored' = Locked
    BY <1>4 DEF TypeOK, Lively, Locked, ClearExpired
  <2>2. \A u \in Tasks : task'[u].pc = "set" => task'[u] = task[u]
    BY <1>4 DEF TypeOK, ClearExpired, Answer, Idle
  <2> HIDE DEF over
  <2> QED
    BY <2>1, <2>2, EndKeepsHeld DEF Lively
<1> QED
  BY <1>1, <1>2, <1>3, <1>4

LEMMA AroundKeepsLively ==
    ASSUME TypeOK, Lively, Lock \/ Tick \/ WorkerStops \/ BrowserCloses \/ \E d \in Devices : Approve(d)
    PROVE  Lively'
<1>1. CASE Lock
  <2>1. End(1..sessions) /\ sessions' = sessions /\ stored' = Locked /\ task' = task
    BY <1>1 DEF Lock, Locks
  <2> QED
    BY <2>1, EndKeepsHeld DEF Lively
<1>2. CASE Tick
  <2> DEFINE over == IF now' > stored.expiresAt THEN {stored.session} \ {0} ELSE {}
  <2>1. over \in SUBSET (1..sessions)
    BY DEF TypeOK, Lively, Locked
  <2>2. End(over) /\ sessions' = sessions /\ stored' = stored /\ task' = task /\ now' = now + 1
    BY <1>2 DEF Tick
  <2>3. /\ ended' \subseteq 1..sessions
        /\ \A t \in Tasks : task'[t].pc = "set" =>
              /\ task'[t].data \in SessionData
              /\ task'[t].data.session \in (1..sessions) \ (ended' \ raced')
    <3> HIDE DEF over
    <3> QED
      BY <2>1, <2>2, EndKeepsHeld
  <2>4. ASSUME stored # Locked, stored.session \in ended' \ raced'
        PROVE  Expired'
    <3>1. now \in Nat /\ stored.expiresAt \in Nat
      BY AutoLockAssumption, BoundsAssumption DEF TypeOK, SessionData, Locked
    <3>2. CASE stored.session \in over
      BY <2>2, <3>2 DEF Expired
    <3>3. CASE stored.session \notin over
      <4>1. stored.session \in ended \ raced
        BY <2>2, <2>4, <3>3 DEF End
      <4> QED
        BY <2>2, <2>4, <3>1, <4>1 DEF Lively, Expired
    <3> QED
      BY <3>2, <3>3
  <2> QED
    BY <2>2, <2>3, <2>4 DEF Lively
<1>3. CASE WorkerStops
  BY <1>3 DEF TypeOK, WorkerStops, Lively, Expired, Idle, histories
<1>4. CASE BrowserCloses
  BY <1>4 DEF TypeOK, BrowserCloses, Lively, Idle
<1>5. CASE \E d \in Devices : Approve(d)
  BY <1>5, QuietKeepsLively DEF Approve, histories
<1> QED
  BY <1>1, <1>2, <1>3, <1>4, <1>5

\* Whatever interleaves, what is stored or about to be is no session that ended.
THEOREM LivelyInvariant == Spec => []Lively
<1>1. Init => Lively
  BY DEF Init, Lively, Idle
<1>2. TypeOK /\ Lively /\ [Next]_vars => Lively'
  <2> SUFFICES ASSUME TypeOK, Lively, [Next]_vars PROVE Lively'
    OBVIOUS
  <2>1. CASE \E t \in Tasks : \/ Unlock(t) \/ Login(t) \/ EnrollDevice(t) \/ Mfa(t) \/ Pull(t)
                              \/ SaveDeviceId(t) \/ Activate(t)
    BY <2>1, UnlockKeepsLively
  <2>2. CASE \E t \in Tasks : \/ Request(t) \/ ReadCredentials(t) \/ TouchRead(t) \/ TouchSet(t)
                              \/ Status(t) \/ ReadStatus(t) \/ ClearExpired(t)
    BY <2>2, UseKeepsLively
  <2>3. CASE Lock \/ Tick \/ WorkerStops \/ BrowserCloses \/ \E d \in Devices : Approve(d)
    BY <2>3, AroundKeepsLively
  <2>4. CASE UNCHANGED vars
    BY <2>4, QuietKeepsLively DEF vars, histories
  <2> QED
    BY <2>1, <2>2, <2>3, <2>4 DEF Next
<1> QED
  BY <1>1, <1>2, TypeCorrect, PTL DEF Spec

\* A message that is about to use a session has found one that is not over.
LEMMA OnlyReadsMoveToTouch ==
    ASSUME TypeOK, [Next]_vars, NEW t \in Tasks, task[t].pc = "read", task'[t].pc = "touch"
    PROVE  ReadCredentials(t)
<1>1. ASSUME NEW u \in Tasks,
             \/ Unlock(u) \/ Login(u) \/ EnrollDevice(u) \/ Mfa(u) \/ Pull(u) \/ SaveDeviceId(u) \/ Activate(u)
             \/ Request(u) \/ TouchRead(u) \/ TouchSet(u) \/ Status(u) \/ ReadStatus(u) \/ ClearExpired(u)
      PROVE  FALSE
  BY <1>1 DEF TypeOK, Task, Unlock, Login, EnrollDevice, Mfa, Pull, SaveDeviceId, Activate, Request,
              TouchRead, TouchSet, Status, ReadStatus, ClearExpired, Message, Await, Answer, Idle
<1>2. ASSUME NEW u \in Tasks, ReadCredentials(u) PROVE u = t
  BY <1>2 DEF TypeOK, ReadCredentials, Await, Answer
<1>3. ~(Lock \/ Tick \/ WorkerStops \/ BrowserCloses \/ \E d \in Devices : Approve(d))
  BY DEF TypeOK, Lock, Tick, WorkerStops, BrowserCloses, Approve, Idle
<1>4. ~UNCHANGED vars
  BY DEF vars
<1> QED
  BY <1>1, <1>2, <1>3, <1>4 DEF Next

\* A session that was locked, replaced, expired or wiped is never read again, unless a
\* touch had found it alive before it ended (session.ts: credentials(), touch()).
THEOREM EndedIsEnded == Spec => EndedStaysEnded
<1>1. TypeOK /\ Lively /\ [Next]_vars =>
         [\A t \in Tasks : task[t].pc = "read" /\ task'[t].pc = "touch" =>
             stored.session \notin ended \ raced]_vars
  <2> SUFFICES ASSUME TypeOK, Lively, [Next]_vars, NEW t \in Tasks,
                      task[t].pc = "read", task'[t].pc = "touch"
               PROVE  stored.session \notin ended \ raced
    OBVIOUS
  <2>1. ReadCredentials(t)
    BY OnlyReadsMoveToTouch
  <2>2. Unlocked
    <3>1. Unlocked \/ task' = [task EXCEPT ![t] = Idle] \/ task' = [task EXCEPT ![t].pc = "clear"]
      BY <2>1 DEF ReadCredentials, Await, Answer
    <3>2. task \in [Tasks -> Task] /\ Idle.pc = "idle"
      BY DEF TypeOK, Idle
    <3> QED
      BY <3>1, <3>2 DEF Task
  <2> QED
    BY <2>2 DEF Unlocked, Lively
<1> QED
  BY <1>1, TypeCorrect, LivelyInvariant, PTL DEF Spec, EndedStaysEnded

-----------------------------------------------------------------------------
(* What is written into a page, for forms of every length.                     *)

\* The smallest and the greatest element exist: the order of the numbers is well
\* founded, and counting down from n turns one into the other.
Below == {p \in Nat \X Nat : p[1] < p[2]}

LEMMA BelowIsWellFounded == IsWellFoundedOn(Below, Nat)
<1>1. Below = OpToRel(<, Nat)
  BY Zenon DEF Below, OpToRel
<1>2. QED
  BY <1>1, NatLessThanWellFounded, Zenon

LEMMA MinIsLeast ==
    ASSUME NEW T \in SUBSET Nat, T # {}
    PROVE  Min(T) \in T /\ \A y \in T : Min(T) =< y
<1>1. PICK x \in T : \A y \in T : ~(<<y, x>> \in Below)
  BY BelowIsWellFounded, WFMin
<1>2. \A y \in T : <<y, x>> \in Nat \X Nat /\ <<y, x>>[1] = y /\ <<y, x>>[2] = x
  OBVIOUS
<1>3. \A y \in T : ~(y < x)
  BY <1>1, <1>2 DEF Below
<1>4. \A y \in T : x =< y
  BY <1>3
<1>5. QED
  BY <1>4 DEF Min

LEMMA MaxIsGreatest ==
    ASSUME NEW n \in Nat, NEW T \in SUBSET (1..n), T # {}
    PROVE  Max(T) \in T /\ \A y \in T : Max(T) >= y
<1> DEFINE U == {n - x : x \in T}
<1>1. \A x \in T : x \in Nat /\ n - x \in Nat
  OBVIOUS
<1>2. U \in SUBSET Nat /\ U # {}
  BY <1>1
<1>3. Min(U) \in U /\ \A v \in U : Min(U) =< v
  BY ONLY <1>2, MinIsLeast
<1>4. PICK x \in T : Min(U) = n - x
  BY <1>3
<1>5. \A y \in T : n - x =< n - y
  BY <1>3, <1>4
<1>6. \A y \in T : x >= y
  BY <1>1, <1>5
<1>7. QED
  BY <1>6 DEF Max

Kinds == {"password", "username", "email", "otp", "unknown"}
KindsOf(form) == [i \in DOMAIN form |-> Classify(form[i])]

LEMMA ClassifyIsKind == ASSUME NEW d PROVE Classify(d) \in Kinds
BY DEF Classify, Kinds

LEMMA KindsAreKinds ==
    ASSUME NEW n \in Nat, NEW D, NEW form \in [1..n -> D]
    PROVE  KindsOf(form) \in [1..n -> Kinds] /\ Len(KindsOf(form)) = n
<1>1. KindsOf(form) \in [1..n -> Kinds]
  BY ClassifyIsKind DEF KindsOf
<1>2. QED
  BY <1>1

\* The rule of context, "an unknown field right before the password is the username"
\* (classify.ts), finds the fields that IsUsername names, and no password more.
LEMMA ContextIsRight ==
    ASSUME NEW n \in Nat, NEW D, NEW form \in [1..n -> D], NEW i \in 1..n
    PROVE  /\ AnalyzeForm(form)[i] \in {"username", "email"} <=> IsUsername(KindsOf(form), i)
           /\ AnalyzeForm(form)[i] = "password" <=> KindsOf(form)[i] = "password"
           /\ DOMAIN AnalyzeForm(form) = 1..n
<1> DEFINE kinds == KindsOf(form)
           passwords == {j \in DOMAIN kinds : kinds[j] = "password"}
           first == Min(passwords)
           before == Nearest(kinds, first)
           last == Max(before)
<1>1. kinds \in [1..n -> Kinds] /\ Len(kinds) = n /\ DOMAIN kinds = 1..n
  BY KindsAreKinds
<1>2. AnalyzeForm(form) = IF passwords = {} \/ before = {} THEN kinds
                          ELSE [kinds EXCEPT ![last] = IF kinds[last] = "unknown" THEN "username" ELSE kinds[last]]
  BY DEF AnalyzeForm, KindsOf
<1> HIDE DEF kinds
<1>3. CASE passwords = {}
  <2>1. \A p \in 1..n : kinds[p] # "password"
    BY <1>1, <1>3
  <2>2. IsUsername(kinds, i) <=> kinds[i] \in {"username", "email"}
    BY <1>1, <2>1 DEF IsUsername
  <2>3. QED
    BY <1>1, <1>2, <1>3, <2>2 DEF kinds
<1>4. ASSUME passwords # {}
      PROVE  /\ first \in 1..n /\ kinds[first] = "password"
             /\ \A p \in 1..n : kinds[p] = "password" => first =< p
  <2>1. passwords \in SUBSET Nat
    BY <1>1
  <2>2. first \in passwords /\ \A p \in passwords : first =< p
    BY ONLY <1>4, <2>1, MinIsLeast
  <2>3. QED
    BY <1>1, <2>2
\* An unknown field that only codes separate from a password, none before it, lies
\* before the first password, with codes between them.
<1>5. ASSUME kinds[i] = "unknown", passwords # {}, IsUsername(kinds, i)
      PROVE  i < first /\ \A j \in (i + 1)..(first - 1) : kinds[j] = "otp"
  <2>1. PICK p \in (i + 1)..n : /\ kinds[p] = "password"
                                /\ \A j \in (i + 1)..(p - 1) : kinds[j] = "otp"
                                /\ \A j \in 1..(i - 1) : kinds[j] # "password"
    BY <1>1, <1>5 DEF IsUsername
  <2>2. first =< p
    BY <1>4, <1>5, <2>1
  <2>3. first \in 1..n /\ kinds[first] = "password"
    BY <1>4, <1>5
  <2>4. first # i /\ first \notin 1..(i - 1)
    BY <1>5, <2>1, <2>3
  <2>5. i < first
    BY <2>3, <2>4
  <2>6. first \notin (i + 1)..(p - 1)
    BY <2>1, <2>3
  <2>7. first = p
    BY <2>1, <2>2, <2>3, <2>5, <2>6
  <2>8. QED
    BY <2>1, <2>5, <2>7
<1>6. CASE passwords # {} /\ before = {}
  <2>1. kinds[i] = "unknown" => ~IsUsername(kinds, i)
    <3> SUFFICES ASSUME kinds[i] = "unknown", IsUsername(kinds, i) PROVE FALSE
      OBVIOUS
    <3>1. i < first /\ first \in 1..n
      BY <1>4, <1>5, <1>6
    <3>2. i \in before
      BY <3>1 DEF Nearest
    <3>3. QED
      BY <1>6, <3>2
  <2>2. IsUsername(kinds, i) <=> kinds[i] \in {"username", "email"}
    BY <2>1 DEF IsUsername
  <2>3. QED
    BY <1>1, <1>2, <1>6, <2>2 DEF kinds
<1>7. CASE passwords # {} /\ before # {}
  <2>1. first \in 1..n /\ first - 1 \in Nat /\ before \in SUBSET (1..(first - 1))
    BY <1>4, <1>7 DEF Nearest
  <2>2. last \in before /\ \A y \in before : last >= y
    BY ONLY <1>7, <2>1, MaxIsGreatest
  <2>3. last \in 1..n /\ last < first /\ kinds[last] \in {"unknown", "username", "email"}
    BY <2>1, <2>2 DEF Nearest
  <2>4. \A y \in 1..(first - 1) : kinds[y] \in {"unknown", "username", "email"} => y =< last
    BY <2>1, <2>2, <2>3 DEF Nearest
  <2>5. AnalyzeForm(form) = [kinds EXCEPT ![last] = IF kinds[last] = "unknown" THEN "username" ELSE kinds[last]]
    BY <1>2, <1>7
  <2>6. CASE i # last
    <3>1. AnalyzeForm(form)[i] = kinds[i]
      BY <1>1, <2>5, <2>6
    <3>2. kinds[i] = "unknown" => ~IsUsername(kinds, i)
      <4> SUFFICES ASSUME kinds[i] = "unknown", IsUsername(kinds, i) PROVE FALSE
        OBVIOUS
      <4>1. i < first /\ \A j \in (i + 1)..(first - 1) : kinds[j] = "otp"
        BY <1>5, <1>7
      <4>2. i < last
        BY <2>1, <2>3, <2>4, <2>6, <4>1
      <4>3. kinds[last] = "otp"
        BY <2>1, <2>3, <4>1, <4>2
      <4>4. QED
        BY <2>3, <4>3
    <3>3. IsUsername(kinds, i) <=> kinds[i] \in {"username", "email"}
      BY <3>2 DEF IsUsername
    <3>4. QED
      BY <1>1, <2>5, <3>1, <3>3 DEF kinds
  <2>7. CASE i = last
    <3>1. AnalyzeForm(form)[i] = IF kinds[i] = "unknown" THEN "username" ELSE kinds[i]
      BY <1>1, <2>5, <2>7
    <3>2. ASSUME kinds[i] = "unknown" PROVE IsUsername(kinds, i)
      <4>1. \A j \in (i + 1)..(first - 1) : j \in 1..n /\ kinds[j] \in Kinds
        BY <1>1, <2>1
      <4>2. \A j \in (i + 1)..(first - 1) : kinds[j] = "otp"
        BY <1>4, <1>7, <2>1, <2>4, <2>7, <4>1 DEF Kinds
      <4>3. \A j \in 1..(i - 1) : kinds[j] # "password"
        BY <1>4, <1>7, <2>1, <2>3, <2>7
      <4>4. first \in (i + 1)..n
        BY <2>1, <2>3, <2>7
      <4>5. QED
        BY <1>1, <1>4, <1>7, <3>2, <4>2, <4>3, <4>4 DEF IsUsername
    <3>3. AnalyzeForm(form)[i] \in {"username", "email"} /\ AnalyzeForm(form)[i] # "password"
          /\ kinds[i] # "password"
      BY <2>3, <2>7, <3>1
    <3>4. IsUsername(kinds, i)
      BY <2>3, <2>7, <3>2 DEF IsUsername
    <3>5. QED
      BY <1>1, <2>5, <3>3, <3>4 DEF kinds
  <2>8. QED
    BY <2>6, <2>7
<1>8. QED
  BY <1>3, <1>6, <1>7

\* What a page is sent, for every form and every credential: nothing where the guard
\* refuses, else the username to the fields that hold one and the password to the
\* password fields, as far as the credential has them.
Writes(form, c) ==
    {[field |-> i, value |-> "username"] : i \in {j \in DOMAIN form : c.username /\ IsUsername(KindsOf(form), j)}}
    \cup {[field |-> i, value |-> "password"] : i \in {j \in DOMAIN form : c.password /\ KindsOf(form)[j] = "password"}}

\* planFill after analyzeForm writes exactly that, for forms of every length and
\* fields of any kind ("OTP and unknown fields are never auto-written", autofill.ts).
THEOREM PlanIsRight ==
    ASSUME NEW n \in Nat, NEW D, NEW form \in [1..n -> D], NEW c, NEW page
    PROVE  PlanFill(AnalyzeForm(form), c, page) = IF Safe(c.url, page) THEN Writes(form, c) ELSE {}
<1> DEFINE kinds == AnalyzeForm(form)
           all == [field : 1..n, value : {"username", "password"}]
<1>1. /\ DOMAIN form = 1..n
      /\ n > 0 => DOMAIN kinds = 1..n
      /\ \A i \in 1..n : kinds[i] \in {"username", "email"} <=> IsUsername(KindsOf(form), i)
      /\ \A i \in 1..n : kinds[i] = "password" <=> KindsOf(form)[i] = "password"
  <2>1. DOMAIN form = 1..n
    OBVIOUS
  <2>2. n > 0 => 1 \in 1..n
    OBVIOUS
  <2>3. QED
    BY <2>1, <2>2, ContextIsRight
<1> HIDE DEF kinds
<1>2. CASE ~Safe(c.url, page)
  BY <1>2 DEF PlanFill
<1>3. CASE Safe(c.url, page) /\ n > 0
  <2>1. PlanFill(kinds, c, page) =
          {w \in all : \/ w.value = "username" /\ c.username /\ kinds[w.field] \in {"username", "email"}
                       \/ w.value = "password" /\ c.password /\ kinds[w.field] = "password"}
    BY <1>1, <1>3 DEF PlanFill
  <2>2. ASSUME NEW w \in PlanFill(kinds, c, page) PROVE w \in Writes(form, c)
    <3>1. /\ w.field \in 1..n /\ w = [field |-> w.field, value |-> w.value]
          /\ \/ w.value = "username" /\ c.username /\ kinds[w.field] \in {"username", "email"}
             \/ w.value = "password" /\ c.password /\ kinds[w.field] = "password"
      BY <2>1, <2>2
    <3>2. QED
      BY <1>1, <3>1 DEF Writes
  <2>3. ASSUME NEW w \in Writes(form, c) PROVE w \in PlanFill(kinds, c, page)
    <3>1. \E i \in 1..n :
             \/ w = [field |-> i, value |-> "username"] /\ c.username /\ IsUsername(KindsOf(form), i)
             \/ w = [field |-> i, value |-> "password"] /\ c.password /\ KindsOf(form)[i] = "password"
      BY <1>1 DEF Writes
    <3>2. QED
      BY <1>1, <2>1, <3>1
  <2>4. QED
    BY <1>3, <2>2, <2>3 DEF kinds
<1>4. CASE n = 0
  <2>1. DOMAIN form = {}
    BY <1>4
  <2>2. KindsOf(form) = [i \in {} |-> Classify(form[i])]
    BY <2>1 DEF KindsOf
  <2>3. AnalyzeForm(form) = KindsOf(form)
    BY <2>1 DEF AnalyzeForm, KindsOf
  <2>4. PlanFill(AnalyzeForm(form), c, page) = {}
    BY <2>2, <2>3 DEF PlanFill
  <2>5. Writes(form, c) = {}
    BY <2>1 DEF Writes
  <2>6. QED
    BY <2>4, <2>5
<1>5. QED
  BY <1>2, <1>3, <1>4

\* Of the vault of the runs a page gets the complete credential of its host.
LEMMA VaultMatches ==
    ASSUME NEW host \in {"site", "lookalike", "other"}, NEW protocol \in {"https:", "http:"}
    PROVE  Matches(Vault, Site(host, protocol)) =
              IF protocol = "http:" \/ host = "other" THEN {}
              ELSE IF host = "site"
              THEN {[url |-> Site("site", "https:"), username |-> TRUE, password |-> TRUE]}
              ELSE {[url |-> Site("lookalike", "https:"), username |-> FALSE, password |-> TRUE]}
<1> DEFINE page == Site(host, protocol)
           v1 == [url |-> Site("site", "https:"), username |-> TRUE, password |-> TRUE]
           v2 == [url |-> Site("site", "http:"), username |-> FALSE, password |-> TRUE]
           v3 == [url |-> Site("lookalike", "https:"), username |-> FALSE, password |-> TRUE]
           v4 == [url |-> [parses |-> FALSE, protocol |-> "", host |-> ""], username |-> TRUE, password |-> TRUE]
<1>1. Vault = {v1, v2, v3, v4}
  BY DEF Vault
<1>2. /\ Safe(v1.url, page) <=> host = "site" /\ protocol = "https:"
      /\ Safe(v2.url, page) <=> host = "site" /\ protocol = "https:"
      /\ Safe(v3.url, page) <=> host = "lookalike" /\ protocol = "https:"
      /\ ~Safe(v4.url, page)
  BY DEF Safe, Site
<1>3. Score(v1) = 2 /\ Score(v2) = 1 /\ Score(v3) = 1
  BY DEF Score
<1>4. v1.username # v2.username /\ v1.username # v3.username
  OBVIOUS
<1> HIDE DEF v1, v2, v3, v4, page
<1>5. CASE protocol = "http:" \/ host = "other"
  <2>1. \A c \in Vault : ~Safe(c.url, page)
    BY <1>1, <1>2, <1>5
  <2>2. QED
    BY <1>5, <2>1 DEF Matches, page
<1>6. CASE host = "site" /\ protocol = "https:"
  <2>1. \A c \in Vault : Safe(c.url, page) <=> c \in {v1, v2}
    BY <1>1, <1>2, <1>6
  <2>2. v1 \in Vault /\ v2 \in Vault
    BY <1>1
  <2>3. Matches(Vault, page) = {v1}
    BY <1>3, <1>4, <2>1, <2>2 DEF Matches
  <2>4. QED
    BY <1>6, <2>3 DEF page, v1
<1>7. CASE host = "lookalike" /\ protocol = "https:"
  <2>1. \A c \in Vault : Safe(c.url, page) <=> c = v3
    BY <1>1, <1>2, <1>7
  <2>2. Matches(Vault, page) = {v3}
    BY <1>1, <1>3, <2>1 DEF Matches
  <2>3. QED
    BY <1>7, <2>2 DEF page, v3
<1>8. QED
  BY <1>5, <1>6, <1>7

\* The forms and pages of the run are filled as they should be ...
THEOREM FormsAreFilled == FormsFilled
<1> SUFFICES ASSUME NEW form \in Forms, NEW host \in {"site", "lookalike", "other"},
                    NEW protocol \in {"https:", "http:"}
             PROVE  UNION {PlanFill(AnalyzeForm(form), c, Site(host, protocol)) : c \in Matches(Vault, Site(host, protocol))} =
                      IF protocol = "http:" THEN {}
                      ELSE {[field |-> i, value |-> "username"] : i \in {i \in DOMAIN form : host = "site" /\ IsUsername(KindsOf(form), i)}}
                           \cup {[field |-> i, value |-> "password"] : i \in {i \in DOMAIN form : host # "other" /\ KindsOf(form)[i] = "password"}}
  BY DEF FormsFilled, KindsOf
<1> DEFINE page == Site(host, protocol)
<1>1. PICK n \in 1..4 : form \in [1..n -> Fields]
  BY DEF Forms
<1>2. \A c : PlanFill(AnalyzeForm(form), c, page) = IF Safe(c.url, page) THEN Writes(form, c) ELSE {}
  <2>1. n \in Nat
    BY <1>1
  <2> TAKE c
  <2>2. QED
    BY <1>1, <2>1, PlanIsRight
<1>3. CASE protocol = "http:"
  <2>1. Matches(Vault, page) = {}
    BY <1>3, VaultMatches
  <2>2. QED
    BY <1>3, <2>1
<1>4. CASE protocol = "https:" /\ host = "other"
  <2>1. Matches(Vault, page) = {}
    BY <1>4, VaultMatches
  <2>2. QED
    BY <1>4, <2>1
<1>5. CASE protocol = "https:" /\ host = "site"
  <2> DEFINE c == [url |-> Site("site", "https:"), username |-> TRUE, password |-> TRUE]
  <2>1. Matches(Vault, page) = {c}
    BY <1>5, VaultMatches
  <2>2. Safe(c.url, page)
    BY <1>5 DEF Safe, Site
  <2>3. PlanFill(AnalyzeForm(form), c, page) = Writes(form, c)
    BY <1>2, <2>2
  <2>4. QED
    BY <1>5, <2>1, <2>3 DEF Writes
<1>6. CASE protocol = "https:" /\ host = "lookalike"
  <2> DEFINE c == [url |-> Site("lookalike", "https:"), username |-> FALSE, password |-> TRUE]
  <2>1. Matches(Vault, page) = {c}
    BY <1>6, VaultMatches
  <2>2. Safe(c.url, page)
    BY <1>6 DEF Safe, Site
  <2>3. PlanFill(AnalyzeForm(form), c, page) = Writes(form, c)
    BY <1>2, <2>2
  <2>4. QED
    BY <1>6, <2>1, <2>3 DEF Writes
<1>7. QED
  BY <1>3, <1>4, <1>5, <1>6

\* ... whatever the service worker has gone through.
THEOREM PagesAreFilled == Spec => []PagesFilled
<1>1. PagesFilled
  BY FormsAreFilled DEF PagesFilled
<1>2. QED
  BY <1>1, PTL
=============================================================================
