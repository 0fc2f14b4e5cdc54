------------------------ MODULE EmergencyAccessProofs ------------------------
(***************************************************************************)
(* What EmergencyAccess guarantees for every number of contacts, handlers, *)
(* crashes and every waiting period.  That the key never leaves early      *)
(* holds for both storages.  That a denial is final and a timer fixed,     *)
(* that the owner is told before the key leaves, and that the handlers     *)
(* implement the diagram of EmergencyContract, needs the storage that does *)
(* not interleave them.                                                    *)
(***************************************************************************)
EXTENDS EmergencyAccess, TLAPS

\* The waiting period of some genuine request of c is over.
Waited(c) == \E r \in asked[c] : now >= r + Wait

\* State and unlockAt of c, stored or about to be, come from a genuine request.
Timely(c, record) ==
    /\ record.state = "pending" => \E r \in asked[c] : record.unlockAt >= r + Wait
    /\ record.state = "released" => Waited(c)

RecordsTimely == \A c \in Contacts : Timely(c, rec[c])

HandlerTimely(h) ==
    /\ handler[h].pc = "update" => Timely(handler[h].contact, handler[h].copy)
    /\ handler[h].pc \in {"update", "notify"} /\ handler[h].op = "collect"
          => Waited(handler[h].contact)

HandlersTimely == \A h \in Handlers : HandlerTimely(h)

OnTime == TypeOK /\ RecordsTimely /\ HandlersTimely /\ NeverEarly

-----------------------------------------------------------------------------
LEMMA IdleIsCall == Idle \in Call /\ Idle.pc = "idle"
<1>1. (CHOOSE c \in Contacts : TRUE) \in Contacts
  BY ContactsAssumption
<1>2. QED
  BY <1>1 DEF Idle, Call, Operations, Record, Absent

\* A handler that goes on to its update is the same request with a new copy.
LEMMA ChangeEffect ==
    ASSUME TypeOK, NEW h \in Handlers, NEW s, NEW u, [state |-> s, unlockAt |-> u] \in Record,
           Change(h, s, u)
    PROVE  /\ handler' \in [Handlers -> Call]
           /\ handler'[h].pc = "update"
           /\ handler'[h].op = handler[h].op
           /\ handler'[h].contact = handler[h].contact
           /\ handler'[h].copy = [state |-> s, unlockAt |-> u]
           /\ \A g \in Handlers : g # h => handler'[g] = handler[g]
<1> DEFINE q == [handler[h] EXCEPT !.pc = "update", !.copy = [state |-> s, unlockAt |-> u]]
<1>1. handler' = [handler EXCEPT ![h] = q]
  BY DEF Change
<1>2. q \in Call
  BY DEF TypeOK, Call
<1>3. /\ q.pc = "update" /\ q.op = handler[h].op
      /\ q.contact = handler[h].contact /\ q.copy = [state |-> s, unlockAt |-> u]
  BY DEF TypeOK, Call
<1> HIDE DEF q
<1>4. QED
  BY <1>1, <1>2, <1>3 DEF TypeOK

\* A request under way is one of the three.
LEMMA UnsentIsOperations ==
    ASSUME TypeOK, NEW c \in Contacts
    PROVE  Unsent(c) \subseteq Operations
BY DEF Unsent, TypeOK, Call

\* Records, requests and histories keep their shape.
THEOREM TypeCorrect == Spec => []TypeOK
<1>1. Init => TypeOK
  BY IdleIsCall DEF Init, TypeOK, Record, Absent
<1>2. TypeOK /\ [Next]_vars => TypeOK'
  <2> SUFFICES ASSUME TypeOK, [Next]_vars PROVE TypeOK'
    OBVIOUS
  <2>0. \A h \in Handlers : handler[h] \in Call
    BY DEF TypeOK
  <2>1. ASSUME NEW c \in Contacts, Enroll(c) PROVE TypeOK'
    BY <2>1 DEF Enroll, TypeOK, Record, histories
  <2>2. ASSUME NEW h \in Handlers, NEW op \in Operations, NEW c \in Contacts,
               NEW genuine \in BOOLEAN, Receive(h, op, c, genuine)
        PROVE  TypeOK'
    BY <2>2 DEF Receive, TypeOK, Call, Record, Absent, histories
  <2>3. ASSUME NEW h \in Handlers, RequestAccess(h) PROVE TypeOK'
    <3>1. handler[h].contact \in Contacts
      BY <2>0 DEF Call
    <3>2. CASE handler[h].genuine /\ Starts(rec[handler[h].contact])
      <4>1. Deadline \in Nat
        BY WaitAssumption DEF Deadline, TypeOK
      <4>2. QED
        <5>1. [state |-> "pending", unlockAt |-> Deadline] \in Record
          BY <4>1 DEF Record
        <5>2. handler' \in [Handlers -> Call]
          BY <2>3, <3>2, <5>1, ChangeEffect DEF RequestAccess
        <5>3. asked' \in [Contacts -> SUBSET Nat] /\ UNCHANGED <<rec, now, crashes, told, unheard, refused, given>>
          BY <2>3, <3>1, <3>2 DEF RequestAccess, TypeOK
        <5>4. QED
          BY <5>2, <5>3 DEF TypeOK
    <3>3. CASE ~(handler[h].genuine /\ Starts(rec[handler[h].contact]))
      BY <2>3, <3>3, IdleIsCall DEF RequestAccess, Return, TypeOK
    <3>4. QED
      BY <3>2, <3>3
  <2>4. ASSUME NEW h \in Handlers, Deny(h) PROVE TypeOK'
    <3>1. handler' \in [Handlers -> Call]
      BY <2>4, IdleIsCall, ChangeEffect DEF Deny, Return, TypeOK, Record
    <3>2. QED
      BY <2>4, <3>1 DEF Deny, TypeOK, histories
  <2>5. ASSUME NEW h \in Handlers, Collect(h) PROVE TypeOK'
    <3>1. handler[h].contact \in Contacts /\ rec[handler[h].contact].unlockAt \in Nat
      BY <2>0 DEF Call, TypeOK, Record
    <3>2. handler' \in [Handlers -> Call]
      BY <2>5, <3>1, IdleIsCall, ChangeEffect DEF Collect, Return, TypeOK, Record
    <3>3. given' \in [Contacts -> SUBSET Nat]
      BY <2>5, <3>1 DEF Collect, TypeOK
    <3>4. QED
      BY <2>5, <3>2, <3>3 DEF Collect, TypeOK
  <2>6. ASSUME NEW h \in Handlers, UpdateContact(h) PROVE TypeOK'
    <3>1. handler[h].contact \in Contacts /\ handler[h].copy \in Record
      BY <2>0 DEF Call
    <3>2. QED
      BY <2>6, <3>1 DEF UpdateContact, TypeOK, Call, histories
  <2>7. ASSUME NEW h \in Handlers, Notify(h) PROVE TypeOK'
    <3>1. handler[h].contact \in Contacts /\ handler[h].op \in Operations
      BY <2>0 DEF Call
    <3>2. handler' \in [Handlers -> Call] /\ UNCHANGED <<rec, now, crashes, asked, unheard>>
      BY <2>7, IdleIsCall DEF Notify, Return, TypeOK
    <3>3. told' \in [Contacts -> SUBSET Operations]
      BY <2>7, <3>1 DEF Notify, TypeOK
    <3>4. refused' \in [Contacts -> BOOLEAN]
      BY <2>7, <3>1 DEF Notify, TypeOK
    <3>5. given' \in [Contacts -> SUBSET Nat]
      BY <2>7, <3>1 DEF Notify, TypeOK
    <3>6. QED
      BY <3>2, <3>3, <3>4, <3>5 DEF TypeOK
  <2>8. CASE Tick
    BY <2>8 DEF Tick, TypeOK, histories
  <2>9. CASE Crash
    <3>1. unheard' \in [Contacts -> SUBSET Operations]
      BY <2>9, UnsentIsOperations DEF Crash, TypeOK
    <3>2. QED
      BY <2>9, <3>1, IdleIsCall DEF Crash, TypeOK
  <2>10. CASE UNCHANGED vars
    BY <2>10 DEF vars, TypeOK
  <2>11. QED
    BY <2>1, <2>2, <2>3, <2>4, <2>5, <2>6, <2>7, <2>8, <2>9, <2>10 DEF Next, Step
<1>3. QED
  BY <1>1, <1>2, PTL DEF Spec

-----------------------------------------------------------------------------
(* The key never leaves early, for both storages. *)

\* Time and the genuine requests only grow.
Forward == now' >= now /\ \A c \in Contacts : asked[c] \subseteq asked'[c]

LEMMA StepsGoForward ==
    ASSUME TypeOK, [Next]_vars
    PROVE  Forward
<1>0. now \in Nat
  BY DEF TypeOK
<1>1. ASSUME NEW h \in Handlers, RequestAccess(h) PROVE Forward
  BY <1>0, <1>1 DEF RequestAccess, Forward, TypeOK
<1>2. ASSUME NEW h \in Handlers, Deny(h) \/ Collect(h) \/ UpdateContact(h) \/ Notify(h)
      PROVE  Forward
  BY <1>0, <1>2 DEF Deny, Collect, UpdateContact, Notify, Forward, histories
<1>3. ASSUME NEW h \in Handlers, NEW op \in Operations, NEW c \in Contacts,
             NEW genuine \in BOOLEAN, Receive(h, op, c, genuine)
      PROVE  Forward
  BY <1>0, <1>3 DEF Receive, Forward, histories
<1>4. ASSUME NEW c \in Contacts, Enroll(c) PROVE Forward
  BY <1>0, <1>4 DEF Enroll, Forward, histories
<1>5. CASE Tick \/ Crash \/ UNCHANGED vars
  BY <1>0, <1>5 DEF Tick, Crash, vars, Forward, histories
<1>6. QED
  BY <1>1, <1>2, <1>3, <1>4, <1>5 DEF Next, Step

LEMMA WaitedStays ==
    ASSUME TypeOK, TypeOK', Forward, NEW c \in Contacts, Waited(c)
    PROVE  \E r \in asked'[c] : now' >= r + Wait
<1>1. PICK r \in asked[c] : now >= r + Wait
  BY DEF Waited
<1>2. r \in Nat /\ now \in Nat /\ now' \in Nat /\ r \in asked'[c]
  BY DEF TypeOK, Forward
<1>3. now' >= r + Wait
  BY <1>1, <1>2, WaitAssumption DEF Forward
<1>4. QED
  BY <1>2, <1>3

LEMMA TimelyStays ==
    ASSUME TypeOK, TypeOK', Forward, NEW c \in Contacts, NEW k, Timely(c, k)
    PROVE  /\ k.state = "pending" => \E r \in asked'[c] : k.unlockAt >= r + Wait
           /\ k.state = "released" => \E r \in asked'[c] : now' >= r + Wait
<1>1. asked[c] \subseteq asked'[c]
  BY DEF Forward
<1>2. QED
  BY <1>1, WaitedStays DEF Timely

\* A record that is not written stays timely.
LEMMA RecordStaysTimely ==
    ASSUME TypeOK, TypeOK', Forward, NEW c \in Contacts, RecordsTimely, rec'[c] = rec[c]
    PROVE  Timely(c, rec[c])'
BY TimelyStays DEF RecordsTimely, Timely, Waited

\* So does a handler that takes no step, or ends.
LEMMA HandlerStaysTimely ==
    ASSUME TypeOK, TypeOK', Forward, NEW h \in Handlers, HandlerTimely(h),
           handler'[h] = handler[h] \/ handler'[h].pc \in {"idle", "get"}
    PROVE  HandlerTimely(h)'
<1>1. handler[h].contact \in Contacts
  BY DEF TypeOK, Call
<1>2. CASE handler'[h].pc \in {"idle", "get"}
  BY <1>2 DEF HandlerTimely
<1>3. CASE handler'[h] = handler[h]
  BY <1>1, <1>3, TimelyStays, WaitedStays DEF HandlerTimely, Timely, Waited
<1>4. QED
  BY <1>2, <1>3

\* What left the server in time stays so, and so does what leaves now.
GivesOnTime == \A c \in Contacts :
                  \/ given'[c] = given[c]
                  \/ given'[c] = given[c] \cup {now} /\ Waited(c)

LEMMA NothingGiven == UNCHANGED given => GivesOnTime
BY DEF GivesOnTime

LEMMA GivenStaysTimely ==
    ASSUME TypeOK, Forward, NeverEarly, GivesOnTime
    PROVE  NeverEarly'
<1> SUFFICES ASSUME NEW c \in Contacts, NEW t \in given'[c]
             PROVE  \E r \in asked'[c] : t >= r + Wait
  BY DEF NeverEarly
<1>1. asked[c] \subseteq asked'[c]
  BY DEF Forward
<1>2. CASE t \in given[c]
  BY <1>1, <1>2 DEF NeverEarly
<1>3. CASE t = now /\ Waited(c)
  BY <1>1, <1>3 DEF Waited
<1>4. QED
  BY <1>2, <1>3 DEF GivesOnTime

\* Steps that leave the records, or the key and all but ended handlers, alone.
LEMMA NothingStored ==
    ASSUME TypeOK, TypeOK', Forward, RecordsTimely, UNCHANGED rec
    PROVE  RecordsTimely'
<1>1. \A c \in Contacts : Timely(c, rec[c])'
  BY RecordStaysTimely
<1>2. QED
  BY <1>1 DEF RecordsTimely

LEMMA NothingRuns ==
    ASSUME TypeOK, TypeOK', Forward, HandlersTimely, NeverEarly, UNCHANGED given,
           \A h \in Handlers : handler'[h] = handler[h] \/ handler'[h].pc \in {"idle", "get"}
    PROVE  HandlersTimely' /\ NeverEarly'
<1>1. ASSUME NEW h \in Handlers PROVE HandlerTimely(h)'
  <2>1. HandlerTimely(h)
    BY DEF HandlersTimely
  <2>2. QED
    BY <2>1, HandlerStaysTimely
<1>2. NeverEarly'
  BY GivenStaysTimely, NothingGiven
<1>3. QED
  BY <1>1, <1>2 DEF HandlersTimely

LEMMA OneHandlerRuns ==
    ASSUME TypeOK, TypeOK', Forward, HandlersTimely, NEW h \in Handlers, HandlerTimely(h)',
           \A g \in Handlers : g # h => handler'[g] = handler[g]
    PROVE  HandlersTimely'
<1>1. ASSUME NEW g \in Handlers, g # h PROVE HandlerTimely(g)'
  <2>1. HandlerTimely(g) /\ handler'[g] = handler[g]
    BY <1>1 DEF HandlersTimely
  <2>2. QED
    BY <2>1, HandlerStaysTimely
<1>2. QED
  BY <1>1 DEF HandlersTimely

LEMMA ReturnRuns ==
    ASSUME TypeOK, TypeOK', Forward, HandlersTimely, NEW h \in Handlers, Return(h)
    PROVE  HandlersTimely'
<1>1. handler'[h].pc = "idle" /\ \A g \in Handlers : g # h => handler'[g] = handler[g]
  BY IdleIsCall DEF Return, TypeOK
<1>2. HandlerTimely(h)'
  BY <1>1 DEF HandlerTimely
<1>3. QED
  BY <1>1, <1>2, OneHandlerRuns

LEMMA Initially == Init => OnTime
<1>1. Init => TypeOK
  BY IdleIsCall DEF Init, TypeOK, Record, Absent
<1>2. QED
  BY <1>1, IdleIsCall DEF Init, OnTime, RecordsTimely, Timely, Absent, HandlersTimely,
                          HandlerTimely, NeverEarly

\* OnTime is inductive: one step per action, and under it what it disturbs.
THEOREM OnTimeInvariant == Spec => []OnTime
<1>1. Init => OnTime
  BY Initially
<1>2. OnTime /\ TypeOK' /\ [Next]_vars => OnTime'
  <2> SUFFICES ASSUME OnTime, TypeOK', [Next]_vars
               PROVE  RecordsTimely' /\ HandlersTimely' /\ NeverEarly'
    BY DEF OnTime
  <2>0. TypeOK /\ RecordsTimely /\ HandlersTimely /\ NeverEarly /\ Forward
    BY StepsGoForward DEF OnTime
  <2>1. ASSUME NEW c \in Contacts, Enroll(c)
        PROVE  RecordsTimely' /\ HandlersTimely' /\ NeverEarly'
    <3>1. \A d \in Contacts : Timely(d, rec[d])'
      BY <2>0, <2>1, RecordStaysTimely DEF Enroll, TypeOK, Timely
    <3>2. QED
      BY <2>0, <2>1, <3>1, NothingRuns DEF Enroll, histories, RecordsTimely
  <2>2. ASSUME NEW h \in Handlers, NEW op \in Operations, NEW c \in Contacts,
               NEW genuine \in BOOLEAN, Receive(h, op, c, genuine)
        PROVE  RecordsTimely' /\ HandlersTimely' /\ NeverEarly'
    BY <2>0, <2>2, NothingStored, NothingRuns DEF Receive, TypeOK, histories
  <2>3. ASSUME NEW h \in Handlers, RequestAccess(h)
        PROVE  RecordsTimely' /\ HandlersTimely' /\ NeverEarly'
    <3>1. CASE handler[h].genuine /\ Starts(rec[handler[h].contact])
      <4> DEFINE c == handler[h].contact
      <4>0. c \in Contacts
        BY <2>0 DEF TypeOK, Call
      <4>1. asked'[c] = asked[c] \cup {now} /\ UNCHANGED <<rec, now, given>>
        BY <2>0, <2>3, <3>1, <4>0 DEF RequestAccess, TypeOK
      <4>2. /\ handler'[h].op = "request" /\ handler'[h].contact = c
            /\ handler'[h].copy = [state |-> "pending", unlockAt |-> now + Wait]
            /\ \A g \in Handlers : g # h => handler'[g] = handler[g]
        <5>1. [state |-> "pending", unlockAt |-> Deadline] \in Record
          BY <2>0, WaitAssumption DEF Deadline, Record, TypeOK
        <5>2. QED
          BY <2>0, <2>3, <3>1, <5>1, ChangeEffect DEF RequestAccess, Deadline
      <4>3. HandlerTimely(h)'
        <5>1. now + Wait >= now + Wait
          BY <2>0, WaitAssumption DEF TypeOK
        <5>2. QED
          BY <4>1, <4>2, <5>1 DEF HandlerTimely, Timely
      <4>4. HandlersTimely'
        BY <2>0, <4>2, <4>3, OneHandlerRuns
      <4>5. QED
        BY <2>0, <4>1, <4>4, NothingStored, GivenStaysTimely, NothingGiven
    <3>2. CASE ~(handler[h].genuine /\ Starts(rec[handler[h].contact]))
      BY <2>0, <2>3, <3>2, NothingStored, ReturnRuns, GivenStaysTimely, NothingGiven DEF RequestAccess
    <3>3. QED
      BY <3>1, <3>2
  <2>4. ASSUME NEW h \in Handlers, Deny(h)
        PROVE  RecordsTimely' /\ HandlersTimely' /\ NeverEarly'
    <3>1. CASE Return(h)
      BY <2>0, <2>4, <3>1, NothingStored, ReturnRuns, GivenStaysTimely, NothingGiven DEF Deny, histories
    <3>2. CASE Change(h, "denied", 0)
      <4>1. HandlersTimely'
        <5>1. [state |-> "denied", unlockAt |-> 0] \in Record
          BY DEF Record
        <5>2. /\ handler'[h].op = "deny"
              /\ handler'[h].copy = [state |-> "denied", unlockAt |-> 0]
              /\ \A g \in Handlers : g # h => handler'[g] = handler[g]
          BY <2>0, <2>4, <3>2, <5>1, ChangeEffect DEF Deny
        <5>3. QED
          BY <2>0, <5>2, OneHandlerRuns DEF HandlerTimely, Timely
      <4>2. QED
        BY <2>0, <2>4, <4>1, NothingStored, GivenStaysTimely, NothingGiven DEF Deny, histories
    <3>3. QED
      BY <2>4, <3>1, <3>2 DEF Deny
  <2>5. ASSUME NEW h \in Handlers, Collect(h)
        PROVE  RecordsTimely' /\ HandlersTimely' /\ NeverEarly'
    <3> DEFINE c == handler[h].contact
    <3>0. c \in Contacts /\ rec[c] \in Record /\ UNCHANGED <<rec, now, asked>>
      BY <2>0, <2>5 DEF Collect, TypeOK, Call
    <3>1. Timely(c, rec[c])
      BY <2>0, <3>0 DEF RecordsTimely
    <3>2. CASE Releases(rec[c]) /\ Change(h, "released", rec[c].unlockAt) /\ UNCHANGED given
      <4>1. Waited(c)
        <5>1. PICK r \in asked[c] : rec[c].unlockAt >= r + Wait
          BY <3>1, <3>2 DEF Timely, Releases
        <5>2. r \in Nat /\ now \in Nat /\ rec[c].unlockAt \in Nat /\ now >= rec[c].unlockAt
          BY <2>0, <3>0, <3>2 DEF TypeOK, Releases, Record
        <5>3. QED
          BY <5>1, <5>2, WaitAssumption DEF Waited
      <4>2. HandlersTimely'
        <5>1. [state |-> "released", unlockAt |-> rec[c].unlockAt] \in Record
          BY <3>0 DEF Record
        <5>2. /\ handler'[h].contact = c
              /\ handler'[h].copy = [state |-> "released", unlockAt |-> rec[c].unlockAt]
              /\ \A g \in Handlers : g # h => handler'[g] = handler[g]
          BY <2>0, <3>2, <5>1, ChangeEffect
        <5>3. \E r \in asked'[c] : now' >= r + Wait
          BY <2>0, <3>0, <4>1, WaitedStays
        <5>4. HandlerTimely(h)'
          BY <5>2, <5>3 DEF HandlerTimely, Timely, Waited
        <5>5. QED
          BY <2>0, <5>2, <5>4, OneHandlerRuns
      <4>3. QED
        BY <2>0, <3>0, <3>2, <4>2, NothingStored, GivenStaysTimely, NothingGiven
    <3>3. CASE Hands(rec[c]) /\ Return(h) /\ given' = [given EXCEPT ![c] = @ \cup {now}]
      <4>1. Waited(c)
        BY <3>1, <3>3 DEF Timely, Hands
      <4>2. GivesOnTime
        BY <2>0, <3>0, <3>3, <4>1 DEF GivesOnTime, TypeOK
      <4>3. QED
        BY <2>0, <3>0, <3>3, <4>2, NothingStored, ReturnRuns, GivenStaysTimely, NothingGiven
    <3>4. CASE Return(h) /\ UNCHANGED given
      BY <2>0, <3>0, <3>4, NothingStored, ReturnRuns, GivenStaysTimely, NothingGiven
    <3>5. QED
      BY <2>5, <3>2, <3>3, <3>4 DEF Collect
  <2>6. ASSUME NEW h \in Handlers, UpdateContact(h)
        PROVE  RecordsTimely' /\ HandlersTimely' /\ NeverEarly'
    <3> DEFINE c == handler[h].contact
               k == handler[h].copy
    <3>0. c \in Contacts /\ k \in Record
      BY <2>0 DEF TypeOK, Call
    <3>1. HandlerTimely(h)
      BY <2>0 DEF HandlersTimely
    <3>2. /\ rec' = [rec EXCEPT ![c] = k]
          /\ handler' = [handler EXCEPT ![h].pc = "notify"]
          /\ UNCHANGED <<now, asked, given>>
      BY <2>6 DEF UpdateContact, histories
    <3>3. RecordsTimely'
      <4>1. ASSUME NEW d \in Contacts, d # c PROVE Timely(d, rec[d])'
        <5>1. rec'[d] = rec[d]
          BY <2>0, <3>2, <4>1 DEF TypeOK
        <5>2. QED
          BY <2>0, <5>1, RecordStaysTimely
      <4>2. rec'[c] = k
        BY <2>0, <3>0, <3>2 DEF TypeOK
      <4>3. Timely(c, k)
        BY <2>6, <3>1 DEF HandlerTimely, UpdateContact
      <4>4. /\ k.state = "pending" => \E r \in asked'[c] : k.unlockAt >= r + Wait
            /\ k.state = "released" => \E r \in asked'[c] : now' >= r + Wait
        BY <2>0, <3>0, <4>3, TimelyStays
      <4>5. ASSUME NEW d \in Contacts, d = c PROVE Timely(d, rec[d])'
        BY <4>2, <4>4, <4>5 DEF Timely, Waited
      <4>6. QED
        BY <4>1, <4>5 DEF RecordsTimely
    <3>4. HandlersTimely'
      <4>1. /\ handler'[h].pc = "notify" /\ handler'[h].op = handler[h].op
            /\ handler'[h].contact = c
            /\ \A g \in Handlers : g # h => handler'[g] = handler[g]
        BY <2>0, <3>2 DEF TypeOK, Call
      <4>2. handler[h].op = "collect" => \E r \in asked'[c] : now' >= r + Wait
        BY <2>0, <2>6, <3>0, <3>1, WaitedStays DEF HandlerTimely, UpdateContact
      <4>3. HandlerTimely(h)'
        BY <4>1, <4>2 DEF HandlerTimely, Waited
      <4>4. QED
        BY <2>0, <4>1, <4>3, OneHandlerRuns
    <3>5. QED
      BY <2>0, <3>2, <3>3, <3>4, GivenStaysTimely, NothingGiven
  <2>7. ASSUME NEW h \in Handlers, Notify(h)
        PROVE  RecordsTimely' /\ HandlersTimely' /\ NeverEarly'
    <3> DEFINE c == handler[h].contact
    <3>0. c \in Contacts /\ UNCHANGED rec /\ Return(h)
      BY <2>0, <2>7 DEF Notify, TypeOK, Call
    <3>1. GivesOnTime
      <4>1. handler[h].op = "collect" => Waited(c)
        BY <2>0, <2>7 DEF HandlersTimely, HandlerTimely, Notify
      <4>2. given' = [given EXCEPT ![c] = IF handler[h].op = "collect" THEN @ \cup {now} ELSE @]
        BY <2>7 DEF Notify
      <4>3. QED
        BY <2>0, <3>0, <4>1, <4>2 DEF TypeOK, GivesOnTime
    <3>2. QED
      BY <2>0, <3>0, <3>1, NothingStored, ReturnRuns, GivenStaysTimely, NothingGiven
  <2>8. CASE Tick \/ Crash \/ UNCHANGED vars
    BY <2>0, <2>8, NothingStored, NothingRuns, IdleIsCall DEF Tick, Crash, vars, TypeOK, histories
  <2>9. QED
    BY <2>1, <2>2, <2>3, <2>4, <2>5, <2>6, <2>7, <2>8 DEF Next, Step
<1>3. QED
  BY <1>1, <1>2, TypeCorrect, PTL DEF Spec

\* The key never leaves before the waiting period of a genuine request is over.
THEOREM KeyNeverEarly == Spec => []NeverEarly
<1>1. OnTime => NeverEarly
  BY DEF OnTime
<1>2. QED
  BY <1>1, OnTimeInvariant, PTL

-----------------------------------------------------------------------------
(* With the file store the handlers are atomic for each other. *)

Busy(h) == handler[h].pc \in {"update", "notify"}

OneBusy == \A g, h \in Handlers : Busy(g) /\ Busy(h) => g = h

\* The arrow of the diagram a request takes.
From(op) == IF op = "request" THEN "enrolled" ELSE "pending"
To(op) == IF op = "request" THEN "pending" ELSE IF op = "deny" THEN "denied" ELSE "released"

\* A handler about to write still finds the record it read, one that notifies
\* the record it wrote.
Current(h) ==
    LET c == handler[h].contact
        op == handler[h].op
        k == handler[h].copy IN
    /\ handler[h].pc = "update" =>
          /\ rec[c].state = From(op)
          /\ k.state = To(op)
          /\ op = "collect" => now >= rec[c].unlockAt
    /\ handler[h].pc = "notify" => rec[c].state = To(op)

AllCurrent == \A h \in Handlers : Current(h)

RefusedIsDenied == \A c \in Contacts : refused[c] => rec[c].state = "denied"

Settled == TypeOK /\ OneBusy /\ AllCurrent /\ RefusedIsDenied

\* Nobody but h is between a read and a return, so only h matters.
LEMMA OnlyBusy ==
    ASSUME TypeOK', NEW h \in Handlers,
           \A g \in Handlers : g # h => handler'[g].pc \notin {"update", "notify"},
           Current(h)'
    PROVE  OneBusy' /\ AllCurrent'
<1>1. OneBusy'
  BY DEF OneBusy, Busy
<1>2. ASSUME NEW g \in Handlers PROVE Current(g)'
  <2>1. CASE g = h
    BY <2>1
  <2>2. CASE g # h
    <3>1. handler'[g].pc # "update" /\ handler'[g].pc # "notify"
      BY <2>2
    <3>2. QED
      BY <3>1 DEF Current
  <2>3. QED
    BY <2>1, <2>2
<1>3. QED
  BY <1>1, <1>2 DEF AllCurrent

\* A handler that returns leaves the busy ones as they were.
LEMMA ReturnSettles ==
    ASSUME TypeOK, TypeOK', NEW h \in Handlers, OneBusy, AllCurrent, Return(h), UNCHANGED <<rec, now>>
    PROVE  OneBusy' /\ AllCurrent'
<1>1. handler'[h].pc = "idle" /\ \A g \in Handlers : g # h => handler'[g] = handler[g]
  BY IdleIsCall DEF Return, TypeOK
<1>2. OneBusy'
  BY <1>1 DEF OneBusy, Busy
<1>3. \A g \in Handlers : Current(g)'
  <2> SUFFICES ASSUME NEW g \in Handlers PROVE Current(g)'
    OBVIOUS
  <2>1. CASE g = h
    BY <1>1, <2>1 DEF Current
  <2>2. CASE g # h
    <3>1. Current(g) /\ handler'[g] = handler[g]
      BY <1>1, <2>2 DEF AllCurrent
    <3>2. QED
      BY <3>1 DEF Current
  <2>3. QED
    BY <2>1, <2>2
<1>4. QED
  BY <1>2, <1>3 DEF AllCurrent

\* With the file store a record changes along one arrow of the diagram at a time.
THEOREM SettledInvariant ==
    ASSUME Storage = "file"
    PROVE  Spec => []Settled
<1>1. Init => Settled
  <2> SUFFICES ASSUME Init PROVE Settled
    OBVIOUS
  <2>1. TypeOK
    BY Initially DEF OnTime
  <2>2. QED
    BY <2>1, IdleIsCall DEF Init, Settled, OneBusy, Busy, AllCurrent, Current, RefusedIsDenied
<1>2. Settled /\ TypeOK' /\ [Next]_vars => Settled'
  <2> SUFFICES ASSUME Settled, TypeOK', [Next]_vars
               PROVE  OneBusy' /\ AllCurrent' /\ RefusedIsDenied'
    BY DEF Settled
  <2>0. TypeOK /\ OneBusy /\ AllCurrent /\ RefusedIsDenied
    BY DEF Settled
  <2>1. ASSUME NEW c \in Contacts, Enroll(c)
        PROVE  OneBusy' /\ AllCurrent' /\ RefusedIsDenied'
    <3>1. /\ rec[c].state = "absent" /\ UNCHANGED <<handler, now, refused>>
          /\ \A d \in Contacts : d # c => rec'[d] = rec[d]
      BY <2>0, <2>1 DEF Enroll, histories, TypeOK
    <3>2. \A h \in Handlers : Current(h)'
      <4> SUFFICES ASSUME NEW h \in Handlers PROVE Current(h)'
        OBVIOUS
      <4>1. Current(h) /\ handler[h].contact \in Contacts
        BY <2>0 DEF AllCurrent, TypeOK, Call
      <4>2. handler[h].pc \in {"update", "notify"} => handler[h].contact # c
        BY <3>1, <4>1 DEF Current, From, To
      <4>3. QED
        BY <3>1, <4>1, <4>2 DEF Current
    <3>3. QED
      BY <2>0, <3>1, <3>2 DEF OneBusy, Busy, AllCurrent, RefusedIsDenied
  <2>2. ASSUME NEW h \in Handlers, NEW op \in Operations, NEW c \in Contacts,
               NEW genuine \in BOOLEAN, Receive(h, op, c, genuine)
        PROVE  OneBusy' /\ AllCurrent' /\ RefusedIsDenied'
    <3>1. /\ handler'[h].pc = "get" /\ UNCHANGED <<rec, now, refused>>
          /\ \A g \in Handlers : g # h => handler'[g] = handler[g]
      BY <2>0, <2>2 DEF Receive, histories, TypeOK
    <3>2. OneBusy' /\ RefusedIsDenied'
      BY <2>0, <3>1 DEF OneBusy, Busy, RefusedIsDenied
    <3>3. \A g \in Handlers : Current(g)'
      <4> SUFFICES ASSUME NEW g \in Handlers PROVE Current(g)'
        OBVIOUS
      <4>1. CASE g = h
        BY <3>1, <4>1 DEF Current
      <4>2. CASE g # h
        <5>1. Current(g) /\ handler'[g] = handler[g]
          BY <2>0, <3>1, <4>2 DEF AllCurrent
        <5>2. QED
          BY <3>1, <5>1 DEF Current
      <4>3. QED
        BY <4>1, <4>2
    <3>4. QED
      BY <3>2, <3>3 DEF AllCurrent
  <2>3. ASSUME NEW h \in Handlers, RequestAccess(h) \/ Deny(h) \/ Collect(h)
        PROVE  OneBusy' /\ AllCurrent' /\ RefusedIsDenied'
    <3> DEFINE c == handler[h].contact
               op == handler[h].op
    <3>1. UNCHANGED <<rec, now, refused>> /\ c \in Contacts /\ rec[c] \in Record
      BY <2>0, <2>3 DEF RequestAccess, Deny, Collect, histories, TypeOK, Call
    <3>2. RefusedIsDenied'
      BY <2>0, <3>1 DEF RefusedIsDenied
    <3>3. CASE Return(h)
      BY <2>0, <3>1, <3>2, <3>3, ReturnSettles
    <3>4. ASSUME NEW s, NEW u, [state |-> s, unlockAt |-> u] \in Record, Change(h, s, u),
                 s = To(op), rec[c].state = From(op), op = "collect" => now >= rec[c].unlockAt
          PROVE  OneBusy' /\ AllCurrent' /\ RefusedIsDenied'
      <4>1. /\ handler'[h].pc = "update" /\ handler'[h].op = op /\ handler'[h].contact = c
            /\ handler'[h].copy = [state |-> s, unlockAt |-> u]
            /\ \A g \in Handlers : g # h => handler'[g] = handler[g]
        BY <2>0, <3>4, ChangeEffect
      <4>2. \A g \in Handlers : g # h => handler'[g].pc \notin {"update", "notify"}
        BY <2>3, <4>1 DEF RequestAccess, Deny, Collect, MayRun
      <4>3. Current(h)'
        BY <3>1, <3>4, <4>1 DEF Current
      <4>4. QED
        BY <3>2, <4>2, <4>3, OnlyBusy
    <3>5. CASE RequestAccess(h)
      <4>1. [state |-> "pending", unlockAt |-> Deadline] \in Record
        BY <2>0, WaitAssumption DEF Deadline, Record, TypeOK
      <4>2. QED
        BY <3>3, <3>4, <3>5, <4>1 DEF RequestAccess, Starts, To, From
    <3>6. CASE Deny(h)
      <4>1. [state |-> "denied", unlockAt |-> 0] \in Record
        BY DEF Record
      <4>2. QED
        BY <3>3, <3>4, <3>6, <4>1 DEF Deny, Cancels, To, From
    <3>7. CASE Collect(h)
      <4>1. [state |-> "released", unlockAt |-> rec[c].unlockAt] \in Record
        BY <3>1 DEF Record
      <4>2. QED
        BY <3>3, <3>4, <3>7, <4>1 DEF Collect, Releases, To, From
    <3>8. QED
      BY <2>3, <3>5, <3>6, <3>7
  <2>4. ASSUME NEW h \in Handlers, UpdateContact(h)
        PROVE  OneBusy' /\ AllCurrent' /\ RefusedIsDenied'
    <3> DEFINE c == handler[h].contact
    <3>1. /\ c \in Contacts /\ handler[h].copy \in Record /\ UNCHANGED <<now, refused>>
          /\ rec'[c] = handler[h].copy /\ \A d \in Contacts : d # c => rec'[d] = rec[d]
      BY <2>0, <2>4 DEF UpdateContact, histories, TypeOK, Call
    <3>2. /\ handler'[h].pc = "notify" /\ handler'[h].op = handler[h].op
          /\ handler'[h].contact = c
          /\ \A g \in Handlers : g # h => handler'[g] = handler[g]
      BY <2>0, <2>4 DEF UpdateContact, TypeOK, Call
    <3>3. rec[c].state = From(handler[h].op) /\ handler[h].copy.state = To(handler[h].op)
      BY <2>0, <2>4 DEF UpdateContact, AllCurrent, Current
    <3>4. \A g \in Handlers : g # h => handler'[g].pc \notin {"update", "notify"}
      BY <2>0, <2>4, <3>2 DEF UpdateContact, OneBusy, Busy
    <3>5. Current(h)'
      BY <3>1, <3>2, <3>3 DEF Current
    <3>6. RefusedIsDenied'
      BY <2>0, <3>1, <3>3 DEF RefusedIsDenied, From
    <3>7. QED
      BY <3>4, <3>5, <3>6, OnlyBusy
  <2>5. ASSUME NEW h \in Handlers, Notify(h)
        PROVE  OneBusy' /\ AllCurrent' /\ RefusedIsDenied'
    <3> DEFINE c == handler[h].contact
    <3>1. c \in Contacts /\ Return(h) /\ UNCHANGED <<rec, now>>
      BY <2>0, <2>5 DEF Notify, TypeOK, Call
    <3>2. rec[c].state = To(handler[h].op)
      BY <2>0, <2>5 DEF Notify, AllCurrent, Current
    <3>3. ASSUME NEW d \in Contacts, refused'[d] PROVE rec'[d].state = "denied"
      <4>1. CASE refused[d]
        BY <2>0, <3>1, <4>1 DEF RefusedIsDenied
      <4>2. CASE ~refused[d]
        <5>1. d = c /\ handler[h].op = "deny"
          BY <2>0, <2>5, <3>1, <3>3, <4>2 DEF Notify, TypeOK
        <5>2. QED
          BY <3>1, <3>2, <5>1 DEF To
      <4>3. QED
        BY <4>1, <4>2
    <3>4. QED
      BY <2>0, <3>1, <3>3, ReturnSettles DEF RefusedIsDenied
  <2>6. CASE Tick
    <3>1. UNCHANGED <<rec, handler, refused>> /\ now \in Nat /\ now' = now + 1
      BY <2>0, <2>6 DEF Tick, histories, TypeOK
    <3>2. ASSUME NEW h \in Handlers PROVE Current(h)'
      <4>1. Current(h) /\ rec[handler[h].contact].unlockAt \in Nat
        BY <2>0 DEF AllCurrent, TypeOK, Call, Record
      <4>2. QED
        BY <3>1, <4>1 DEF Current
    <3>3. QED
      BY <2>0, <3>1, <3>2 DEF OneBusy, Busy, AllCurrent, RefusedIsDenied
  <2>7. CASE Crash
    BY <2>0, <2>7, IdleIsCall DEF Crash, OneBusy, Busy, AllCurrent, Current, RefusedIsDenied
  <2>8. CASE UNCHANGED vars
    BY <2>0, <2>8 DEF vars, OneBusy, Busy, AllCurrent, Current, RefusedIsDenied
  <2>9. QED
    BY <2>1, <2>2, <2>3, <2>4, <2>5, <2>6, <2>7, <2>8 DEF Next, Step
<1>3. QED
  BY <1>1, <1>2, TypeCorrect, PTL DEF Spec

\* What a step can make of a record: nothing, an enrolment, or one arrow.
LEMMA RecordStep ==
    ASSUME Settled, [Next]_vars, NEW c \in Contacts, rec'[c] # rec[c]
    PROVE  \/ rec[c].state = "absent"
           \/ \E h \in Handlers : /\ UpdateContact(h) /\ handler[h].contact = c
                                  /\ rec[c].state = From(handler[h].op)
                                  /\ rec'[c].state = To(handler[h].op)
<1>1. CASE \E d \in Contacts : Enroll(d)
  BY <1>1 DEF Enroll, Settled, TypeOK
<1>2. CASE \E h \in Handlers : UpdateContact(h)
  <2>1. PICK h \in Handlers : UpdateContact(h)
    BY <1>2
  <2>2. handler[h].contact = c /\ rec'[c] = handler[h].copy
    BY <2>1 DEF UpdateContact, Settled, TypeOK, Call
  <2>3. Current(h)
    BY DEF Settled, AllCurrent
  <2>4. QED
    BY <2>1, <2>2, <2>3 DEF Current, UpdateContact
<1>3. QED
  BY <1>1, <1>2 DEF Next, Step, vars, histories, Receive, RequestAccess, Deny, Collect, Notify, Tick, Crash

\* An owner's denial is permanent.
THEOREM DenialIsPermanent ==
    ASSUME Storage = "file"
    PROVE  Spec => DenialPermanent
<1> DEFINE Final == \A c \in Contacts : rec[c].state = "denied" => rec'[c].state = "denied"
<1>1. Settled /\ [Next]_vars => [Final]_vars
  <2> SUFFICES ASSUME Settled, [Next]_vars, NEW c \in Contacts, rec[c].state = "denied"
               PROVE  rec'[c].state = "denied"
    OBVIOUS
  <2>1. QED
    BY RecordStep DEF From
<1>2. QED
  BY <1>1, SettledInvariant, PTL DEF DenialPermanent, Spec

\* A running timer is never moved.
THEOREM TimerIsFixed ==
    ASSUME Storage = "file"
    PROVE  Spec => TimerFixed
<1> DEFINE Fixed == \A c \in Contacts : rec[c].state = "pending" /\ rec'[c].state = "pending"
                       => rec'[c].unlockAt = rec[c].unlockAt
<1>1. Settled /\ [Next]_vars => [Fixed]_vars
  <2> SUFFICES ASSUME Settled, [Next]_vars, NEW c \in Contacts,
                      rec[c].state = "pending", rec'[c].state = "pending"
               PROVE  rec'[c].unlockAt = rec[c].unlockAt
    OBVIOUS
  <2>1. QED
    BY RecordStep DEF From, To
<1>2. QED
  BY <1>1, SettledInvariant, PTL DEF TimerFixed, Spec

\* The key never leaves once the owner knows that access was denied.
THEOREM DenialKeepsKey ==
    ASSUME Storage = "file"
    PROVE  Spec => NoKeyAfterDenial
<1> DEFINE Kept == \A c \in Contacts : refused[c] => given'[c] = given[c]
<1>1. Settled /\ [Next]_vars => [Kept]_vars
  <2> SUFFICES ASSUME Settled, Next, NEW c \in Contacts, refused[c]
               PROVE  given'[c] = given[c]
    BY DEF vars
  <2>0. rec[c].state = "denied" /\ given \in [Contacts -> SUBSET Nat]
    BY DEF Settled, RefusedIsDenied, TypeOK
  <2>1. ASSUME NEW h \in Handlers, Collect(h) PROVE given'[c] = given[c]
    BY <2>0, <2>1 DEF Collect, Hands
  <2>2. ASSUME NEW h \in Handlers, Notify(h) PROVE given'[c] = given[c]
    <3>1. handler[h].contact = c => handler[h].op # "collect"
      BY <2>0, <2>2 DEF Notify, Settled, AllCurrent, Current, To
    <3>2. given' = [given EXCEPT ![handler[h].contact] =
                        IF handler[h].op = "collect" THEN @ \cup {now} ELSE @]
      BY <2>2 DEF Notify
    <3>3. QED
      BY <2>0, <3>1, <3>2
  <2>3. CASE UNCHANGED given
    BY <2>3
  <2>4. QED
    BY <2>1, <2>2, <2>3 DEF Next, Step, histories, Enroll, Receive, RequestAccess, Deny,
                            UpdateContact, Tick, Crash
<1>2. QED
  BY <1>1, SettledInvariant, PTL DEF NoKeyAfterDenial, Spec

-----------------------------------------------------------------------------
(* With the file store the owner is told before the key leaves. *)

\* What the owner has been told about c, or would have been but for a crash.
Heard(c) == told[c] \cup unheard[c]

\* A stored transition has been told, or the request that stored it is about to.
RecordsHeard ==
    \A c \in Contacts :
        /\ rec[c].state \in {"pending", "released"} => "request" \in Heard(c) \cup Unsent(c)
        /\ rec[c].state = "released" => /\ "request" \in Heard(c)
                                        /\ "collect" \in Heard(c) \cup Unsent(c)

\* No release is under way before the owner has heard of the request.
CollectorHeard(h) ==
    Busy(h) /\ handler[h].op = "collect" => "request" \in Heard(handler[h].contact)

CollectorsHeard == \A h \in Handlers : CollectorHeard(h)

Announced == RecordsHeard /\ CollectorsHeard /\ OwnerToldFirst

\* Nothing the owner has heard is taken back, and nothing under way is lost.
KeepsHearing == \A c \in Contacts :
                   /\ Heard(c) \subseteq Heard(c)'
                   /\ Heard(c) \cup Unsent(c) \subseteq (Heard(c) \cup Unsent(c))'

\* A returning handler was about to tell its own transition, if any.
LEMMA ReturnHears ==
    ASSUME TypeOK, NEW h \in Handlers, Return(h), NEW c \in Contacts
    PROVE  \A op \in Unsent(c) : \/ op \in Unsent(c)'
                                 \/ /\ handler[h].pc = "notify"
                                    /\ op = handler[h].op /\ c = handler[h].contact
<1>1. \A g \in Handlers : g # h => handler'[g] = handler[g]
  BY DEF Return, TypeOK
<1>2. QED
  BY <1>1 DEF Unsent

\* No notification is ever lost from the books: it is told, or died with the process.
LEMMA StepsKeepHearing ==
    ASSUME TypeOK, [Next]_vars
    PROVE  KeepsHearing
<1> SUFFICES ASSUME NEW c \in Contacts
             PROVE  /\ Heard(c) \subseteq Heard(c)'
                    /\ Heard(c) \cup Unsent(c) \subseteq (Heard(c) \cup Unsent(c))'
  BY DEF KeepsHearing
<1>1. ASSUME UNCHANGED <<told, unheard>>,
             \A h \in Handlers : \/ handler'[h] = handler[h]
                                 \/ handler[h].pc # "notify" /\ handler'[h].pc # "notify"
      PROVE  Heard(c)' = Heard(c) /\ Unsent(c)' = Unsent(c)
  <2>1. Unsent(c)' = Unsent(c)
    BY <1>1 DEF Unsent
  <2>2. QED
    BY <1>1, <2>1 DEF Heard
<1>2. ASSUME NEW h \in Handlers, RequestAccess(h) \/ Deny(h) \/ Collect(h)
      PROVE  Heard(c)' = Heard(c) /\ Unsent(c)' = Unsent(c)
  <2>1. UNCHANGED <<told, unheard>> /\ handler[h].pc = "get"
    BY <1>2 DEF RequestAccess, Deny, Collect, histories
  <2>2. handler'[h].pc # "notify" /\ \A g \in Handlers : g # h => handler'[g] = handler[g]
    <3>1. CASE Return(h)
      BY <3>1, IdleIsCall DEF Return, TypeOK
    <3>2. CASE \E s, u : Change(h, s, u)
      BY <3>2 DEF Change, TypeOK, Call
    <3>3. QED
      BY <1>2, <3>1, <3>2 DEF RequestAccess, Deny, Collect
  <2>3. QED
    BY <1>1, <2>1, <2>2
<1>3. ASSUME NEW h \in Handlers, UpdateContact(h)
      PROVE  Heard(c)' = Heard(c) /\ Unsent(c) \subseteq Unsent(c)'
  <2>1. /\ handler[h].pc = "update"
        /\ \A g \in Handlers : g # h => handler'[g] = handler[g]
    BY <1>3 DEF UpdateContact, TypeOK
  <2>2. QED
    BY <1>3, <2>1 DEF UpdateContact, histories, Heard, Unsent
<1>4. ASSUME NEW h \in Handlers, Notify(h)
      PROVE  /\ Heard(c) \subseteq Heard(c)'
             /\ Heard(c) \cup Unsent(c) \subseteq (Heard(c) \cup Unsent(c))'
  <2>1. /\ told' = [told EXCEPT ![handler[h].contact] = @ \cup {handler[h].op}]
        /\ UNCHANGED unheard /\ Return(h)
    BY <1>4 DEF Notify
  <2>2. Heard(c) \subseteq Heard(c)' /\ (c = handler[h].contact => handler[h].op \in Heard(c)')
    BY <2>1 DEF Heard, TypeOK
  <2>3. QED
    BY <2>1, <2>2, ReturnHears
<1>5. CASE Crash
  BY <1>5 DEF Crash, Heard, TypeOK
<1>6. ASSUME NEW h \in Handlers, NEW op \in Operations, NEW d \in Contacts,
             NEW genuine \in BOOLEAN, Receive(h, op, d, genuine)
      PROVE  Heard(c)' = Heard(c) /\ Unsent(c)' = Unsent(c)
  BY <1>1, <1>6 DEF Receive, histories, TypeOK
<1>7. ASSUME UNCHANGED handler, UNCHANGED histories
      PROVE  Heard(c)' = Heard(c) /\ Unsent(c)' = Unsent(c)
  BY <1>1, <1>7 DEF histories
<1>8. QED
  BY <1>2, <1>3, <1>4, <1>5, <1>6, <1>7 DEF Next, Step, vars, histories, Enroll, Tick

\* With nobody about to notify, all there is to hear has been heard.
LEMMA AllIsHeard ==
    ASSUME \A g \in Handlers : handler[g].pc # "notify", NEW c \in Contacts
    PROVE  Unsent(c) = {}
BY DEF Unsent

\* A release under way still knows its owner has heard, unless it began just now.
LEMMA CollectorStaysHeard ==
    ASSUME TypeOK, KeepsHearing, NEW h \in Handlers, CollectorHeard(h),
           \/ handler'[h].pc \in {"idle", "get"}
           \/ Busy(h) /\ handler'[h].op = handler[h].op /\ handler'[h].contact = handler[h].contact
    PROVE  CollectorHeard(h)'
<1>1. handler[h].contact \in Contacts
  BY DEF TypeOK, Call
<1>2. CASE handler'[h].pc \in {"idle", "get"}
  BY <1>2 DEF CollectorHeard, Busy
<1>3. CASE Busy(h) /\ handler'[h].op = handler[h].op /\ handler'[h].contact = handler[h].contact
  BY <1>1, <1>3 DEF CollectorHeard, KeepsHearing, Heard
<1>4. QED
  BY <1>2, <1>3

\* Records that are as they were are as well announced as they were.
LEMMA RecordStaysHeard ==
    ASSUME KeepsHearing, RecordsHeard, NEW c \in Contacts, rec'[c].state = rec[c].state
    PROVE  /\ rec'[c].state \in {"pending", "released"} => "request" \in (Heard(c) \cup Unsent(c))'
           /\ rec'[c].state = "released" => /\ "request" \in Heard(c)'
                                            /\ "collect" \in (Heard(c) \cup Unsent(c))'
BY DEF KeepsHearing, RecordsHeard

\* Where no key leaves, the owner has heard what there was to hear before.
LEMMA KeyStaysHeard ==
    ASSUME KeepsHearing, OwnerToldFirst, NEW c \in Contacts, given'[c] = given[c]
    PROVE  given'[c] # {} => {"request", "collect"} \subseteq (told[c] \cup unheard[c])'
BY DEF KeepsHearing, OwnerToldFirst, Heard

\* Announced is inductive on top of Settled: one step per action that stores a
\* transition, tells of it or lets the key go.
THEOREM OwnerIsToldFirst ==
    ASSUME Storage = "file"
    PROVE  Spec => []OwnerToldFirst
<1>1. Init => Announced
  BY IdleIsCall DEF Init, Announced, RecordsHeard, CollectorsHeard, CollectorHeard, Busy,
                    OwnerToldFirst, Absent
<1>2. Announced /\ Settled /\ TypeOK' /\ [Next]_vars => Announced'
  <2> SUFFICES ASSUME Announced, Settled, TypeOK', [Next]_vars PROVE Announced'
    OBVIOUS
  <2>0. /\ RecordsHeard /\ CollectorsHeard /\ OwnerToldFirst /\ KeepsHearing
        /\ TypeOK /\ OneBusy /\ AllCurrent
    BY StepsKeepHearing DEF Announced, Settled
  <2>1. ASSUME \A c \in Contacts : rec'[c].state = rec[c].state PROVE RecordsHeard'
    BY <2>0, <2>1, RecordStaysHeard DEF RecordsHeard
  <2>2. ASSUME \A h \in Handlers : handler'[h] = handler[h] \/ handler'[h].pc \in {"idle", "get"}
        PROVE  CollectorsHeard'
    <3>1. ASSUME NEW h \in Handlers PROVE CollectorHeard(h)'
      <4>1. CollectorHeard(h)
        BY <2>0 DEF CollectorsHeard
      <4>2. CASE Busy(h) \/ handler'[h].pc \in {"idle", "get"}
        BY <2>0, <2>2, <4>1, <4>2, CollectorStaysHeard
      <4>3. CASE ~Busy(h) /\ handler'[h] = handler[h]
        BY <4>3 DEF CollectorHeard, Busy
      <4>4. QED
        BY <2>2, <4>2, <4>3
    <3>2. QED
      BY <3>1 DEF CollectorsHeard
  <2>3. ASSUME UNCHANGED given PROVE OwnerToldFirst'
    BY <2>0, <2>3, KeyStaysHeard DEF OwnerToldFirst
  <2>4. ASSUME NEW c \in Contacts, Enroll(c) PROVE Announced'
    <3>1. UNCHANGED <<handler, given>>
      BY <2>4 DEF Enroll, histories
    <3>2. rec'[c].state = "enrolled" /\ \A d \in Contacts : d # c => rec'[d] = rec[d]
      BY <2>0, <2>4 DEF Enroll, TypeOK, Record
    <3>3. RecordsHeard'
      BY <2>0, <3>2, RecordStaysHeard DEF RecordsHeard
    <3>4. QED
      BY <2>2, <2>3, <3>1, <3>3 DEF Announced
  <2>5. ASSUME NEW h \in Handlers, RequestAccess(h) \/ Deny(h) PROVE Announced'
    <3>1. UNCHANGED <<rec, given>>
      BY <2>5 DEF RequestAccess, Deny, histories
    <3>2. CASE Return(h)
      <4>1. \A g \in Handlers : handler'[g] = handler[g] \/ handler'[g].pc \in {"idle", "get"}
        BY <2>0, <3>2, IdleIsCall DEF Return, TypeOK
      <4>2. QED
        BY <2>1, <2>2, <2>3, <3>1, <4>1 DEF Announced
    <3>3. ASSUME NEW s, NEW u, Change(h, s, u) PROVE Announced'
      <4>1. /\ handler'[h].op # "collect"
            /\ \A g \in Handlers : g # h => handler'[g] = handler[g]
        BY <2>0, <2>5, <3>3 DEF RequestAccess, Deny, Change, TypeOK, Call
      <4>2. ASSUME NEW g \in Handlers PROVE CollectorHeard(g)'
        <5>1. CASE g = h
          BY <4>1, <5>1 DEF CollectorHeard
        <5>2. CASE g # h
          BY <2>0, <4>1, <5>2, CollectorStaysHeard DEF CollectorsHeard, CollectorHeard, Busy
        <5>3. QED
          BY <5>1, <5>2
      <4>3. CollectorsHeard'
        BY <4>2 DEF CollectorsHeard
      <4>4. QED
        BY <2>1, <2>3, <3>1, <4>3 DEF Announced
    <3>4. QED
      BY <2>5, <3>2, <3>3 DEF RequestAccess, Deny
  <2>6. ASSUME NEW h \in Handlers, Collect(h) PROVE Announced'
    <3>a. PICK c \in Contacts : c = handler[h].contact
      BY <2>0 DEF TypeOK, Call
    <3>0. UNCHANGED rec
      BY <2>6 DEF Collect
    \* Nobody is about to notify: all that was stored has been heard.
    <3>1. \A g \in Handlers : handler[g].pc # "notify"
      BY <2>6 DEF Collect, MayRun
    <3>2. CASE Releases(rec[c]) /\ Change(h, "released", rec[c].unlockAt) /\ UNCHANGED given
      <4>1. "request" \in Heard(c)
        BY <2>0, <3>1, <3>2, AllIsHeard DEF RecordsHeard, Releases
      <4>2. /\ handler'[h].contact = c
            /\ \A g \in Handlers : g # h => handler'[g] = handler[g]
        BY <2>0, <3>a, <3>2 DEF Change, TypeOK, Call
      <4>3. ASSUME NEW g \in Handlers PROVE CollectorHeard(g)'
        <5>1. CASE g = h
          BY <2>0, <4>1, <4>2, <5>1 DEF CollectorHeard, KeepsHearing
        <5>2. CASE g # h
          BY <2>0, <4>2, <5>2, CollectorStaysHeard DEF CollectorsHeard, CollectorHeard, Busy
        <5>3. QED
          BY <5>1, <5>2
      <4>4. CollectorsHeard'
        BY <4>3 DEF CollectorsHeard
      <4>5. QED
        BY <2>1, <2>3, <3>0, <3>2, <4>4 DEF Announced
    <3>3. CASE Return(h) /\ (Hands(rec[c]) \/ UNCHANGED given)
      <4>1. \A g \in Handlers : handler'[g] = handler[g] \/ handler'[g].pc \in {"idle", "get"}
        BY <2>0, <3>3, IdleIsCall DEF Return, TypeOK
      <4>2. ASSUME NEW d \in Contacts
            PROVE  given'[d] # {} => {"request", "collect"} \subseteq (told[d] \cup unheard[d])'
        <5>1. CASE given'[d] = given[d]
          BY <2>0, <5>1, KeyStaysHeard
        <5>2. CASE d = c /\ Hands(rec[c])
          <6>1. {"request", "collect"} \subseteq Heard(d)
            BY <2>0, <3>1, <5>2, AllIsHeard DEF RecordsHeard, Hands
          <6>2. QED
            BY <2>0, <6>1 DEF KeepsHearing, Heard
        <5>3. d = c \/ given'[d] = given[d]
          BY <2>0, <2>6, <3>a DEF Collect, TypeOK
        <5>4. QED
          BY <3>3, <5>1, <5>2, <5>3
      <4>3. QED
        BY <2>1, <2>2, <3>0, <4>1, <4>2 DEF Announced, OwnerToldFirst
    <3>4. QED
      BY <2>6, <3>a, <3>2, <3>3 DEF Collect
  <2>7. ASSUME NEW h \in Handlers, UpdateContact(h) PROVE Announced'
    <3>a. PICK c \in Contacts, op \in Operations : c = handler[h].contact /\ op = handler[h].op
      BY <2>0 DEF TypeOK, Call
    <3>0. UNCHANGED given
      BY <2>7 DEF UpdateContact, histories
    <3>1. rec'[c].state = To(op) /\ \A d \in Contacts : d # c => rec'[d] = rec[d]
      BY <2>0, <2>7, <3>a DEF UpdateContact, TypeOK, AllCurrent, Current
    <3>2. /\ handler'[h].pc = "notify" /\ handler'[h].op = op /\ handler'[h].contact = c
          /\ \A g \in Handlers : g # h => handler'[g] = handler[g]
      BY <2>0, <2>7, <3>a DEF UpdateContact, TypeOK, Call
    <3>3. op \in Unsent(c)'
      BY <3>2 DEF Unsent
    <3>4. op = "collect" => "request" \in Heard(c)'
      BY <2>0, <2>7, <3>a DEF UpdateContact, CollectorsHeard, CollectorHeard, Busy, KeepsHearing
    <3>5. RecordsHeard'
      <4>1. ASSUME NEW d \in Contacts
            PROVE  /\ rec'[d].state \in {"pending", "released"} => "request" \in (Heard(d) \cup Unsent(d))'
                   /\ rec'[d].state = "released" => /\ "request" \in Heard(d)'
                                                    /\ "collect" \in (Heard(d) \cup Unsent(d))'
        <5>1. CASE d = c
          BY <3>1, <3>3, <3>4, <5>1 DEF To, Operations
        <5>2. CASE d # c
          BY <2>0, <3>1, <5>2, RecordStaysHeard
        <5>3. QED
          BY <5>1, <5>2
      <4>2. QED
        BY <4>1 DEF RecordsHeard
    <3>6. ASSUME NEW g \in Handlers PROVE CollectorHeard(g)'
      <4>1. CASE g = h
        BY <2>0, <2>7, <3>a, <3>2, <4>1, CollectorStaysHeard DEF UpdateContact, CollectorsHeard, Busy
      <4>2. CASE g # h
        BY <2>0, <3>2, <4>2, CollectorStaysHeard DEF CollectorsHeard, CollectorHeard, Busy
      <4>3. QED
        BY <4>1, <4>2
    <3>7. CollectorsHeard'
      BY <3>6 DEF CollectorsHeard
    <3>8. QED
      BY <2>3, <3>0, <3>5, <3>7 DEF Announced
  <2>8. ASSUME NEW h \in Handlers, Notify(h) PROVE Announced'
    <3>a. PICK c \in Contacts, op \in Operations : c = handler[h].contact /\ op = handler[h].op
      BY <2>0 DEF TypeOK, Call
    <3>0. UNCHANGED rec /\ Return(h)
      BY <2>8 DEF Notify
    <3>1. \A g \in Handlers : handler'[g] = handler[g] \/ handler'[g].pc \in {"idle", "get"}
      BY <2>0, <3>0, IdleIsCall DEF Return, TypeOK
    <3>2. op \in Heard(c)' /\ (op = "collect" => "request" \in Heard(c)')
      <4>1. op \in Heard(c)'
        BY <2>0, <2>8, <3>a DEF Notify, TypeOK, Heard
      <4>2. op = "collect" => "request" \in Heard(c)
        BY <2>0, <2>8, <3>a DEF Notify, CollectorsHeard, CollectorHeard, Busy
      <4>3. QED
        BY <2>0, <4>1, <4>2 DEF KeepsHearing
    <3>3. ASSUME NEW d \in Contacts
          PROVE  given'[d] # {} => {"request", "collect"} \subseteq (told[d] \cup unheard[d])'
      <4>1. CASE given'[d] = given[d]
        BY <2>0, <4>1, KeyStaysHeard
      <4>2. given' = [given EXCEPT ![c] = IF op = "collect" THEN @ \cup {now} ELSE @]
        BY <2>8, <3>a DEF Notify
      <4>3. CASE d = c /\ op = "collect"
        BY <3>2, <4>3 DEF Heard
      <4>4. QED
        BY <2>0, <4>1, <4>2, <4>3 DEF TypeOK
    <3>4. QED
      BY <2>1, <2>2, <3>0, <3>1, <3>3 DEF Announced, OwnerToldFirst
  <2>9. CASE Tick \/ Crash \/ UNCHANGED vars
    <3>1. UNCHANGED <<rec, given>>
      BY <2>9 DEF Tick, Crash, vars, histories
    <3>2. \A h \in Handlers : handler'[h] = handler[h] \/ handler'[h].pc \in {"idle", "get"}
      BY <2>9, IdleIsCall DEF Tick, Crash, vars
    <3>3. QED
      BY <2>1, <2>2, <2>3, <3>1, <3>2 DEF Announced
  <2>10. ASSUME NEW h \in Handlers, NEW op \in Operations, NEW c \in Contacts,
                NEW genuine \in BOOLEAN, Receive(h, op, c, genuine)
         PROVE  Announced'
    <3>1. UNCHANGED <<rec, given>>
      BY <2>10 DEF Receive, histories
    <3>2. \A g \in Handlers : handler'[g] = handler[g] \/ handler'[g].pc \in {"idle", "get"}
      BY <2>0, <2>10 DEF Receive, TypeOK
    <3>3. QED
      BY <2>1, <2>2, <2>3, <3>1, <3>2 DEF Announced
  <2>11. QED
    BY <2>4, <2>5, <2>6, <2>7, <2>8, <2>9, <2>10 DEF Next, Step
<1>3. Announced => OwnerToldFirst
  BY DEF Announced
<1>4. QED
  BY <1>1, <1>2, <1>3, SettledInvariant, TypeCorrect, PTL DEF Spec

-----------------------------------------------------------------------------
(* The refinement: with the file store the handlers implement the diagram. *)

\* The phase of one contact changes, and the key stays where it is.
LEMMA PhaseMoves ==
    ASSUME NEW c \in Contacts, NEW to, UNCHANGED <<now, given>>, PhaseOf(c)' = to,
           \A d \in Contacts : d # c => rec'[d] = rec[d]
    PROVE  /\ [d \in Contacts |-> PhaseOf(d)]' = [[d \in Contacts |-> PhaseOf(d)] EXCEPT ![c] = to]
           /\ UNCHANGED {d \in Contacts : given[d] # {}}
<1>1. \A d \in Contacts : d # c => PhaseOf(d)' = PhaseOf(d)
  BY DEF PhaseOf
<1>2. QED
  BY <1>1

\* Nothing the contract sees changes.
LEMMA PhaseStays ==
    ASSUME UNCHANGED <<rec, now>>
    PROVE  UNCHANGED [d \in Contacts |-> PhaseOf(d)]
BY DEF PhaseOf

\* The key leaves for a released contact.
LEMMA KeyIsHanded ==
    ASSUME TypeOK, NEW c \in Contacts, UNCHANGED <<rec, now>>, rec[c].state = "released",
           given' = [given EXCEPT ![c] = @ \cup {now}]
    PROVE  Contract!Hand(c)
<1>1. {d \in Contacts : given[d] # {}}' = {d \in Contacts : given[d] # {}} \cup {c}
  BY DEF TypeOK
<1>2. PhaseOf(c) = "released"
  BY DEF PhaseOf
<1>3. QED
  BY <1>1, <1>2, PhaseStays DEF Contract!Hand

\* Each step is a step of the diagram, or invisible in it.
THEOREM ContractKept ==
    ASSUME Storage = "file"
    PROVE  Spec => KeepsContract
<1>1. Init => Contract!Init
  <2> SUFFICES ASSUME Init PROVE Contract!Init
    OBVIOUS
  <2>1. \A c \in Contacts : PhaseOf(c) = "absent" /\ given[c] = {}
    BY DEF Init, PhaseOf, Absent
  <2>2. QED
    BY <2>1 DEF Contract!Init
<1>2. Settled /\ TypeOK' /\ [Next]_vars => [Contract!Next]_(Contract!contractVars)
  <2> SUFFICES ASSUME Settled, TypeOK', [Next]_vars
               PROVE  Contract!Next \/ UNCHANGED Contract!contractVars
    OBVIOUS
  <2>0. TypeOK /\ AllCurrent
    BY DEF Settled
  <2>1. ASSUME NEW c \in Contacts, Enroll(c) PROVE Contract!Enroll(c)
    <3>1. PhaseOf(c) = "absent" /\ PhaseOf(c)' = "enrolled"
      BY <2>0, <2>1 DEF Enroll, PhaseOf, TypeOK, Record
    <3>2. UNCHANGED <<now, given>> /\ \A d \in Contacts : d # c => rec'[d] = rec[d]
      BY <2>0, <2>1 DEF Enroll, histories, TypeOK
    <3>3. QED
      BY <3>1, <3>2, PhaseMoves DEF Contract!Enroll, Contract!Move
  <2>2. ASSUME UNCHANGED <<rec, now, given>> PROVE UNCHANGED Contract!contractVars
    BY <2>2, PhaseStays DEF Contract!contractVars
  <2>3. ASSUME NEW h \in Handlers, Collect(h)
        PROVE  Contract!Next \/ UNCHANGED Contract!contractVars
    <3> DEFINE c == handler[h].contact
    <3>1. c \in Contacts /\ UNCHANGED <<rec, now>>
      BY <2>0, <2>3 DEF Collect, TypeOK, Call
    <3>2. CASE UNCHANGED given
      BY <2>2, <3>1, <3>2
    <3>3. CASE Hands(rec[c]) /\ given' = [given EXCEPT ![c] = @ \cup {now}]
      BY <2>0, <3>1, <3>3, KeyIsHanded DEF Hands, Contract!Next
    <3>4. QED
      BY <2>3, <3>2, <3>3 DEF Collect
  <2>4. ASSUME NEW h \in Handlers, UpdateContact(h) PROVE Contract!Next
    <3> DEFINE op == handler[h].op
    <3>1. op \in Operations /\ handler[h].contact \in Contacts
      BY <2>0 DEF TypeOK, Call
    <3>0. PICK c \in Contacts : c = handler[h].contact
      BY <3>1
    <3>2. /\ rec[c].state = From(op) /\ rec'[c].state = To(op)
          /\ op = "collect" => now >= rec[c].unlockAt
      BY <2>0, <2>4, <3>0 DEF UpdateContact, AllCurrent, Current, TypeOK
    <3>3. UNCHANGED <<now, given>> /\ \A d \in Contacts : d # c => rec'[d] = rec[d]
      BY <2>0, <2>4, <3>0 DEF UpdateContact, histories, TypeOK
    <3>4. CASE op = "request"
      <4>1. PhaseOf(c) = "enrolled" /\ PhaseOf(c)' \in {"pending", "releasable"}
        BY <3>2, <3>4 DEF PhaseOf, From, To
      <4>2. Contract!Request(c)
        BY <3>1, <3>3, <4>1, PhaseMoves DEF Contract!Request, Contract!Move
      <4>3. QED
        BY <3>1, <4>2 DEF Contract!Next
    <3>5. CASE op = "deny"
      <4>1. PhaseOf(c) \in {"pending", "releasable"} /\ PhaseOf(c)' = "denied"
        BY <3>2, <3>5 DEF PhaseOf, From, To
      <4>2. Contract!Deny(c)
        BY <3>1, <3>3, <4>1, PhaseMoves DEF Contract!Deny, Contract!Move
      <4>3. QED
        BY <3>1, <4>2 DEF Contract!Next
    <3>6. CASE op = "collect"
      <4>1. PhaseOf(c) = "releasable" /\ PhaseOf(c)' = "released"
        BY <3>2, <3>3, <3>6 DEF PhaseOf, From, To
      <4>2. Contract!Collect(c)
        BY <3>1, <3>3, <4>1, PhaseMoves DEF Contract!Collect, Contract!Move
      <4>3. QED
        BY <3>1, <4>2 DEF Contract!Next
    <3>7. QED
      BY <3>1, <3>4, <3>5, <3>6 DEF Operations
  <2>5. ASSUME NEW h \in Handlers, Notify(h)
        PROVE  Contract!Next \/ UNCHANGED Contract!contractVars
    <3> DEFINE c == handler[h].contact
    <3>1. c \in Contacts /\ UNCHANGED <<rec, now>>
      BY <2>0, <2>5 DEF Notify, TypeOK, Call
    <3>2. given' = [given EXCEPT ![c] = IF handler[h].op = "collect" THEN @ \cup {now} ELSE @]
      BY <2>5 DEF Notify
    <3>3. CASE handler[h].op # "collect"
      <4>1. UNCHANGED given
        BY <2>0, <3>2, <3>3 DEF TypeOK
      <4>2. QED
        BY <2>2, <3>1, <4>1
    <3>4. CASE handler[h].op = "collect"
      <4>1. rec[c].state = "released"
        BY <2>0, <2>5, <3>4 DEF Notify, AllCurrent, Current, To
      <4>2. given' = [given EXCEPT ![c] = @ \cup {now}]
        BY <3>2, <3>4
      <4>3. QED
        BY <2>0, <3>1, <4>1, <4>2, KeyIsHanded DEF Contract!Next
    <3>5. QED
      BY <3>3, <3>4
  <2>6. CASE Tick
    <3>1. UNCHANGED <<rec, given>> /\ now \in Nat /\ now' = now + 1
      BY <2>0, <2>6 DEF Tick, histories, TypeOK
    <3>2. \A c \in Contacts : rec[c].unlockAt \in Nat
      BY <2>0 DEF TypeOK, Record
    <3>3. \A c \in Contacts : PhaseOf(c)' # PhaseOf(c)
                              => PhaseOf(c) = "pending" /\ PhaseOf(c)' = "releasable"
      BY <3>1, <3>2 DEF PhaseOf
    <3>4. Contract!Elapse
      BY <3>1, <3>3 DEF Contract!Elapse
    <3>5. QED
      BY <3>4 DEF Contract!Next
  <2>7. QED
    BY <2>1, <2>2, <2>3, <2>4, <2>5, <2>6
    DEF Next, Step, vars, histories, Receive, RequestAccess, Deny, Crash, Contract!Next
<1>3. QED
  BY <1>1, <1>2, SettledInvariant, TypeCorrect, PTL DEF Spec, KeepsContract, Contract!Spec
=============================================================================
