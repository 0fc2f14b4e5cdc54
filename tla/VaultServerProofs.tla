-------------------------- MODULE VaultServerProofs --------------------------
(***************************************************************************)
(* What VaultServer guarantees for every number of items, handlers and     *)
(* writes.  Type correctness holds for both storages, the rest for the one *)
(* that keeps the promise, "file" (over Postgres VaultServer_clobber.cfg   *)
(* shows how it fails).  What versions promise is promised for the items   *)
(* that are never deleted; that deleted items stay deleted, for all.       *)
(***************************************************************************)
EXTENDS VaultServer, TLAPS

Entered(p) == [item |-> p.item, version |-> p.base.version, blob |-> p.base.blob]

\* A handler past its read still holds the row as it is: the read and the write
\* are one step for everybody else.
FoundIsCurrent ==
    \A h \in Handlers : handler[h].pc = "put" =>
        /\ handler[h].found = row[handler[h].item]
        /\ handler[h].found.version = handler[h].base.version

AtMostOneWriter ==
    \A g, h \in Handlers : handler[g].pc = "put" /\ handler[h].pc = "put" => g = h

\* Rows, and the rows that pushes name, come from the log.
RowsLogged ==
    \A i \in Items : row[i] # NoRow =>
        [item |-> i, version |-> row[i].version, blob |-> row[i].blob] \in log

BasesLogged ==
    \A h \in Handlers : handler[h].base # NoRow => Entered(handler[h]) \in log

\* Logged versions start at 1.
LoggedExists == \A e \in log : e.version >= 1

\* Nothing logged of an item that stays is newer than its row.
LogBelowRow == \A e \in log : e.item \in Kept => e.version =< row[e.item].version

Consistent == /\ TypeOK
              /\ FoundIsCurrent
              /\ AtMostOneWriter
              /\ RowsLogged
              /\ BasesLogged
              /\ LoggedExists
              /\ LogBelowRow
              /\ VersionNamesOneContent

\* What clients, whichever they are, make of the server in one step: a push of
\* some content over a row the log knows is sent, a slot is freed, a handler goes
\* on, a row is deleted, the process starts again.  The clients of Spec name any
\* row they may have seen; the devices of VaultSync the one they have.
Sends(h) ==
    \E i \in Items, base \in Row, blob \in Nat :
        /\ base # NoRow => [item |-> i, version |-> base.version, blob |-> base.blob] \in log
        /\ Submit(h, i, base, blob)
        /\ UNCHANGED <<row, log>>

Frees(h) == handler' = [handler EXCEPT ![h] = Idle] /\ UNCHANGED <<row, log>>

Serves == \/ UNCHANGED <<row, handler, log>>
          \/ \E h \in Handlers : Sends(h) \/ Frees(h) \/ ReadRow(h) \/ WriteRow(h)
          \/ \E i \in Items : Delete(i)
          \/ Restart

-----------------------------------------------------------------------------
LEMMA IdleIsPush == Idle \in Push
<1>1. (CHOOSE i \in Items : TRUE) \in Items
  BY ItemsAssumption
<1>2. QED
  BY <1>1 DEF Idle, Push, Phases, Row, NoRow

\* The server's state keeps its shape, whatever the storage: rows are versioned
\* rows, handlers are pushes in a known phase, the log holds rows of items.
THEOREM TypeCorrect == Spec => []TypeOK
<1>1. Init => TypeOK
  BY IdleIsPush DEF Init, TypeOK, Row, NoRow
<1>2. TypeOK /\ [Next]_serverVars => TypeOK'
  <2> SUFFICES ASSUME TypeOK, [Next]_serverVars PROVE TypeOK'
    OBVIOUS
  <2>1. ASSUME NEW h \in Handlers, ClientPush(h) PROVE TypeOK'
    <3>0. PICK i \in Items : \E b \in Seen(i) : Submit(h, i, b, blobs')
      BY <2>1 DEF ClientPush
    <3>1. PICK base \in Seen(i) : Submit(h, i, base, blobs')
      BY <3>0
    <3>2. base \in Row
      BY <3>1 DEF Seen, Row, NoRow, TypeOK, Entry
    <3>3. handler' \in [Handlers -> Push]
      BY <2>1, <3>1, <3>2 DEF ClientPush, Submit, TypeOK, Push, Phases, Row, NoRow
    <3>4. QED
      BY <2>1, <3>3 DEF ClientPush, TypeOK
  <2>2. ASSUME NEW h \in Handlers, ReadRow(h) PROVE TypeOK'
    BY <2>2 DEF ReadRow, TypeOK, Push, Phases
  <2>3. ASSUME NEW h \in Handlers, WriteRow(h) PROVE TypeOK'
    <3>1. NewVersion(handler[h].found) \in Nat
      BY DEF NewVersion, TypeOK, Push, Row
    <3>2. handler[h].item \in Items /\ handler[h].blob \in Nat
      BY DEF TypeOK, Push
    <3>3. QED
      BY <2>3, <3>1, <3>2 DEF WriteRow, TypeOK, Push, Phases, Row, Entry
  <2>4. ASSUME NEW h \in Handlers, Answer(h) PROVE TypeOK'
    BY <2>4, IdleIsPush DEF Answer, TypeOK
  <2>5. ASSUME NEW i \in Items, Delete(i) PROVE TypeOK'
    BY <2>5 DEF Delete, TypeOK, Row, NoRow
  <2>6. CASE Restart
    BY <2>6, IdleIsPush DEF Restart, TypeOK
  <2>7. CASE UNCHANGED serverVars
    BY <2>7 DEF serverVars, TypeOK
  <2>8. QED
    BY <2>1, <2>2, <2>3, <2>4, <2>5, <2>6, <2>7 DEF Next, ServerStep
<1>3. QED
  BY <1>1, <1>2, PTL DEF Spec

-----------------------------------------------------------------------------
LEMMA NewVersionIsSuccessor ==
    ASSUME NEW r \in Row
    PROVE  NewVersion(r) = r.version + 1
BY DEF NewVersion, Row

\* The log already knows what a client may name.
LEMMA SeenIsLogged ==
    ASSUME TypeOK, NEW i \in Items, NEW base \in Seen(i)
    PROVE  /\ base \in Row
           /\ base # NoRow => [item |-> i, version |-> base.version, blob |-> base.blob] \in log
<1>1. CASE base = NoRow
  BY <1>1 DEF NoRow, Row
<1>2. CASE base # NoRow
  <2>1. PICK e \in log : e.item = i /\ base = [version |-> e.version, blob |-> e.blob]
    BY <1>2 DEF Seen
  <2>2. e \in Entry
    BY DEF TypeOK
  <2>3. e = [item |-> i, version |-> base.version, blob |-> base.blob]
    BY <2>1, <2>2 DEF Entry
  <2>4. QED
    BY <2>1, <2>2, <2>3 DEF Entry, Row
<1>3. QED
  BY <1>1, <1>2

LEMMA NextServes ==
    ASSUME TypeOK, TypeOK', [Next]_serverVars
    PROVE  Serves
<1>1. ASSUME NEW h \in Handlers, ClientPush(h) PROVE Sends(h)
  <2>1. PICK i \in Items : \E b \in Seen(i) : Submit(h, i, b, blobs')
    BY <1>1 DEF ClientPush
  <2>2. PICK base \in Seen(i) : Submit(h, i, base, blobs')
    BY <2>1
  <2>3. blobs' \in Nat
    BY DEF TypeOK
  <2>4. QED
    BY <1>1, <2>2, <2>3, SeenIsLogged DEF ClientPush, Sends
<1>2. ASSUME NEW h \in Handlers, Answer(h) PROVE Frees(h)
  BY <1>2 DEF Answer, Frees
<1>3. QED
  BY <1>1, <1>2 DEF Next, ServerStep, Serves, serverVars

\* A writer that finds no row was sent by a client that saw none.
LEMMA WriterSawNothing ==
    ASSUME Consistent, NEW h \in Handlers, handler[h].pc = "put",
           row[handler[h].item] = NoRow
    PROVE  handler[h].base = NoRow
<1>1. handler[h].base.version = 0
  BY DEF Consistent, FoundIsCurrent, NoRow
<1>2. SUFFICES ASSUME handler[h].base # NoRow PROVE FALSE
  OBVIOUS
<1>3. Entered(handler[h]) \in log
  BY <1>2 DEF Consistent, BasesLogged
<1>4. Entered(handler[h]).version >= 1
  BY <1>3 DEF Consistent, LoggedExists
<1>5. QED
  BY <1>1, <1>4 DEF Entered

\* The heart of the matter: the row a writer is about to replace is the very
\* row its author last saw.
LEMMA WriterSawTheRow ==
    ASSUME Consistent, NEW h \in Handlers, handler[h].pc = "put", handler[h].item \in Kept
    PROVE  /\ row[handler[h].item] = handler[h].base
           /\ handler[h].found = handler[h].base
<1> DEFINE p == handler[h]
           r == row[p.item]
<1>1. p \in Push /\ p.item \in Items /\ p.base \in Row /\ r \in Row
  BY DEF Consistent, TypeOK, Push
<1>2. p.found = r /\ r.version = p.base.version
  BY DEF Consistent, FoundIsCurrent
<1>3. CASE r = NoRow
  BY <1>2, <1>3, WriterSawNothing
<1>4. CASE r # NoRow
  <2>1. [item |-> p.item, version |-> r.version, blob |-> r.blob] \in log
    BY <1>1, <1>4 DEF Consistent, RowsLogged
  <2>2. r.version >= 1
    BY <2>1 DEF Consistent, LoggedExists
  <2>3. p.base # NoRow
    BY <1>2, <2>2 DEF NoRow
  <2>4. Entered(p) \in log
    BY <2>3 DEF Consistent, BasesLogged
  <2>5. Entered(p) = [item |-> p.item, version |-> r.version, blob |-> r.blob]
    BY <2>1, <2>4, <1>2 DEF Consistent, VersionNamesOneContent, Entered
  <2>6. r.blob = p.base.blob
    BY <2>5 DEF Entered
  <2>7. QED
    BY <1>1, <1>2, <2>6 DEF Row
<1>5. QED
  BY <1>3, <1>4

-----------------------------------------------------------------------------
(* Consistent is inductive when handlers are not interleaved.  One lemma per  *)
(* action that changes what it speaks of.                                     *)

LEMMA SendsKeepsConsistent ==
    ASSUME Consistent, TypeOK', NEW h \in Handlers, Sends(h)
    PROVE  Consistent'
<1>1. PICK i \in Items, base \in Row, blob \in Nat :
         /\ base # NoRow => [item |-> i, version |-> base.version, blob |-> base.blob] \in log
         /\ Submit(h, i, base, blob)
         /\ UNCHANGED <<row, log>>
  BY DEF Sends
<1>2. handler' = [handler EXCEPT ![h] = [pc |-> "get", item |-> i, base |-> base,
                                         blob |-> blob, found |-> NoRow]]
  BY <1>1 DEF Submit
<1>3. \A g \in Handlers : g # h => handler'[g] = handler[g]
  BY <1>2 DEF Consistent, TypeOK
<1>4. handler'[h].pc = "get" /\ handler'[h].item = i /\ handler'[h].base = base
  BY <1>2 DEF Consistent, TypeOK
<1>5. FoundIsCurrent' /\ AtMostOneWriter'
  BY <1>1, <1>3, <1>4 DEF Consistent, FoundIsCurrent, AtMostOneWriter
<1>6. BasesLogged'
  BY <1>1, <1>3, <1>4 DEF Consistent, BasesLogged, Entered
<1>7. RowsLogged' /\ LoggedExists' /\ LogBelowRow' /\ VersionNamesOneContent'
  BY <1>1 DEF Consistent, RowsLogged, LoggedExists, LogBelowRow, VersionNamesOneContent
<1>8. QED
  BY <1>5, <1>6, <1>7 DEF Consistent

LEMMA ReadKeepsConsistent ==
    ASSUME Storage = "file", Consistent, TypeOK', NEW h \in Handlers, ReadRow(h)
    PROVE  Consistent'
<1>1. UNCHANGED <<row, log>>
  BY DEF ReadRow
<1>2. \A g \in Handlers : g # h => handler'[g] = handler[g] /\ handler[g].pc # "put"
  BY DEF ReadRow, MayRun, Consistent, TypeOK
<1>3. /\ handler'[h].item = handler[h].item
      /\ handler'[h].base = handler[h].base
      /\ handler'[h].found = row[handler[h].item]
  BY DEF ReadRow, Consistent, TypeOK, Push
<1>4. handler'[h].pc = "put" => handler'[h].base.version = row[handler[h].item].version
  BY <1>3 DEF ReadRow, ResolvePush, Consistent, TypeOK, Push
<1>5. FoundIsCurrent' /\ AtMostOneWriter'
  BY <1>1, <1>2, <1>3, <1>4 DEF Consistent, FoundIsCurrent, AtMostOneWriter
<1>6. BasesLogged'
  BY <1>1, <1>2, <1>3 DEF Consistent, BasesLogged, Entered
<1>7. RowsLogged' /\ LoggedExists' /\ LogBelowRow' /\ VersionNamesOneContent'
  BY <1>1 DEF Consistent, RowsLogged, LoggedExists, LogBelowRow, VersionNamesOneContent
<1>8. QED
  BY <1>5, <1>6, <1>7 DEF Consistent

LEMMA WriteKeepsConsistent ==
    ASSUME Consistent, TypeOK', NEW h \in Handlers, WriteRow(h)
    PROVE  Consistent'
<1> DEFINE p == handler[h]
           i == p.item
           v == row[i].version + 1
           e == [item |-> i, version |-> v, blob |-> p.blob]
<1>1. p \in Push /\ i \in Items /\ p.blob \in Nat /\ p.found = row[i] /\ row[i] \in Row
  BY DEF WriteRow, Consistent, TypeOK, Push, FoundIsCurrent
<1>2. NewVersion(p.found) = v /\ v \in Nat /\ v >= 1
  BY <1>1, NewVersionIsSuccessor DEF Row
<1>3. /\ row' = [row EXCEPT ![i] = [version |-> v, blob |-> p.blob]]
      /\ log' = log \cup {e}
      /\ handler' = [handler EXCEPT ![h].pc = "ok"]
  BY <1>2 DEF WriteRow
<1>4. row'[i] = [version |-> v, blob |-> p.blob] /\ \A j \in Items : j # i => row'[j] = row[j]
  BY <1>1, <1>3 DEF Consistent, TypeOK
<1>5. \A g \in Handlers : g # h => handler'[g] = handler[g] /\ handler[g].pc # "put"
  BY <1>3 DEF WriteRow, Consistent, TypeOK, AtMostOneWriter
<1>6. handler'[h].pc = "ok" /\ handler'[h].base = p.base /\ handler'[h].item = i
  BY <1>1, <1>3 DEF Consistent, TypeOK, Push
<1>7. FoundIsCurrent' /\ AtMostOneWriter'
  BY <1>5, <1>6 DEF FoundIsCurrent, AtMostOneWriter
<1>8. BasesLogged'
  BY <1>3, <1>5, <1>6 DEF Consistent, BasesLogged, Entered
<1>9. RowsLogged'
  BY <1>3, <1>4 DEF Consistent, RowsLogged
<1>10. \A f \in log : f \in Entry /\ (f.item = i /\ i \in Kept => f.version < v)
  BY <1>1 DEF Consistent, TypeOK, LogBelowRow, Entry, Row
<1>11. LoggedExists'
  BY <1>2, <1>3 DEF Consistent, LoggedExists
<1>12. LogBelowRow'
  <2> SUFFICES ASSUME NEW f \in log', f.item \in Kept
               PROVE  f.version =< row'[f.item].version
    BY DEF LogBelowRow
  <2>1. CASE f = e
    BY <2>1, <1>2, <1>4
  <2>2. CASE f \in log /\ f.item = i
    BY <2>2, <1>2, <1>4, <1>10 DEF Entry
  <2>3. CASE f \in log /\ f.item # i
    BY <2>3, <1>4, <1>10 DEF Consistent, LogBelowRow, Entry
  <2>4. QED
    BY <2>1, <2>2, <2>3, <1>3
<1>13. VersionNamesOneContent'
  <2> SUFFICES ASSUME NEW f \in log', NEW g \in log', f.item = g.item, f.version = g.version,
                      f.item \in Kept
               PROVE  f = g
    BY DEF VersionNamesOneContent
  <2>1. CASE f \in log /\ g \in log
    BY <2>1 DEF Consistent, VersionNamesOneContent
  <2>2. CASE f = e \/ g = e
    BY <2>2, <1>2, <1>3, <1>10 DEF Entry
  <2>3. QED
    BY <2>1, <2>2, <1>3
<1>14. QED
  BY <1>7, <1>8, <1>9, <1>11, <1>12, <1>13 DEF Consistent

\* No handler is between its read and its write while an item is deleted.
LEMMA DeleteKeepsConsistent ==
    ASSUME Storage = "file", Consistent, TypeOK', NEW i \in Items, Delete(i)
    PROVE  Consistent'
<1>1. /\ \A h \in Handlers : handler[h].pc # "put"
      /\ row' = [row EXCEPT ![i] = NoRow]
      /\ UNCHANGED <<handler, log>>
  BY DEF Delete
<1>2. FoundIsCurrent' /\ AtMostOneWriter'
  BY <1>1 DEF FoundIsCurrent, AtMostOneWriter
<1>3. RowsLogged'
  BY <1>1 DEF Consistent, TypeOK, RowsLogged
<1>4. BasesLogged' /\ LoggedExists' /\ VersionNamesOneContent'
  BY <1>1 DEF Consistent, BasesLogged, Entered, LoggedExists, VersionNamesOneContent
<1>5. LogBelowRow'
  <2>1. \A j \in Kept : row'[j] = row[j]
    BY <1>1 DEF Delete, Kept, Consistent, TypeOK
  <2>2. QED
    BY <1>1, <2>1 DEF Consistent, LogBelowRow
<1>6. QED
  BY <1>2, <1>3, <1>4, <1>5 DEF Consistent

LEMMA IdleKeepsConsistent ==
    ASSUME Consistent, TypeOK', UNCHANGED <<row, log>>,
           \A g \in Handlers : handler'[g] = handler[g] \/ handler'[g] = Idle
    PROVE  Consistent'
<1>1. Idle.pc = "idle" /\ Idle.base = NoRow
  BY DEF Idle
<1>2. FoundIsCurrent' /\ AtMostOneWriter'
  BY <1>1 DEF Consistent, FoundIsCurrent, AtMostOneWriter
<1>3. BasesLogged'
  BY <1>1 DEF Consistent, BasesLogged, Entered
<1>4. RowsLogged' /\ LoggedExists' /\ LogBelowRow' /\ VersionNamesOneContent'
  BY DEF Consistent, RowsLogged, LoggedExists, LogBelowRow, VersionNamesOneContent
<1>5. QED
  BY <1>2, <1>3, <1>4 DEF Consistent

\* Whatever the clients do, the server's state stays consistent.
LEMMA ServesKeepsConsistent ==
    ASSUME Storage = "file", Consistent, TypeOK', Serves
    PROVE  Consistent'
<1>1. ASSUME NEW h \in Handlers, Frees(h) PROVE Consistent'
  <2>1. \A g \in Handlers : handler'[g] = handler[g] \/ handler'[g] = Idle
    BY <1>1 DEF Frees, Consistent, TypeOK
  <2>2. QED
    BY <1>1, <2>1, IdleKeepsConsistent DEF Frees
<1>2. CASE Restart
  BY <1>2, IdleKeepsConsistent DEF Restart
<1>3. CASE UNCHANGED <<row, handler, log>>
  BY <1>3, IdleKeepsConsistent
<1>4. QED
  BY <1>1, <1>2, <1>3, SendsKeepsConsistent, ReadKeepsConsistent, WriteKeepsConsistent,
     DeleteKeepsConsistent DEF Serves

LEMMA InitIsConsistent == Init => Consistent
<1> SUFFICES ASSUME Init PROVE Consistent
  OBVIOUS
<1>1. TypeOK
  BY IdleIsPush DEF Init, TypeOK, Row, NoRow
<1>2. Idle.pc = "idle" /\ Idle.base = NoRow
  BY DEF Idle
<1>3. QED
  BY <1>1, <1>2 DEF Init, Consistent, FoundIsCurrent, AtMostOneWriter, RowsLogged,
                    BasesLogged, LoggedExists, LogBelowRow, VersionNamesOneContent

\* With the file store the server's state stays consistent.
THEOREM ConsistentInvariant ==
    ASSUME Storage = "file"
    PROVE  Spec => []Consistent
<1>1. Consistent /\ TypeOK' /\ [Next]_serverVars => Consistent'
  BY NextServes, ServesKeepsConsistent DEF Consistent
<1>2. QED
  BY <1>1, InitIsConsistent, TypeCorrect, PTL DEF Spec

\* A version of an item names one content for ever: two devices that hold the
\* same version hold the same content.
THEOREM OneContentPerVersion ==
    ASSUME Storage = "file"
    PROVE  Spec => []VersionNamesOneContent
<1>1. Consistent => VersionNamesOneContent
  BY DEF Consistent
<1>2. QED
  BY <1>1, ConsistentInvariant, PTL

\* No push overwrites a row its author has not seen.
THEOREM NoClobber ==
    ASSUME Storage = "file"
    PROVE  Spec => NoSilentClobber
<1>1. Consistent => [\A h \in Handlers :
          handler[h].pc = "put" /\ handler'[h].pc = "ok" /\ handler[h].item \in Kept
             => row[handler[h].item] = handler[h].base]_serverVars
  BY WriterSawTheRow
<1>2. QED
  BY <1>1, ConsistentInvariant, PTL DEF NoSilentClobber

\* A push that edits a deleted item is refused, whichever items are deleted.
THEOREM NothingResurrected ==
    ASSUME Storage = "file"
    PROVE  Spec => NoResurrection
<1>1. Consistent => [\A h \in Handlers :
          handler[h].pc = "put" /\ handler'[h].pc = "ok" /\ row[handler[h].item] = NoRow
             => handler[h].base = NoRow]_serverVars
  BY WriterSawNothing
<1>2. QED
  BY <1>1, ConsistentInvariant, PTL DEF NoResurrection

LEMMA ServesRaisesVersions ==
    ASSUME Consistent, Serves, NEW i \in Kept, row'[i] # row[i], NEW e \in log, e.item = i
    PROVE  e.version < row'[i].version
<1>1. \A j \in Items : ~Delete(j)
  BY DEF Delete, Kept, Consistent, TypeOK
<1>2. PICK h \in Handlers : WriteRow(h)
  BY <1>1 DEF Serves, Sends, Frees, ReadRow, Restart
<1>3. handler[h].found = row[handler[h].item] /\ handler[h].found \in Row
  BY <1>2 DEF WriteRow, Consistent, FoundIsCurrent, TypeOK, Push
<1>4. handler[h].item = i /\ row'[i].version = row[i].version + 1
  BY <1>2, <1>3, NewVersionIsSuccessor DEF WriteRow, Consistent, TypeOK, Kept
<1>5. e.version =< row[i].version /\ e.version \in Nat /\ row[i].version \in Nat
  BY DEF Consistent, LogBelowRow, TypeOK, Entry, Row, Kept
<1>6. QED
  BY <1>4, <1>5

\* Of two rows stored for an item, the later has the greater version.
THEOREM VersionsGoUp ==
    ASSUME Storage = "file"
    PROVE  Spec => VersionsIncrease
<1>1. Consistent /\ Consistent' /\ [Next]_serverVars
        => [\A i \in Kept : row'[i] # row[i]
               => \A e \in log : e.item = i => e.version < row'[i].version]_serverVars
  BY NextServes, ServesRaisesVersions DEF Consistent
<1>2. QED
  BY <1>1, ConsistentInvariant, PTL DEF VersionsIncrease, Spec

-----------------------------------------------------------------------------
(* The refinement: with the file store the server is a compare-and-swap, on   *)
(* the items that stay.                                                       *)

LEMMA NoneIsNone == NoRequest = Promise!NoRequest /\ RequestOf(Idle) = NoRequest
BY DEF RequestOf, Idle, NoRequest, Promise!NoRequest, Promise!NoRow, NoRow

\* A change of one handler is a change of one request.
LEMMA OneRequestChanges ==
    ASSUME TypeOK, NEW h \in Handlers, NEW p, handler' = [handler EXCEPT ![h] = p]
    PROVE  [g \in Handlers |-> RequestOf(handler[g])]'
              = [[g \in Handlers |-> RequestOf(handler[g])] EXCEPT ![h] = RequestOf(p)]
BY DEF TypeOK

\* Whatever the clients do, each step of the server is a step of VersionedStore, or
\* invisible in it.
LEMMA ServesKeepsPromise ==
    ASSUME Storage = "file", Consistent, Consistent', Serves
    PROVE  [Promise!Next]_(Promise!storeVars)
<1> DEFINE requests == [h \in Handlers |-> RequestOf(handler[h])]
           rows == [i \in Kept |-> row[i]]
<1>0. \A g \in Handlers : handler[g] \in Push /\ handler'[g] \in Push
  BY DEF Consistent, TypeOK
<1>1. ASSUME NEW h \in Handlers, Sends(h)
      PROVE  Promise!Submit(h) \/ UNCHANGED Promise!storeVars
  <2>1. PICK i \in Items, base \in Row, blob \in Nat :
           Submit(h, i, base, blob) /\ UNCHANGED <<row, log>>
    BY <1>1 DEF Sends
  <2> DEFINE p == [pc |-> "get", item |-> i, base |-> base, blob |-> blob, found |-> NoRow]
  <2>2. handler[h] = Idle /\ handler' = [handler EXCEPT ![h] = p] /\ UNCHANGED row
    BY <2>1 DEF Submit
  <2>3. requests' = [requests EXCEPT ![h] = RequestOf(p)]
    BY <2>2, OneRequestChanges DEF Consistent
  <2>4. requests[h] = Promise!NoRequest
    BY <2>2, NoneIsNone
  <2>5. CASE i \in Kept
    <3>1. RequestOf(p) = [result |-> "pending", item |-> i, base |-> base, blob |-> blob]
      BY <2>5 DEF RequestOf, ResultOf, Kept
    <3>2. RequestOf(p) \in Promise!Request
      BY <2>5, <3>1 DEF Promise!Request, Promise!Row, Row
    <3>3. requests'[h] = RequestOf(p) /\ RequestOf(p).result = "pending"
      BY <2>3, <3>1
    <3>4. rows' = rows
      BY <2>2
    <3>5. Promise!Submit(h)
      BY <2>3, <2>4, <3>2, <3>3, <3>4 DEF Promise!Submit
    <3>6. QED
      BY <3>5
  <2>6. CASE i \notin Kept
    <3>1. RequestOf(p) = NoRequest
      BY <2>6 DEF RequestOf, Kept
    <3>2. requests' = requests
      BY <2>3, <2>4, <3>1, NoneIsNone
    <3>3. QED
      BY <2>2, <3>2 DEF Promise!storeVars
  <2>7. QED
    BY <2>5, <2>6
<1>2. ASSUME NEW h \in Handlers, ReadRow(h)
      PROVE  Promise!Refuse(h) \/ UNCHANGED Promise!storeVars
  <2> DEFINE p == handler[h]
             q == handler'[h]
  <2>1. /\ p.pc = "get" /\ UNCHANGED row
        /\ q.pc = IF ResolvePush(row[p.item], p.base) = "conflict" THEN "conflict" ELSE "put"
        /\ q.item = p.item /\ q.base = p.base /\ q.blob = p.blob
        /\ handler' = [handler EXCEPT ![h] = q]
    BY <1>2, <1>0 DEF ReadRow, Push, Consistent, TypeOK
  <2>2. requests' = [requests EXCEPT ![h] = RequestOf(q)]
    BY <2>1, OneRequestChanges DEF Consistent
  <2>3. CASE ResolvePush(row[p.item], p.base) = "conflict" /\ p.item \in Kept
    <3>1. rows[p.item] # p.base
      BY <2>3 DEF ResolvePush
    <3>2. requests[h].result = "pending" /\ requests[h].item = p.item /\ requests[h].base = p.base
      BY <2>1, <2>3 DEF RequestOf, ResultOf, Kept
    <3>3. RequestOf(q) = [requests[h] EXCEPT !.result = "conflict"]
      BY <2>1, <2>3 DEF RequestOf, ResultOf, Kept
    <3>4. QED
      BY <2>1, <2>2, <3>1, <3>2, <3>3 DEF Promise!Refuse
  <2>4. CASE ResolvePush(row[p.item], p.base) # "conflict" \/ p.item \notin Kept
    <3>1. RequestOf(q) = requests[h]
      BY <2>1, <2>4, <1>0 DEF RequestOf, ResultOf, Kept, Push
    <3>2. requests' = requests
      BY <2>2, <3>1
    <3>3. QED
      BY <2>1, <3>2 DEF Promise!storeVars
  <2>5. QED
    BY <2>3, <2>4
<1>3. ASSUME NEW h \in Handlers, WriteRow(h)
      PROVE  Promise!Accept(h) \/ UNCHANGED Promise!storeVars
  <2> DEFINE p == handler[h]
             q == handler'[h]
  <2>1. /\ p.pc = "put" /\ q.pc = "ok"
        /\ q.item = p.item /\ q.base = p.base /\ q.blob = p.blob
        /\ handler' = [handler EXCEPT ![h] = q]
    BY <1>3, <1>0 DEF WriteRow, Push, Consistent, TypeOK
  <2>2. requests' = [requests EXCEPT ![h] = RequestOf(q)]
    BY <2>1, OneRequestChanges DEF Consistent
  <2>3. CASE p.item \in Kept
    <3>1. row[p.item] = p.base /\ p.found = p.base
      BY <2>1, <2>3, WriterSawTheRow
    <3>2. row' = [row EXCEPT ![p.item] = [version |-> p.base.version + 1, blob |-> p.blob]]
      BY <1>3, <1>0, <3>1, NewVersionIsSuccessor DEF WriteRow, Push
    <3>3. rows' = [rows EXCEPT ![p.item] = [version |-> p.base.version + 1, blob |-> p.blob]]
      BY <3>2, <2>3 DEF Kept, Consistent, TypeOK
    <3>4. /\ requests[h].result = "pending" /\ requests[h].item = p.item
          /\ requests[h].base = p.base /\ requests[h].blob = p.blob
      BY <2>1, <2>3 DEF RequestOf, ResultOf, Kept
    <3>5. RequestOf(q) = [requests[h] EXCEPT !.result = "ok"]
      BY <2>1, <2>3 DEF RequestOf, ResultOf, Kept
    <3>6. QED
      BY <2>2, <2>3, <3>1, <3>3, <3>4, <3>5 DEF Promise!Accept
  <2>4. CASE p.item \notin Kept
    <3>1. rows' = rows
      BY <1>3, <2>4 DEF WriteRow, Kept, Consistent, TypeOK
    <3>2. RequestOf(q) = requests[h]
      BY <2>1, <2>4, <1>0 DEF RequestOf, Kept, Push
    <3>3. requests' = requests
      BY <2>2, <3>2
    <3>4. QED
      BY <3>1, <3>3 DEF Promise!storeVars
  <2>5. QED
    BY <2>3, <2>4
<1>4. ASSUME NEW h \in Handlers, Frees(h) PROVE Promise!Forget(h)
  <2>1. requests' = [requests EXCEPT ![h] = RequestOf(Idle)]
    BY <1>4, OneRequestChanges DEF Frees, Consistent
  <2>2. QED
    BY <1>4, <2>1, NoneIsNone DEF Frees, Promise!Forget
<1>5. ASSUME NEW i \in Items, Delete(i) PROVE UNCHANGED Promise!storeVars
  <2>1. rows' = rows
    BY <1>5 DEF Delete, Kept, Consistent, TypeOK
  <2>2. requests' = requests
    BY <1>5 DEF Delete
  <2>3. QED
    BY <2>1, <2>2 DEF Promise!storeVars
<1>6. CASE Restart
  <2>1. requests' = [h \in Handlers |-> Promise!NoRequest]
    BY <1>6, NoneIsNone DEF Restart
  <2>2. QED
    BY <1>6, <2>1 DEF Restart, Promise!ForgetAll, Promise!Next
<1>7. CASE UNCHANGED <<row, handler, log>>
  BY <1>7 DEF Promise!storeVars
<1>8. QED
  BY <1>1, <1>2, <1>3, <1>4, <1>5, <1>6, <1>7 DEF Serves, Promise!Next

LEMMA InitIsPromised == Init => Promise!Init
BY NoneIsNone DEF Init, Promise!Init, Promise!NoRow, NoRow, Kept

\* With the file store the server is a compare-and-swap of the rows that stay.
THEOREM ServerKeepsPromise ==
    ASSUME Storage = "file"
    PROVE  Spec => KeepsPromise
<1>1. Consistent /\ Consistent' /\ [Next]_serverVars => [Promise!Next]_(Promise!storeVars)
  BY NextServes, ServesKeepsPromise DEF Consistent
<1>2. QED
  BY <1>1, InitIsPromised, ConsistentInvariant, PTL DEF Spec, KeepsPromise, Promise!Spec
=============================================================================
