--------------------------- MODULE VaultSyncProofs ---------------------------
(***************************************************************************)
(* What the devices keep of the user's edits, for every number of devices, *)
(* items, edits and faults.                                                *)
(*                                                                         *)
(*   - For both storages: the state keeps its shape, an edit marked for    *)
(*     sync is in the file or in the one write of it that is under way     *)
(*     (writes that overlap excepted), everything a device holds, sends or *)
(*     awaits comes from the server's log (Traced), and, as long as nobody *)
(*     edits while a sync() awaits, an entry that is not marked is what    *)
(*     the server stored, and a marked one yields to the copy of a         *)
(*     conflict only.                                                      *)
(*   - Over the file store: every step of the composed system is a step of *)
(*     the server that Serves, so what VaultServerProofs shows of the      *)
(*     server alone holds of it under the devices, the refinement of       *)
(*     VersionedStore included; and no device ever falls back to an older  *)
(*     version.                                                            *)
(***************************************************************************)
EXTENDS VaultSync, VaultServerProofs

LEMMA NoCopyIsCopy == NoCopy \in Copy /\ NoRow \in Row /\ NoSync \in SyncState
BY DEF NoCopy, Copy, NoRow, Row, NoSync, SyncState

LEMMA EmptyIsVault == EmptyVault \in [Items -> Copy]
BY NoCopyIsCopy DEF EmptyVault

LEMMA NoSaveIsSave == NoSave \in Save
BY EmptyIsVault DEF NoSave, Save

\* What may be found in a file is a vault.
LEMMA FoundIsVault ==
    ASSUME SyncTypeOK, NEW d \in Devices, NEW v \in Found(d)
    PROVE  v \in [Items -> Copy] /\ v \in Files(d) \cup {EmptyVault}
BY EmptyIsVault DEF Found, Files, SyncTypeOK

\* A write is asked for: the file is as it was, and one more vault is on its way.
LEMMA PersistKeepsTypes ==
    ASSUME SyncTypeOK, NEW d \in Devices, Persist(d), mem' \in [Devices -> [Items -> Copy]]
    PROVE  /\ save' \in [Devices -> [Writes -> Save]]
           /\ overlapped' \in [Devices -> BOOLEAN]
           /\ faults' \in Nat
           /\ UNCHANGED <<disk, torn>>
<1>1. PICK w \in Writes : save' = [save EXCEPT ![d][w] = [pc |-> "writing", vault |-> mem'[d]]]
  BY DEF Persist, Snapshot
<1>2. [pc |-> "writing", vault |-> mem'[d]] \in Save
  BY DEF Save
<1>3. QED
  BY <1>1, <1>2 DEF Persist, SyncTypeOK

LEMMA WriteFileKeepsTypes ==
    ASSUME SyncTypeOK, NEW d \in Devices, NEW w \in Writes, WriteFile(d, w)
    PROVE  SyncTypeOK'
<1>0. \A v \in Writes : save[d][v] \in Save
  BY DEF SyncTypeOK
<1>1. \A v \in Writes : save[d][v] \in Save /\ [save[d][v] EXCEPT !.pc = "late"] \in Save
  BY <1>0 DEF Save
<1>2. save' \in [Devices -> [Writes -> Save]]
  BY <1>1, NoSaveIsSave DEF WriteFile, SyncTypeOK
<1>3. save[d][w].vault \in [Items -> Copy]
  BY <1>1 DEF Save
<1>4. disk' \in [Devices -> [Items -> Copy]] /\ torn' \in [Devices -> BOOLEAN]
  BY <1>3, EmptyIsVault DEF WriteFile, SyncTypeOK
<1>5. QED
  BY <1>2, <1>4 DEF WriteFile, SyncTypeOK, TypeOK

\* One entry of one device changes, and no other.
LEMMA OneCopyChanges ==
    ASSUME SyncTypeOK, NEW d \in Devices, NEW i \in Items, NEW c \in Copy,
           mem' = [mem EXCEPT ![d] = [mem[d] EXCEPT ![i] = c]]
    PROVE  /\ mem' \in [Devices -> [Items -> Copy]]
           /\ mem'[d][i] = c
           /\ \A e \in Devices, j \in Items : e # d \/ j # i => mem'[e][j] = mem[e][j]
<1>1. mem \in [Devices -> [Items -> Copy]] /\ mem[d] \in [Items -> Copy]
  BY DEF SyncTypeOK
<1> DEFINE v == [mem[d] EXCEPT ![i] = c]
<1>2. v \in [Items -> Copy] /\ v[i] = c /\ \A j \in Items : j # i => v[j] = mem[d][j]
  BY <1>1
<1>3. mem' \in [Devices -> [Items -> Copy]] /\ mem'[d] = v /\ \A e \in Devices : e # d => mem'[e] = mem[e]
  BY <1>1, <1>2
<1>4. QED
  BY <1>2, <1>3

LEMMA OneSyncChanges ==
    ASSUME SyncTypeOK, NEW d \in Devices, NEW s \in SyncState, sync' = [sync EXCEPT ![d] = s]
    PROVE  /\ sync' \in [Devices -> SyncState]
           /\ sync'[d] = s
           /\ \A e \in Devices : e # d => sync'[e] = sync[e]
BY DEF SyncTypeOK

\* What the user's calls and the steps of sync() make of one entry.
LEMMA CopiesMade ==
    ASSUME SyncTypeOK, NEW d \in Devices, NEW i \in Items
    PROVE  /\ mem[d][i] \in Copy
           /\ \A b \in Nat : [content |-> b, base |-> NoRow, dirty |-> TRUE] \in Copy
           /\ \A b \in Nat : [mem[d][i] EXCEPT !.content = b, !.dirty = TRUE] \in Copy
           /\ \A r \in Row : [mem[d][i] EXCEPT !.base = r, !.dirty = FALSE] \in Copy
           /\ \A r \in Row : [content |-> r.blob, base |-> r, dirty |-> FALSE] \in Copy
<1>1. mem[d][i] \in Copy
  BY DEF SyncTypeOK
<1>2. QED
  BY <1>1, NoCopyIsCopy DEF Copy, Row

LEMMA AcceptedIsRow ==
    ASSUME SyncTypeOK, NEW d \in Devices
    PROVE  /\ handler[d] \in Push /\ handler[d].item \in Items
           /\ handler[d].found \in Row
           /\ Accepted(d) \in Row
<1>1. handler[d] \in Push
  BY DEF SyncTypeOK, TypeOK, Devices
<1>2. /\ handler[d].item \in Items /\ handler[d].found \in Row /\ handler[d].blob \in Nat
      /\ handler[d].found.version \in Nat
  BY <1>1 DEF Push, Row
<1>3. QED
  BY <1>1, <1>2 DEF Accepted, NewVersion, Row

\* The server's own steps keep the server's types.
LEMMA ServeKeepsTypes ==
    ASSUME TypeOK, NEW h \in Handlers, ServerStep(h) \/ Answer(h) \/ Restart \/ (\E i \in Items : Delete(i))
    PROVE  TypeOK'
<1>1. CASE ReadRow(h)
  BY <1>1 DEF ReadRow, TypeOK, Push, Phases
<1>2. CASE WriteRow(h)
  <2>1. NewVersion(handler[h].found) \in Nat
    BY DEF NewVersion, TypeOK, Push, Row
  <2>2. handler[h].item \in Items /\ handler[h].blob \in Nat
    BY DEF TypeOK, Push
  <2>3. QED
    BY <1>2, <2>1, <2>2 DEF WriteRow, TypeOK, Push, Phases, Row, Entry
<1>3. CASE Answer(h)
  BY <1>3, IdleIsPush DEF Answer, TypeOK
<1>4. CASE Restart
  BY <1>4, IdleIsPush DEF Restart, TypeOK
<1>5. CASE \E i \in Items : Delete(i)
  BY <1>5 DEF Delete, TypeOK, Row, NoRow
<1>6. QED
  BY <1>1, <1>2, <1>3, <1>4, <1>5 DEF ServerStep

LEMMA SubmitKeepsTypes ==
    ASSUME TypeOK, NEW h \in Handlers, NEW i \in Items, NEW base \in Row, NEW blob \in Nat,
           Submit(h, i, base, blob)
    PROVE  handler' \in [Handlers -> Push]
BY DEF Submit, TypeOK, Push, Phases, Row, NoRow

LEMMA FreeKeepsTypes ==
    ASSUME TypeOK, NEW h \in Handlers, handler' = [handler EXCEPT ![h] = Idle]
    PROVE  handler' \in [Handlers -> Push]
BY IdleIsPush DEF TypeOK

-----------------------------------------------------------------------------
\* The vaults in memory and on disk, the running syncs and the server keep their
\* shape, for both storages.
THEOREM SyncTypeCorrect == SyncSpec => []SyncTypeOK
<1>1. SyncInit => SyncTypeOK
  BY NoCopyIsCopy, EmptyIsVault, NoSaveIsSave, IdleIsPush DEF SyncInit, Init, SyncTypeOK, TypeOK
<1>2. SyncTypeOK /\ [SyncNext]_vars => SyncTypeOK'
  <2> SUFFICES ASSUME SyncTypeOK, [SyncNext]_vars PROVE SyncTypeOK'
    OBVIOUS
  <2>0. TypeOK /\ Devices = Handlers
    BY DEF SyncTypeOK, Devices
  <2>1. ASSUME NEW d \in Devices, Unlock(d) PROVE SyncTypeOK'
    <3>1. PICK vault \in Found(d) : mem' = [mem EXCEPT ![d] = vault]
      BY <2>1 DEF Unlock
    <3>2. mem' \in [Devices -> [Items -> Copy]]
      BY <3>1, FoundIsVault DEF SyncTypeOK
    <3>3. QED
      BY <2>1, <2>0, <3>2 DEF Unlock, SyncTypeOK, TypeOK
  <2>2. ASSUME NEW d \in Devices, Lock(d) \/ Quit(d) PROVE SyncTypeOK'
    <3>1. /\ open' \in [Devices -> BOOLEAN] /\ mem' \in [Devices -> [Items -> Copy]]
          /\ sync' \in [Devices -> SyncState] /\ faults' \in Nat
          /\ UNCHANGED <<overlapped, row, handler, blobs, log>>
      <4>1. Forget(d)
        BY <2>2 DEF Lock, Quit
      <4>2. QED
        BY <4>1, EmptyIsVault, NoCopyIsCopy DEF Forget, SyncTypeOK
    <3>2. /\ disk' \in [Devices -> [Items -> Copy]] /\ torn' \in [Devices -> BOOLEAN]
          /\ save' \in [Devices -> [Writes -> Save]]
      <4>1. CASE Lock(d)
        BY <4>1 DEF Lock, SyncTypeOK
      <4>2. CASE Quit(d)
        <5>1. PICK vault \in Found(d) : disk' = [disk EXCEPT ![d] = vault]
          BY <4>2 DEF Quit
        <5>2. QED
          BY <4>2, <5>1, FoundIsVault, NoSaveIsSave DEF Quit, SyncTypeOK
      <4>3. QED
        BY <2>2, <4>1, <4>2
    <3>3. QED
      BY <2>0, <3>1, <3>2 DEF SyncTypeOK, TypeOK
  <2>3. ASSUME NEW d \in Devices, NEW i \in Items, Add(d, i) PROVE SyncTypeOK'
    <3>1. blobs' \in Nat /\ blobs' = blobs + 1
      BY <2>0, <2>3 DEF Add, TypeOK
    <3>2. mem' = [mem EXCEPT ![d] = [mem[d] EXCEPT ![i] = [content |-> blobs', base |-> NoRow, dirty |-> TRUE]]]
      BY <2>3 DEF Add
    <3>3. mem' \in [Devices -> [Items -> Copy]]
      BY <3>1, <3>2, CopiesMade, OneCopyChanges
    <3>4. /\ save' \in [Devices -> [Writes -> Save]] /\ overlapped' \in [Devices -> BOOLEAN]
          /\ faults' \in Nat /\ UNCHANGED <<disk, torn>>
      BY <2>3, <3>3, PersistKeepsTypes DEF Add
    <3>5. sync' \in [Devices -> SyncState]
      BY <2>3 DEF Add, SyncTypeOK, SyncState
    <3>6. QED
      BY <2>0, <2>3, <3>1, <3>3, <3>4, <3>5 DEF Add, SyncTypeOK, TypeOK
  <2>4. ASSUME NEW d \in Devices, NEW i \in Items, Update(d, i) PROVE SyncTypeOK'
    <3>1. blobs' \in Nat /\ blobs' = blobs + 1
      BY <2>0, <2>4 DEF Update, TypeOK
    <3>2. mem' = [mem EXCEPT ![d] = [mem[d] EXCEPT ![i] = [mem[d][i] EXCEPT !.content = blobs', !.dirty = TRUE]]]
      BY <2>4 DEF Update
    <3>3. mem' \in [Devices -> [Items -> Copy]]
      BY <3>1, <3>2, CopiesMade, OneCopyChanges
    <3>4. /\ save' \in [Devices -> [Writes -> Save]] /\ overlapped' \in [Devices -> BOOLEAN]
          /\ faults' \in Nat /\ UNCHANGED <<disk, torn>>
      BY <2>4, <3>3, PersistKeepsTypes DEF Update
    <3>5. QED
      BY <2>0, <2>4, <3>1, <3>3, <3>4 DEF Update, SyncTypeOK, TypeOK
  <2>5. ASSUME NEW d \in Devices, SyncStart(d) PROVE SyncTypeOK'
    <3>1. sync' \in [Devices -> SyncState]
      BY <2>5 DEF SyncStart, SyncTypeOK, SyncState
    <3>2. QED
      BY <2>0, <2>5, <3>1 DEF SyncStart, SyncTypeOK, TypeOK, fileVars
  <2>6. ASSUME NEW d \in Devices, NEW i \in Items, SkipClean(d, i) PROVE SyncTypeOK'
    <3>1. sync' \in [Devices -> SyncState]
      BY <2>6 DEF SkipClean, SyncTypeOK, SyncState
    <3>2. QED
      BY <2>0, <2>6, <3>1 DEF SkipClean, SyncTypeOK, TypeOK, fileVars
  <2>7. ASSUME NEW d \in Devices, NEW i \in Items, PushDirty(d, i) PROVE SyncTypeOK'
    <3>0. [sync[d] EXCEPT !.pc = "await", !.todo = sync[d].todo \ {i}] \in SyncState
      BY DEF SyncTypeOK, SyncState
    <3>1. sync' \in [Devices -> SyncState]
      <4>1. sync' = [sync EXCEPT ![d] = [sync[d] EXCEPT !.pc = "await", !.todo = sync[d].todo \ {i}]]
        BY <2>7 DEF PushDirty
      <4>2. QED
        BY <3>0, <4>1, OneSyncChanges
    <3>2. mem[d][i].base \in Row /\ mem[d][i].content \in Nat
      BY DEF SyncTypeOK, Copy
    <3>3. handler' \in [Handlers -> Push]
      BY <2>0, <2>7, <3>2, SubmitKeepsTypes DEF PushDirty
    <3>4. QED
      BY <2>0, <2>7, <3>1, <3>3 DEF PushDirty, SyncTypeOK, TypeOK, fileVars
  <2>8. ASSUME NEW d \in Devices, PushOk(d) PROVE SyncTypeOK'
    <3> DEFINE i == handler[d].item
    <3>1. mem' = [mem EXCEPT ![d] = [mem[d] EXCEPT ![i] = [mem[d][i] EXCEPT !.base = Accepted(d), !.dirty = FALSE]]]
      BY <2>8 DEF PushOk
    <3>2. mem' \in [Devices -> [Items -> Copy]]
      BY <3>1, AcceptedIsRow, CopiesMade, OneCopyChanges
    <3>3. sync' \in [Devices -> SyncState] /\ handler' \in [Handlers -> Push]
      <4>1. sync \in [Devices -> SyncState]
        BY DEF SyncTypeOK
      <4>2. QED
        BY <2>0, <2>8, <4>1, FreeKeepsTypes DEF PushOk, SyncState
    <3>4. QED
      BY <2>0, <2>8, <3>2, <3>3 DEF PushOk, SyncTypeOK, TypeOK, fileVars
  <2>9. ASSUME NEW d \in Devices, PushConflict(d) PROVE SyncTypeOK'
    <3> DEFINE i == handler[d].item
    <3>1. mem' = [mem EXCEPT ![d] = [mem[d] EXCEPT ![i] = Adopt(mem[d][i], handler[d].found)]]
      BY <2>9 DEF PushConflict
    <3>2. Adopt(mem[d][i], handler[d].found) \in Copy
      BY AcceptedIsRow, CopiesMade DEF Adopt
    <3>3. mem' \in [Devices -> [Items -> Copy]]
      BY <3>1, <3>2, AcceptedIsRow, OneCopyChanges
    <3>4. sync' \in [Devices -> SyncState] /\ handler' \in [Handlers -> Push]
      <4>1. sync \in [Devices -> SyncState]
        BY DEF SyncTypeOK
      <4>2. QED
        BY <2>0, <2>9, <4>1, FreeKeepsTypes DEF PushConflict, SyncState
    <3>5. QED
      BY <2>0, <2>9, <3>3, <3>4 DEF PushConflict, SyncTypeOK, TypeOK, fileVars
  <2>10. ASSUME NEW d \in Devices, PushFail(d) PROVE SyncTypeOK'
    <3>1. sync' \in [Devices -> SyncState] /\ faults' \in Nat
      BY <2>10, NoCopyIsCopy DEF PushFail, SyncTypeOK
    <3>2. handler' \in [Handlers -> Push]
      BY <2>0, <2>10, FreeKeepsTypes DEF PushFail, TypeOK
    <3>3. QED
      BY <2>0, <2>10, <3>1, <3>2 DEF PushFail, SyncTypeOK, TypeOK, fileVars
  <2>11. ASSUME NEW d \in Devices, Pull(d) PROVE SyncTypeOK'
    <3>0. row \in [Items -> Row] /\ sync \in [Devices -> SyncState]
      BY <2>0 DEF SyncTypeOK, TypeOK
    <3>1. sync' \in [Devices -> SyncState]
      BY <2>11, <3>0 DEF Pull, SyncState
    <3>2. QED
      BY <2>0, <2>11, <3>1 DEF Pull, SyncTypeOK, TypeOK, fileVars
  <2>12. ASSUME NEW d \in Devices, PullFail(d) PROVE SyncTypeOK'
    BY <2>0, <2>12, NoCopyIsCopy DEF PullFail, SyncTypeOK, TypeOK, fileVars
  <2>13. ASSUME NEW d \in Devices, Merge(d) PROVE SyncTypeOK'
    <3>1. \A i \in Items : Merged(mem[d][i], sync[d].pulled[i]) \in Copy
      <4> SUFFICES ASSUME NEW i \in Items PROVE Merged(mem[d][i], sync[d].pulled[i]) \in Copy
        OBVIOUS
      <4>1. sync[d].pulled[i] \in Row
        BY DEF SyncTypeOK, SyncState
      <4>2. QED
        BY <4>1, CopiesMade DEF Merged
    <3>2. mem' \in [Devices -> [Items -> Copy]]
      BY <2>13, <3>1 DEF Merge, SyncTypeOK
    <3>3. /\ save' \in [Devices -> [Writes -> Save]] /\ overlapped' \in [Devices -> BOOLEAN]
          /\ faults' \in Nat /\ UNCHANGED <<disk, torn>>
      BY <2>13, <3>2, PersistKeepsTypes DEF Merge
    <3>4. sync' \in [Devices -> SyncState]
      BY <2>13, NoCopyIsCopy DEF Merge, SyncTypeOK
    <3>5. QED
      BY <2>0, <2>13, <3>2, <3>3, <3>4 DEF Merge, SyncTypeOK, TypeOK
  <2>14. ASSUME NEW d \in Devices, Orphan(d) \/ Serve(d) PROVE SyncTypeOK'
    BY <2>0, <2>14, ServeKeepsTypes DEF Orphan, Serve, SyncTypeOK, deviceVars
  <2>15. ASSUME NEW i \in Items, WebDelete(i) PROVE SyncTypeOK'
    BY <2>0, <2>15 DEF WebDelete, Delete, SyncTypeOK, TypeOK, deviceVars, Row, NoRow
  <2>16. CASE ServerRestart
    BY <2>0, <2>16, IdleIsPush DEF ServerRestart, Restart, SyncTypeOK, TypeOK, fileVars
  <2>17. ASSUME NEW d \in Devices, ConnectionLost(d) PROVE SyncTypeOK'
    BY <2>0, <2>17, NoCopyIsCopy DEF ConnectionLost, SyncTypeOK, TypeOK, fileVars
  <2>18. ASSUME NEW d \in Devices, NEW w \in Writes, WriteFile(d, w) PROVE SyncTypeOK'
    BY <2>18, WriteFileKeepsTypes
  <2>19. CASE UNCHANGED vars
    BY <2>0, <2>19 DEF vars, SyncTypeOK, TypeOK
  <2>20. QED
    BY <2>1, <2>2, <2>3, <2>4, <2>5, <2>6, <2>7, <2>8, <2>9, <2>10, <2>11, <2>12, <2>13,
       <2>14, <2>15, <2>16, <2>17, <2>18, <2>19 DEF SyncNext, SyncStep, Fault
<1>3. QED
  BY <1>1, <1>2, PTL DEF SyncSpec

-----------------------------------------------------------------------------
(* Edits reach the file.                                                       *)

\* As long as no write of d was started while another was under way, there is one
\* under way at most, and the file was not written behind its back.
OneWriter(d) == ~overlapped[d] =>
    \A v, w \in UnderWay(d) : v = w /\ save[d][v].pc = "writing"

\* EditsReachDisk on one device.
Reaches(d) == \A i \in Items : mem[d][i].dirty /\ ~overlapped[d] =>
    IF UnderWay(d) = {} THEN CarriesEdit(disk[d], d, i)
    ELSE \A w \in UnderWay(d) : CarriesEdit(save[d][w].vault, d, i)

Durable == \A d \in Devices : OneWriter(d) /\ Reaches(d)

\* The file of d and what is under way to it stay, and no entry is edited.
LEMMA UntouchedReaches ==
    ASSUME NEW d \in Devices, OneWriter(d) /\ Reaches(d),
           disk'[d] = disk[d], save'[d] = save[d], overlapped'[d] = overlapped[d],
           \A i \in Items : mem'[d][i] = mem[d][i] \/ ~mem'[d][i].dirty
    PROVE  (OneWriter(d) /\ Reaches(d))'
<1>1. UnderWay(d)' = UnderWay(d)
  BY DEF UnderWay
<1>2. OneWriter(d)'
  BY <1>1 DEF OneWriter
<1>3. Reaches(d)'
  BY <1>1 DEF Reaches, CarriesEdit
<1>4. QED
  BY <1>2, <1>3

LEMMA EmptyReaches ==
    ASSUME NEW d \in Devices, mem'[d] = EmptyVault
    PROVE  Reaches(d)'
BY DEF Reaches, EmptyVault, NoCopy

\* The snapshot of persist() is the memory it was called on.
LEMMA PersistedReaches ==
    ASSUME SyncTypeOK, NEW d \in Devices, Persist(d)
    PROVE  /\ (OneWriter(d) /\ Reaches(d))'
           /\ \A e \in Devices : e # d => save'[e] = save[e] /\ overlapped'[e] = overlapped[e]
           /\ UNCHANGED disk
<1>1. PICK w \in Writes : /\ w \notin UnderWay(d)
                          /\ save' = [save EXCEPT ![d][w] = [pc |-> "writing", vault |-> mem'[d]]]
                          /\ overlapped' = [overlapped EXCEPT ![d] = UnderWay(d) # {}]
  BY DEF Persist, Snapshot
<1>2. /\ save'[d][w] = [pc |-> "writing", vault |-> mem'[d]]
      /\ \A v \in Writes : v # w => save'[d][v] = save[d][v]
      /\ overlapped'[d] = (UnderWay(d) # {})
  BY <1>1 DEF SyncTypeOK
<1>3. \A e \in Devices : e # d => save'[e] = save[e] /\ overlapped'[e] = overlapped[e]
  BY <1>1 DEF SyncTypeOK
<1>4. CASE UnderWay(d) = {}
  <2>1. UnderWay(d)' = {w}
    BY <1>2, <1>4 DEF UnderWay
  <2>2. OneWriter(d)'
    BY <1>2, <2>1 DEF OneWriter
  <2>3. Reaches(d)'
    BY <1>2, <2>1 DEF Reaches, CarriesEdit
  <2>4. QED
    BY <1>3, <2>2, <2>3 DEF Persist
<1>5. CASE UnderWay(d) # {}
  <2>1. overlapped'[d]
    BY <1>2, <1>5
  <2>2. QED
    BY <1>3, <2>1 DEF Persist, OneWriter, Reaches
<1>6. QED
  BY <1>4, <1>5

\* The one write under way lands whole.
LEMMA WriteFileReaches ==
    ASSUME SyncTypeOK, NEW d \in Devices, NEW w \in Writes, WriteFile(d, w), OneWriter(d) /\ Reaches(d)
    PROVE  /\ (OneWriter(d) /\ Reaches(d))'
           /\ UNCHANGED <<mem, overlapped>>
           /\ \A e \in Devices : e # d => save'[e] = save[e] /\ disk'[e] = disk[e]
<1>1. /\ w \in UnderWay(d) /\ UNCHANGED <<mem, overlapped>>
      /\ \A e \in Devices : e # d => save'[e] = save[e] /\ disk'[e] = disk[e]
  BY DEF WriteFile, SyncTypeOK
<1>2. CASE overlapped[d]
  BY <1>1, <1>2 DEF OneWriter, Reaches
<1>3. CASE ~overlapped[d]
  <2>1. UnderWay(d) = {w} /\ save[d][w].pc = "writing"
    BY <1>1, <1>3 DEF OneWriter
  <2>2. disk'[d] = save[d][w].vault
    BY <2>1 DEF WriteFile, SyncTypeOK
  <2>3. \A v \in Writes : save'[d][v] = IF v = w THEN NoSave ELSE save[d][v]
    BY <2>1 DEF WriteFile, SyncTypeOK
  <2>4. UnderWay(d)' = {}
    BY <2>1, <2>3 DEF UnderWay, NoSave
  <2>5. Reaches(d)'
    BY <1>1, <1>3, <2>1, <2>2, <2>4 DEF Reaches, CarriesEdit
  <2>6. QED
    BY <1>1, <2>4, <2>5 DEF OneWriter
<1>4. QED
  BY <1>2, <1>3

\* An app that opens shows what the file holds; one that opens while a write is
\* under way may show nothing, and has it noted.
LEMMA UnlockReaches ==
    ASSUME SyncTypeOK, NEW d \in Devices, Unlock(d), OneWriter(d)
    PROVE  /\ (OneWriter(d) /\ Reaches(d))'
           /\ UNCHANGED <<disk, save>>
           /\ \A e \in Devices : e # d => mem'[e] = mem[e] /\ overlapped'[e] = overlapped[e]
<1>1. /\ UNCHANGED <<disk, save>> /\ overlapped'[d] = (UnderWay(d) # {})
      /\ \A e \in Devices : e # d => mem'[e] = mem[e] /\ overlapped'[e] = overlapped[e]
  BY DEF Unlock, SyncTypeOK
<1>2. UnderWay(d)' = UnderWay(d)
  BY <1>1 DEF UnderWay
<1>3. CASE UnderWay(d) = {}
  <2>1. mem'[d] = disk'[d]
    BY <1>1, <1>3 DEF Unlock, Found, SyncTypeOK
  <2>2. QED
    BY <1>1, <1>2, <1>3, <2>1 DEF OneWriter, Reaches, CarriesEdit
<1>4. CASE UnderWay(d) # {}
  BY <1>1, <1>4 DEF OneWriter, Reaches
<1>5. QED
  BY <1>3, <1>4

LEMMA ForgetReaches ==
    ASSUME SyncTypeOK, NEW d \in Devices, Lock(d) \/ Quit(d), OneWriter(d)
    PROVE  /\ (OneWriter(d) /\ Reaches(d))'
           /\ UNCHANGED overlapped
           /\ \A e \in Devices : e # d => mem'[e] = mem[e] /\ disk'[e] = disk[e] /\ save'[e] = save[e]
<1>1. /\ mem'[d] = EmptyVault /\ UNCHANGED overlapped
      /\ \A e \in Devices : e # d => mem'[e] = mem[e] /\ disk'[e] = disk[e] /\ save'[e] = save[e]
  BY DEF Lock, Quit, Forget, SyncTypeOK
<1>2. OneWriter(d)'
  <2>1. CASE Lock(d)
    BY <2>1 DEF Lock, Forget, OneWriter, UnderWay
  <2>2. CASE Quit(d)
    BY <2>2 DEF Quit, OneWriter, UnderWay, NoSave, SyncTypeOK
  <2>3. QED
    BY <2>1, <2>2
<1>3. QED
  BY <1>1, <1>2, EmptyReaches

\* What a step leaves of the durability of the devices it does not touch.
LEMMA OthersReach ==
    ASSUME Durable, NEW d \in Devices, (OneWriter(d) /\ Reaches(d))',
           \A e \in Devices : e # d => /\ mem'[e] = mem[e] /\ disk'[e] = disk[e]
                                       /\ save'[e] = save[e] /\ overlapped'[e] = overlapped[e]
    PROVE  Durable'
<1>1. ASSUME NEW e \in Devices, e # d PROVE (OneWriter(e) /\ Reaches(e))'
  BY <1>1, UntouchedReaches DEF Durable
<1>2. QED
  BY <1>1 DEF Durable

\* An edit marked for sync is in the file, or in the one write of it under way,
\* whatever happens during a sync() and wherever it stops.  The exception are the
\* writes that overlap, which land in either order.
THEOREM EditsArriveOnDisk == SyncSpec => []EditsReachDisk
<1>1. SyncInit => Durable
  BY DEF SyncInit, Durable, OneWriter, Reaches, UnderWay, NoSave, EmptyVault, NoCopy
<1>2. SyncTypeOK /\ Durable /\ [SyncNext]_vars => Durable'
  <2> SUFFICES ASSUME SyncTypeOK, Durable, [SyncNext]_vars PROVE Durable'
    OBVIOUS
  <2>0. \A d \in Devices : OneWriter(d) /\ Reaches(d)
    BY DEF Durable
  <2>1. ASSUME NEW d \in Devices, Unlock(d) PROVE Durable'
    BY <2>0, <2>1, UnlockReaches, OthersReach
  <2>2. ASSUME NEW d \in Devices, Lock(d) \/ Quit(d) PROVE Durable'
    BY <2>0, <2>2, ForgetReaches, OthersReach
  <2>3. ASSUME NEW d \in Devices, NEW w \in Writes, WriteFile(d, w) PROVE Durable'
    BY <2>0, <2>3, WriteFileReaches, OthersReach
  <2>4. ASSUME NEW d \in Devices, Merge(d) \/ \E i \in Items : Add(d, i) \/ Update(d, i) PROVE Durable'
    <3>1. Persist(d) /\ \A e \in Devices : e # d => mem'[e] = mem[e]
      BY <2>4 DEF Add, Update, Merge, SyncTypeOK
    <3>2. QED
      BY <3>1, PersistedReaches, OthersReach
  <2>5. ASSUME UNCHANGED fileVars,
               \A d \in Devices, i \in Items : mem'[d][i] = mem[d][i] \/ ~mem'[d][i].dirty
        PROVE  Durable'
    <3>1. ASSUME NEW d \in Devices PROVE (OneWriter(d) /\ Reaches(d))'
      BY <2>0, <2>5, UntouchedReaches DEF fileVars
    <3>2. QED
      BY <3>1 DEF Durable
  <2>6. ASSUME NEW d \in Devices, PushOk(d) PROVE Durable'
    <3> DEFINE i == handler[d].item
               c == [mem[d][i] EXCEPT !.base = Accepted(d), !.dirty = FALSE]
    <3>1. mem' = [mem EXCEPT ![d] = [mem[d] EXCEPT ![i] = c]] /\ UNCHANGED fileVars
      BY <2>6 DEF PushOk
    <3>2. i \in Items /\ c \in Copy /\ ~c.dirty
      BY AcceptedIsRow, CopiesMade DEF Copy
    <3>3. \A e \in Devices, j \in Items : mem'[e][j] = mem[e][j] \/ ~mem'[e][j].dirty
      BY <3>1, <3>2, OneCopyChanges
    <3>4. QED
      BY <2>5, <3>1, <3>3
  <2>7. ASSUME NEW d \in Devices, PushConflict(d) PROVE Durable'
    <3> DEFINE i == handler[d].item
               c == Adopt(mem[d][i], handler[d].found)
    <3>1. mem' = [mem EXCEPT ![d] = [mem[d] EXCEPT ![i] = c]] /\ UNCHANGED fileVars
      BY <2>7 DEF PushConflict
    <3>2. i \in Items /\ c \in Copy /\ (c = mem[d][i] \/ ~c.dirty)
      BY AcceptedIsRow, CopiesMade DEF Adopt
    <3>3. \A e \in Devices, j \in Items : mem'[e][j] = mem[e][j] \/ ~mem'[e][j].dirty
      BY <3>1, <3>2, OneCopyChanges
    <3>4. QED
      BY <2>5, <3>1, <3>3
  <2>8. ASSUME UNCHANGED <<mem, fileVars>> PROVE Durable'
    BY <2>5, <2>8
  <2>9. CASE UNCHANGED vars
    BY <2>8, <2>9 DEF vars, fileVars
  <2>10. CASE SyncNext
    <3>1. ASSUME NEW d \in Devices,
                 \/ SyncStart(d) \/ ConnectionLost(d) \/ Pull(d) \/ PushFail(d) \/ PullFail(d)
                 \/ Serve(d) \/ Orphan(d) \/ \E i \in Items : SkipClean(d, i) \/ PushDirty(d, i)
          PROVE  UNCHANGED <<mem, fileVars>>
      BY <3>1 DEF SyncStart, ConnectionLost, Pull, PushFail, PullFail, Serve, Orphan, SkipClean, PushDirty,
         deviceVars, fileVars
    <3>2. ServerRestart \/ (\E i \in Items : WebDelete(i)) => UNCHANGED <<mem, fileVars>>
      BY DEF ServerRestart, WebDelete, deviceVars, fileVars
    <3>3. QED
      BY <2>1, <2>2, <2>3, <2>4, <2>6, <2>7, <2>8, <2>10, <3>1, <3>2 DEF SyncNext, SyncStep, Fault
  <2>11. QED
    BY <2>9, <2>10
<1>3. Durable => EditsReachDisk
  BY DEF Durable, Reaches, EditsReachDisk
<1>4. QED
  BY <1>1, <1>2, <1>3, SyncTypeCorrect, PTL DEF SyncSpec

-----------------------------------------------------------------------------
(* What is not marked for sync is stored.                                      *)

Stored(i, r) == [item |-> i, version |-> r.version, blob |-> r.blob] \in log

\* Whatever the server found, answered or sent comes from its log.
FoundLogged == \A h \in Handlers : handler[h].found # NoRow => Stored(handler[h].item, handler[h].found)
OkLogged == \A h \in Handlers : handler[h].pc = "ok" => Stored(handler[h].item, Accepted(h))
PulledLogged == \A d \in Devices, i \in Items :
                   sync[d].pulled[i] # NoRow => Stored(i, sync[d].pulled[i])

\* While a device awaits an answer its entry stays as it was sent.
AwaitedUnchanged == \A d \in Devices :
    sync[d].pc = "await" /\ handler[d].pc # "idle" =>
        /\ mem[d][handler[d].item].content = handler[d].blob
        /\ mem[d][handler[d].item].dirty

\* A locked device runs no sync().
ClosedIsIdle == \A d \in Devices : ~open[d] => sync[d].pc = "idle"

\* The entries of a device that are not marked are stored as they are.
CleanStored(copy, i) == copy.content # 0 /\ ~copy.dirty
                          => [item |-> i, version |-> copy.base.version, blob |-> copy.content] \in log
CleanInMemory == \A d \in Devices, i \in Items : CleanStored(mem[d][i], i)
CleanOnDisk == \A d \in Devices, i \in Items : \A v \in Files(d) : CleanStored(v[i], i)

ServerBacked == RowsLogged /\ FoundLogged /\ OkLogged
DeviceBacked == PulledLogged /\ CleanInMemory /\ CleanOnDisk
Backed == ServerBacked /\ DeviceBacked /\ AwaitedUnchanged /\ ClosedIsIdle

\* What a step of d may put into its file, or on the way there: its memory, or nothing.
LEMMA FilesMade ==
    ASSUME SyncTypeOK, NEW d \in Devices,
           UNCHANGED <<disk, save>> \/ Persist(d) \/ Lock(d) \/ Quit(d) \/ \E w \in Writes : WriteFile(d, w)
    PROVE  /\ Files(d)' \subseteq Files(d) \cup {mem'[d], EmptyVault}
           /\ \A e \in Devices : e # d => Files(e)' = Files(e)
<1>0. disk \in [Devices -> [Items -> Copy]] /\ save \in [Devices -> [Writes -> Save]]
  BY DEF SyncTypeOK
<1>1. CASE UNCHANGED <<disk, save>> \/ Lock(d)
  BY <1>1 DEF Lock, Files
<1>2. CASE Persist(d)
  <2>1. PICK w \in Writes : save' = [save EXCEPT ![d][w] = [pc |-> "writing", vault |-> mem'[d]]]
    BY <1>2 DEF Persist, Snapshot
  <2>2. /\ UNCHANGED disk /\ \A e \in Devices : e # d => save'[e] = save[e]
        /\ \A v \in Writes : save'[d][v].vault = mem'[d] \/ save'[d][v] = save[d][v]
    BY <1>0, <1>2, <2>1 DEF Persist
  <2>3. QED
    BY <2>2 DEF Files
<1>3. ASSUME NEW w \in Writes, WriteFile(d, w)
      PROVE  /\ Files(d)' \subseteq Files(d) \cup {mem'[d], EmptyVault}
             /\ \A e \in Devices : e # d => Files(e)' = Files(e)
  <2>0. \A v \in Writes : [save[d][v] EXCEPT !.pc = "late"].vault = save[d][v].vault
    BY <1>0 DEF Save
  <2>1. /\ disk'[d] = save[d][w].vault \/ disk'[d] = EmptyVault
        /\ \A e \in Devices : e # d => save'[e] = save[e] /\ disk'[e] = disk[e]
    BY <1>0, <1>3 DEF WriteFile
  <2>2. \A v \in Writes : save'[d][v].vault = EmptyVault \/ save'[d][v].vault = save[d][v].vault
    BY <1>0, <1>3, <2>0 DEF WriteFile, NoSave
  <2>3. QED
    BY <2>1, <2>2 DEF Files
<1>4. CASE Quit(d)
  <2>1. PICK vault \in Found(d) : disk' = [disk EXCEPT ![d] = vault]
    BY <1>4 DEF Quit
  <2>2. /\ disk'[d] = vault /\ \A v \in Writes : save'[d][v] = NoSave
        /\ \A e \in Devices : e # d => save'[e] = save[e] /\ disk'[e] = disk[e]
    BY <1>0, <1>4, <2>1 DEF Quit
  <2>3. QED
    BY <2>2, FoundIsVault DEF Files, NoSave
<1>5. QED
  BY <1>1, <1>2, <1>3, <1>4

LEMMA ServerQuiet ==
    ASSUME ServerBacked, UNCHANGED <<row, log>>,
           \A h \in Handlers : handler'[h] = handler[h] \/ (handler'[h].pc \in {"idle", "get"} /\ handler'[h].found = NoRow)
    PROVE  ServerBacked'
<1>1. RowsLogged'
  BY DEF ServerBacked, RowsLogged
<1>2. FoundLogged'
  BY DEF ServerBacked, FoundLogged, Stored
<1>3. OkLogged'
  BY DEF ServerBacked, OkLogged, Stored, Accepted
<1>4. QED
  BY <1>1, <1>2, <1>3 DEF ServerBacked

LEMMA DeviceQuiet ==
    ASSUME DeviceBacked, log \subseteq log', UNCHANGED <<mem, disk, save>>,
           \A d \in Devices : sync'[d].pulled = sync[d].pulled \/ sync'[d] = NoSync
    PROVE  DeviceBacked'
<1>1. \A i \in Items : NoSync.pulled[i] = NoRow
  BY DEF NoSync
<1>2. PulledLogged'
  BY <1>1 DEF DeviceBacked, PulledLogged, Stored
<1>3. CleanInMemory' /\ CleanOnDisk'
  BY DEF DeviceBacked, CleanInMemory, CleanOnDisk, CleanStored, Files
<1>4. QED
  BY <1>2, <1>3 DEF DeviceBacked

\* What goes to the file is what memory shows, or nothing.
LEMMA FileBacked ==
    ASSUME SyncTypeOK, DeviceBacked, UNCHANGED log, CleanInMemory', NEW d \in Devices,
           UNCHANGED <<disk, save>> \/ Persist(d) \/ Lock(d) \/ Quit(d) \/ \E w \in Writes : WriteFile(d, w)
    PROVE  CleanOnDisk'
<1>1. \A i \in Items : CleanStored(EmptyVault[i], i)' /\ CleanStored(mem[d][i], i)'
  BY DEF EmptyVault, NoCopy, CleanStored, CleanInMemory
<1>2. \A e \in Devices, i \in Items : \A v \in Files(e) : CleanStored(v[i], i)
  BY DEF DeviceBacked, CleanOnDisk
<1>3. ASSUME NEW e \in Devices, NEW i \in Items, NEW v \in Files(e)' PROVE CleanStored(v[i], i)'
  <2>1. v \in Files(e) \/ (e = d /\ v \in {mem'[d], EmptyVault})
    BY <1>3, FilesMade
  <2>2. CASE v \in Files(e)
    BY <1>2, <2>2 DEF CleanStored
  <2>3. CASE e = d /\ v \in {mem'[d], EmptyVault}
    <3>1. v[i] = mem'[d][i] \/ v[i] = EmptyVault[i]
      BY <2>3
    <3>2. QED
      BY <1>1, <3>1 DEF CleanStored, EmptyVault, NoCopy
  <2>4. QED
    BY <2>1, <2>2, <2>3
<1>4. QED
  BY <1>3 DEF CleanOnDisk

\* One entry of one device changes to one that is marked, or stored.
LEMMA DeviceWrites ==
    ASSUME SyncTypeOK, DeviceBacked, UNCHANGED log, NEW d \in Devices, NEW i \in Items, NEW c \in Copy,
           mem' = [mem EXCEPT ![d] = [mem[d] EXCEPT ![i] = c]],
           CleanStored(c, i),
           UNCHANGED <<disk, save>> \/ Persist(d),
           \A e \in Devices : sync'[e].pulled = sync[e].pulled
    PROVE  DeviceBacked'
<1>1. PulledLogged'
  BY DEF DeviceBacked, PulledLogged, Stored
<1>2. mem'[d][i] = c /\ \A e \in Devices, j \in Items : e # d \/ j # i => mem'[e][j] = mem[e][j]
  <2>1. mem \in [Devices -> [Items -> Copy]] /\ mem[d] \in [Items -> Copy]
    BY DEF SyncTypeOK
  <2> DEFINE v == [mem[d] EXCEPT ![i] = c]
  <2>2. v[i] = c /\ \A j \in Items : j # i => v[j] = mem[d][j]
    BY <2>1
  <2>3. mem' = [mem EXCEPT ![d] = v]
    OBVIOUS
  <2>4. mem'[d] = v /\ \A e \in Devices : e # d => mem'[e] = mem[e]
    BY ONLY <2>1, <2>3, d \in Devices
  <2>5. QED
    BY <2>2, <2>4
<1>3. CleanInMemory'
  BY <1>2 DEF DeviceBacked, CleanInMemory, CleanStored
<1>4. CleanOnDisk'
  BY <1>3, FileBacked
<1>5. QED
  BY <1>1, <1>3, <1>4 DEF DeviceBacked

\* The steps of the server.
LEMMA ServerStepBacked ==
    ASSUME SyncTypeOK, ServerBacked, NEW h \in Handlers,
           ReadRow(h) \/ WriteRow(h)
    PROVE  ServerBacked' /\ log \subseteq log'
<1> DEFINE p == handler[h]
<1>0. /\ p \in Push /\ p.item \in Items /\ p.found \in Row /\ handler \in [Handlers -> Push]
      /\ row \in [Items -> Row]
  BY DEF SyncTypeOK, TypeOK, Push
<1>1. CASE ReadRow(h)
  <2>1. /\ UNCHANGED <<row, log>>
        /\ \A g \in Handlers \ {h} : handler'[g] = handler[g]
        /\ handler'[h].found = row[p.item] /\ handler'[h].item = p.item /\ handler'[h].pc \in {"conflict", "put"}
    BY <1>0, <1>1 DEF ReadRow, Push
  <2>2. RowsLogged' /\ log \subseteq log'
    BY <2>1 DEF ServerBacked, RowsLogged
  <2>3. FoundLogged'
    BY <1>0, <2>1 DEF ServerBacked, FoundLogged, RowsLogged, Stored
  <2>4. OkLogged'
    BY <2>1 DEF ServerBacked, OkLogged, Accepted, Stored
  <2>5. QED
    BY <2>2, <2>3, <2>4 DEF ServerBacked
<1>2. CASE WriteRow(h)
  <2> DEFINE new == [version |-> NewVersion(p.found), blob |-> p.blob]
  <2>1. /\ row' = [row EXCEPT ![p.item] = new]
        /\ log' = log \cup {[item |-> p.item, version |-> new.version, blob |-> new.blob]}
        /\ handler' = [handler EXCEPT ![h].pc = "ok"]
    BY <1>2 DEF WriteRow
  <2>2. /\ \A g \in Handlers \ {h} : handler'[g] = handler[g]
        /\ handler'[h].found = p.found /\ handler'[h].item = p.item /\ handler'[h].blob = p.blob
    BY <1>0, <2>1 DEF Push
  <2>3. RowsLogged' /\ log \subseteq log'
    BY <1>0, <2>1 DEF ServerBacked, RowsLogged
  <2>4. FoundLogged'
    BY <2>2, <2>3 DEF ServerBacked, FoundLogged, Stored
  <2>5. Stored(p.item, new)'
    BY <2>1 DEF Stored
  <2>6. OkLogged'
    BY <2>2, <2>3, <2>5 DEF ServerBacked, OkLogged, Accepted, Stored
  <2>7. QED
    BY <2>3, <2>4, <2>6 DEF ServerBacked
<1>3. QED
  BY <1>1, <1>2

LEMMA DeleteBacked ==
    ASSUME SyncTypeOK, ServerBacked, NEW i \in Items, Delete(i)
    PROVE  ServerBacked'
<1>1. row' = [row EXCEPT ![i] = NoRow] /\ UNCHANGED <<handler, log>>
  BY DEF Delete
<1>2. RowsLogged'
  BY <1>1 DEF ServerBacked, RowsLogged, SyncTypeOK, TypeOK
<1>3. FoundLogged' /\ OkLogged'
  BY <1>1 DEF ServerBacked, FoundLogged, OkLogged, Stored, Accepted
<1>4. QED
  BY <1>2, <1>3 DEF ServerBacked

LEMMA IdleIsEmpty == Idle.pc = "idle" /\ Idle.found = NoRow /\ NoSync.pc = "idle"
BY DEF Idle, NoSync

\* A step of one device that leaves it not awaiting anything.
LEMMA AwaitQuiet ==
    ASSUME AwaitedUnchanged,
           \A e \in Devices :
              \/ sync'[e].pc # "await"
              \/ handler'[e].pc = "idle"
              \/ /\ sync[e].pc = "await" /\ handler[e].pc # "idle"
                 /\ handler'[e].item = handler[e].item /\ handler'[e].blob = handler[e].blob
                 /\ mem'[e] = mem[e]
    PROVE  AwaitedUnchanged'
BY DEF AwaitedUnchanged

\* A device ends its wait, or was not waiting; the others are where they were.
LEMMA OneDeviceBacked ==
    ASSUME AwaitedUnchanged, ClosedIsIdle, NEW d \in Devices,
           \A e \in Devices : e # d =>
              sync'[e] = sync[e] /\ handler'[e] = handler[e] /\ mem'[e] = mem[e] /\ open'[e] = open[e],
           sync'[d].pc # "await",
           open'[d] \/ sync'[d].pc = "idle"
    PROVE  AwaitedUnchanged' /\ ClosedIsIdle'
<1>1. AwaitedUnchanged'
  BY AwaitQuiet
<1>2. ClosedIsIdle'
  BY DEF ClosedIsIdle
<1>3. QED
  BY <1>1, <1>2

\* The calls of the user.
LEMMA UserKeepsBacked ==
    ASSUME EditDuringSync = FALSE, SyncTypeOK, Backed, NEW d \in Devices,
           \/ Unlock(d) \/ Lock(d) \/ Quit(d)
           \/ \E i \in Items : Add(d, i) \/ Update(d, i)
    PROVE  Backed'
<1> USE DEF Backed
<1>0. UNCHANGED <<row, handler, log>>
  BY DEF Unlock, Lock, Quit, Forget, Add, Update
<1>1. ServerBacked'
  BY <1>0, ServerQuiet
<1>2. CASE Unlock(d)
  <2>1. PICK vault \in Found(d) : mem' = [mem EXCEPT ![d] = vault]
    BY <1>2 DEF Unlock
  <2>2. UNCHANGED <<sync, disk, save>> /\ ~open[d] /\ open' = [open EXCEPT ![d] = TRUE]
    BY <1>2 DEF Unlock
  <2>3. PulledLogged' /\ CleanOnDisk'
    BY <1>0, <2>2 DEF DeviceBacked, PulledLogged, Stored, CleanOnDisk, CleanStored, Files
  <2>4. mem'[d] = vault /\ \A e \in Devices : e # d => mem'[e] = mem[e] /\ open'[e] = open[e]
    BY <2>1, <2>2 DEF SyncTypeOK
  <2>5. \A i \in Items : CleanStored(vault[i], i)
    BY FoundIsVault DEF DeviceBacked, CleanOnDisk, CleanStored, EmptyVault, NoCopy
  <2>6. CleanInMemory'
    BY <1>0, <2>4, <2>5 DEF DeviceBacked, CleanInMemory, CleanStored
  <2>7. sync'[d].pc = "idle"
    BY <2>2 DEF ClosedIsIdle
  <2>8. AwaitedUnchanged' /\ ClosedIsIdle'
    BY <1>0, <2>2, <2>4, <2>7, OneDeviceBacked
  <2>9. QED
    BY <1>1, <2>3, <2>6, <2>8 DEF DeviceBacked
<1>3. CASE Lock(d) \/ Quit(d)
  <2>1. /\ open' = [open EXCEPT ![d] = FALSE]
        /\ mem' = [mem EXCEPT ![d] = EmptyVault] /\ sync' = [sync EXCEPT ![d] = NoSync]
    BY <1>3 DEF Lock, Quit, Forget
  <2>2. /\ mem'[d] = EmptyVault /\ sync'[d] = NoSync
        /\ \A e \in Devices : e # d => mem'[e] = mem[e] /\ open'[e] = open[e] /\ sync'[e] = sync[e]
    BY <2>1 DEF SyncTypeOK
  <2>3. PulledLogged'
    BY <1>0, <2>2 DEF DeviceBacked, PulledLogged, Stored, NoSync
  <2>4. CleanInMemory'
    BY <1>0, <2>2 DEF DeviceBacked, CleanInMemory, CleanStored, EmptyVault, NoCopy
  <2>5. CleanOnDisk'
    BY <1>0, <1>3, <2>4, FileBacked
  <2>6. AwaitedUnchanged' /\ ClosedIsIdle'
    BY <1>0, <2>2, IdleIsEmpty, OneDeviceBacked
  <2>7. QED
    BY <1>1, <2>3, <2>4, <2>5, <2>6 DEF DeviceBacked
<1>4. ASSUME NEW i \in Items, Add(d, i) PROVE Backed'
  <2> DEFINE c == [content |-> blobs', base |-> NoRow, dirty |-> TRUE]
  <2>1. /\ mem' = [mem EXCEPT ![d] = [mem[d] EXCEPT ![i] = c]]
        /\ Persist(d) /\ UNCHANGED open /\ mem[d][i] = NoCopy /\ blobs' = blobs + 1
    BY <1>4 DEF Add, Fresh
  <2>2. c \in Copy
    <3>1. blobs' \in Nat
      BY <2>1 DEF SyncTypeOK, TypeOK
    <3>2. QED
      BY <3>1, CopiesMade
  <2>3. \A e \in Devices : sync'[e].pulled = sync[e].pulled /\ sync'[e].pc = sync[e].pc
    BY <1>4 DEF Add, SyncTypeOK, SyncState
  <2>4. CleanStored(c, i)
    BY DEF CleanStored
  <2>5. DeviceBacked'
    BY <1>0, <2>1, <2>2, <2>3, <2>4, DeviceWrites
  <2>6. \A e \in Devices, j \in Items : e # d \/ j # i => mem'[e][j] = mem[e][j]
    BY <2>1, <2>2, OneCopyChanges
  <2>7. AwaitedUnchanged'
    <3> SUFFICES ASSUME NEW e \in Devices, sync[e].pc = "await", handler[e].pc # "idle"
                 PROVE  /\ mem'[e][handler[e].item].content = handler[e].blob
                        /\ mem'[e][handler[e].item].dirty
      BY <1>0, <2>3 DEF AwaitedUnchanged
    <3>1. mem[e][handler[e].item].content = handler[e].blob /\ mem[e][handler[e].item].dirty
      BY DEF AwaitedUnchanged
    <3>2. handler[e].item \in Items
      BY AcceptedIsRow
    <3>3. e # d \/ handler[e].item # i
      BY <2>1, <3>1 DEF NoCopy
    <3>4. QED
      BY <2>6, <3>1, <3>2, <3>3
  <2>8. ClosedIsIdle'
    BY <2>1, <2>3 DEF ClosedIsIdle
  <2>9. QED
    BY <1>1, <2>5, <2>7, <2>8
<1>5. ASSUME NEW i \in Items, Update(d, i) PROVE Backed'
  <2> DEFINE c == [mem[d][i] EXCEPT !.content = blobs', !.dirty = TRUE]
  <2>1. /\ mem' = [mem EXCEPT ![d] = [mem[d] EXCEPT ![i] = c]]
        /\ Persist(d) /\ UNCHANGED <<open, sync>> /\ blobs' = blobs + 1
        /\ open[d] /\ sync[d].pc = "idle"
    BY <1>5 DEF Update
  <2>2. c \in Copy
    <3>1. blobs' \in Nat
      BY <2>1 DEF SyncTypeOK, TypeOK
    <3>2. QED
      BY <3>1, CopiesMade
  <2>3. CleanStored(c, i)
    BY CopiesMade DEF CleanStored, Copy
  <2>4. DeviceBacked'
    BY <1>0, <2>1, <2>2, <2>3, DeviceWrites
  <2>5. \A e \in Devices : e # d => mem'[e] = mem[e]
    BY <2>1 DEF SyncTypeOK
  <2>6. AwaitedUnchanged' /\ ClosedIsIdle'
    BY <1>0, <2>1, <2>5, OneDeviceBacked
  <2>7. QED
    BY <1>1, <2>4, <2>6
<1>6. QED
  BY <1>2, <1>3, <1>4, <1>5

LEMMA WriteFileKeepsBacked ==
    ASSUME SyncTypeOK, Backed, NEW d \in Devices, NEW w \in Writes, WriteFile(d, w)
    PROVE  Backed'
<1>1. UNCHANGED <<open, mem, sync, row, handler, log>>
  BY DEF WriteFile
<1>2. ServerBacked' /\ AwaitedUnchanged' /\ ClosedIsIdle'
  BY <1>1, ServerQuiet DEF Backed, AwaitedUnchanged, ClosedIsIdle
<1>3. PulledLogged' /\ CleanInMemory'
  BY <1>1 DEF Backed, DeviceBacked, PulledLogged, Stored, CleanInMemory, CleanStored
<1>4. CleanOnDisk'
  BY <1>1, <1>3, FileBacked DEF Backed
<1>5. QED
  BY <1>2, <1>3, <1>4 DEF Backed, DeviceBacked

\* The steps of sync() between two awaits, and its failures, change no entry.
LEMMA QuietSyncKeepsBacked ==
    ASSUME SyncTypeOK, Backed, NEW d \in Devices,
           \/ SyncStart(d) \/ PushFail(d) \/ PullFail(d) \/ ConnectionLost(d)
           \/ \E i \in Items : SkipClean(d, i)
    PROVE  Backed'
<1> USE DEF Backed
<1>1. UNCHANGED <<row, log, mem, disk, save, open>>
  BY DEF SyncStart, PushFail, PullFail, ConnectionLost, SkipClean, fileVars
<1>2. handler' = handler \/ handler' = [handler EXCEPT ![d] = Idle]
  BY DEF SyncStart, PushFail, PullFail, ConnectionLost, SkipClean
<1>3. \/ sync' = [sync EXCEPT ![d] = NoSync]
      \/ open[d] /\ \E t \in SUBSET Items : sync' = [sync EXCEPT ![d] = [sync[d] EXCEPT !.pc = "push", !.todo = t]]
      \/ sync[d].pc = "push" /\ \E t \in SUBSET Items : sync' = [sync EXCEPT ![d].todo = t]
  <2>1. CASE SyncStart(d)
    BY <2>1 DEF SyncStart
  <2>2. CASE PushFail(d) \/ PullFail(d) \/ ConnectionLost(d)
    BY <2>2 DEF PushFail, PullFail, ConnectionLost
  <2>3. ASSUME NEW i \in Items, SkipClean(d, i)
        PROVE  sync[d].pc = "push" /\ \E t \in SUBSET Items : sync' = [sync EXCEPT ![d].todo = t]
    <3>1. sync[d].todo \ {i} \in SUBSET Items
      BY DEF SyncTypeOK, SyncState
    <3>2. QED
      BY <2>3, <3>1 DEF SkipClean
  <2>4. QED
    BY <2>1, <2>2, <2>3
<1>4. /\ \A e \in Devices : e # d => sync'[e] = sync[e]
      /\ sync'[d] = NoSync \/ sync'[d].pulled = sync[d].pulled
      /\ sync'[d].pc # "await"
      /\ open[d] \/ sync'[d].pc = "idle"
  <2>1. CASE sync' = [sync EXCEPT ![d] = NoSync]
    BY <2>1, IdleIsEmpty DEF SyncTypeOK
  <2>2. ASSUME NEW t \in SUBSET Items,
               open[d], sync' = [sync EXCEPT ![d] = [sync[d] EXCEPT !.pc = "push", !.todo = t]]
        PROVE  /\ \A e \in Devices : e # d => sync'[e] = sync[e]
               /\ sync'[d].pulled = sync[d].pulled /\ sync'[d].pc # "await"
    BY <2>2 DEF SyncTypeOK, SyncState
  <2>3. ASSUME NEW t \in SUBSET Items,
               sync[d].pc = "push", sync' = [sync EXCEPT ![d].todo = t]
        PROVE  /\ \A e \in Devices : e # d => sync'[e] = sync[e]
               /\ sync'[d].pulled = sync[d].pulled /\ sync'[d].pc = "push"
    BY <2>3 DEF SyncTypeOK, SyncState
  <2>4. sync[d].pc = "push" => open[d]
    BY DEF ClosedIsIdle
  <2>5. QED
    BY <1>3, <2>1, <2>2, <2>3, <2>4
<1>5. \A h \in Handlers : handler'[h] = handler[h] \/ handler'[h] = Idle
  BY <1>2 DEF SyncTypeOK, TypeOK
<1>6. ServerBacked'
  BY <1>1, <1>5, IdleIsEmpty, ServerQuiet
<1>7. DeviceBacked'
  BY <1>1, <1>4, DeviceQuiet
<1>8. \A e \in Devices : e # d => handler'[e] = handler[e]
  BY <1>2 DEF SyncTypeOK, TypeOK, Devices
<1>9. AwaitedUnchanged' /\ ClosedIsIdle'
  BY <1>1, <1>4, <1>8, OneDeviceBacked
<1>10. QED
  BY <1>6, <1>7, <1>9

LEMMA PushDirtyKeepsBacked ==
    ASSUME SyncTypeOK, Backed, NEW d \in Devices, NEW i \in Items, PushDirty(d, i)
    PROVE  Backed'
<1> USE DEF Backed
<1>1. /\ UNCHANGED <<row, log, mem, disk, save, open>>
      /\ sync[d].pc = "push" /\ mem[d][i].dirty
      /\ sync' = [sync EXCEPT ![d] = [sync[d] EXCEPT !.pc = "await", !.todo = sync[d].todo \ {i}]]
      /\ handler' = [handler EXCEPT ![d] = [pc |-> "get", item |-> i, base |-> mem[d][i].base,
                                            blob |-> mem[d][i].content, found |-> NoRow]]
  BY DEF PushDirty, Submit, fileVars
<1>2. /\ handler'[d].pc = "get" /\ handler'[d].item = i /\ handler'[d].found = NoRow
      /\ handler'[d].blob = mem[d][i].content
      /\ \A h \in Handlers : h # d => handler'[h] = handler[h]
  BY <1>1 DEF SyncTypeOK, TypeOK, Devices
<1>3. /\ \A e \in Devices : e # d => sync'[e] = sync[e]
      /\ sync'[d].pulled = sync[d].pulled /\ sync'[d].pc = "await"
  BY <1>1 DEF SyncTypeOK, SyncState
<1>4. ServerBacked'
  BY <1>1, <1>2, ServerQuiet
<1>5. DeviceBacked'
  BY <1>1, <1>3, DeviceQuiet
<1>6. AwaitedUnchanged'
  BY <1>1, <1>2, <1>3 DEF AwaitedUnchanged, Devices
<1>7. ClosedIsIdle'
  BY <1>1, <1>3 DEF ClosedIsIdle
<1>8. QED
  BY <1>4, <1>5, <1>6, <1>7

\* The answer of a push arrives.
LEMMA AnswerKeepsBacked ==
    ASSUME SyncTypeOK, Backed, NEW d \in Devices, PushOk(d) \/ PushConflict(d)
    PROVE  Backed'
<1> USE DEF Backed
<1> DEFINE i == handler[d].item
<1>1. /\ UNCHANGED <<row, log, disk, save, open>>
      /\ sync[d].pc = "await"
      /\ sync' = [sync EXCEPT ![d].pc = "push"]
      /\ handler' = [handler EXCEPT ![d] = Idle]
  BY DEF PushOk, PushConflict, fileVars
<1>2. i \in Items /\ handler[d].found \in Row /\ Accepted(d) \in Row /\ mem[d][i] \in Copy
  BY AcceptedIsRow, CopiesMade
<1>3. \E c \in Copy : CleanStored(c, i) /\ mem' = [mem EXCEPT ![d] = [mem[d] EXCEPT ![i] = c]]
  <2>1. CASE PushOk(d)
    <3> DEFINE c == [mem[d][i] EXCEPT !.base = Accepted(d), !.dirty = FALSE]
    <3>1. mem' = [mem EXCEPT ![d] = [mem[d] EXCEPT ![i] = c]] /\ handler[d].pc = "ok"
      BY <2>1 DEF PushOk
    <3>2. c \in Copy
      BY <1>2, CopiesMade
    <3>3. c.base = Accepted(d) /\ c.content = mem[d][i].content
      BY <1>2 DEF Copy
    <3>4. mem[d][i].content = handler[d].blob
      BY <1>1, <3>1 DEF AwaitedUnchanged
    <3>5. Stored(i, Accepted(d))
      BY <3>1 DEF ServerBacked, OkLogged, Devices
    <3>6. Accepted(d).blob = handler[d].blob
      BY DEF Accepted
    <3>7. CleanStored(c, i)
      BY <3>3, <3>4, <3>5, <3>6 DEF CleanStored, Stored
    <3>8. QED
      BY <3>1, <3>2, <3>7
  <2>2. CASE PushConflict(d)
    <3> DEFINE r == handler[d].found
               c == Adopt(mem[d][i], r)
    <3>1. mem' = [mem EXCEPT ![d] = [mem[d] EXCEPT ![i] = c]]
      BY <2>2 DEF PushConflict
    <3>2. c \in Copy
      BY <1>2, CopiesMade DEF Adopt
    <3>3. CASE r = NoRow
      <4>1. c = mem[d][i] /\ CleanStored(mem[d][i], i)
        BY <1>2, <3>3 DEF Adopt, DeviceBacked, CleanInMemory
      <4>2. QED
        BY <3>1, <3>2, <4>1
    <3>4. CASE r # NoRow
      <4>1. Stored(i, r)
        BY <3>4 DEF ServerBacked, FoundLogged, Devices
      <4>2. c = [content |-> r.blob, base |-> r, dirty |-> FALSE]
        BY <3>4 DEF Adopt
      <4>3. CleanStored(c, i)
        BY <4>1, <4>2 DEF CleanStored, Stored
      <4>4. QED
        BY <3>1, <3>2, <4>3
    <3>5. QED
      BY <3>3, <3>4
  <2>3. QED
    BY <2>1, <2>2
<1>4. PICK c \in Copy : CleanStored(c, i) /\ mem' = [mem EXCEPT ![d] = [mem[d] EXCEPT ![i] = c]]
  BY <1>3
<1>5. \A e \in Devices : sync'[e].pulled = sync[e].pulled /\ (e # d => sync'[e] = sync[e])
  BY <1>1 DEF SyncTypeOK, SyncState
<1>6. DeviceBacked'
  BY <1>1, <1>2, <1>4, <1>5, DeviceWrites
<1>7. ServerBacked'
  <2>1. \A h \in Handlers : handler'[h] = handler[h] \/ handler'[h] = Idle
    BY <1>1 DEF SyncTypeOK, TypeOK
  <2>2. QED
    BY <1>1, <2>1, IdleIsEmpty, ServerQuiet
<1>8. sync'[d].pc = "push" /\ open[d]
  BY <1>1 DEF SyncTypeOK, SyncState, ClosedIsIdle
<1>9. \A e \in Devices : e # d => handler'[e] = handler[e] /\ mem'[e] = mem[e]
  BY <1>1, <1>4 DEF SyncTypeOK, TypeOK, Devices
<1>10. AwaitedUnchanged' /\ ClosedIsIdle'
  BY <1>1, <1>5, <1>8, <1>9, OneDeviceBacked
<1>11. QED
  BY <1>6, <1>7, <1>10

LEMMA PullKeepsBacked ==
    ASSUME SyncTypeOK, Backed, NEW d \in Devices, Pull(d)
    PROVE  Backed'
<1> USE DEF Backed
<1>1. /\ UNCHANGED <<row, log, mem, disk, save, open, handler>>
      /\ sync[d].pc = "push"
      /\ sync' = [sync EXCEPT ![d] = [sync[d] EXCEPT !.pc = "merge", !.pulled = row]]
  BY DEF Pull, fileVars
<1>2. sync'[d].pulled = row /\ sync'[d].pc = "merge" /\ \A e \in Devices : e # d => sync'[e] = sync[e]
  BY <1>1 DEF SyncTypeOK, SyncState
<1>3. ServerBacked'
  BY <1>1, ServerQuiet
<1>4. PulledLogged'
  BY <1>1, <1>2 DEF ServerBacked, RowsLogged, DeviceBacked, PulledLogged, Stored
<1>5. CleanInMemory' /\ CleanOnDisk'
  BY <1>1 DEF DeviceBacked, CleanInMemory, CleanOnDisk, CleanStored, Files
<1>6. AwaitedUnchanged' /\ ClosedIsIdle'
  <2>1. open[d]
    BY <1>1 DEF ClosedIsIdle
  <2>2. QED
    BY <1>1, <1>2, <2>1, OneDeviceBacked
<1>7. QED
  BY <1>3, <1>4, <1>5, <1>6 DEF DeviceBacked

LEMMA MergeKeepsBacked ==
    ASSUME SyncTypeOK, Backed, NEW d \in Devices, Merge(d)
    PROVE  Backed'
<1> USE DEF Backed
<1> DEFINE v == [i \in Items |-> Merged(mem[d][i], sync[d].pulled[i])]
<1>1. /\ UNCHANGED <<row, log, open, handler>> /\ Persist(d)
      /\ mem' = [mem EXCEPT ![d] = v] /\ sync' = [sync EXCEPT ![d] = NoSync]
  BY DEF Merge
<1>2. /\ mem'[d] = v /\ \A e \in Devices : e # d => mem'[e] = mem[e]
      /\ sync'[d] = NoSync /\ \A e \in Devices : e # d => sync'[e] = sync[e]
  BY <1>1 DEF SyncTypeOK
<1>3. ServerBacked'
  BY <1>1, ServerQuiet
<1>4. \A i \in Items : CleanStored(v[i], i)
  <2> SUFFICES ASSUME NEW i \in Items PROVE CleanStored(v[i], i)
    OBVIOUS
  <2> DEFINE r == sync[d].pulled[i]
  <2>1. v[i] = mem[d][i] \/ (r # NoRow /\ v[i] = [content |-> r.blob, base |-> r, dirty |-> FALSE])
    BY DEF Merged
  <2>2. CASE v[i] = mem[d][i]
    BY <2>2 DEF DeviceBacked, CleanInMemory
  <2>3. CASE r # NoRow /\ v[i] = [content |-> r.blob, base |-> r, dirty |-> FALSE]
    BY <2>3 DEF DeviceBacked, PulledLogged, Stored, CleanStored
  <2>4. QED
    BY <2>1, <2>2, <2>3
<1>5. \A e \in Devices, i \in Items : CleanStored(mem'[e][i], i)
  BY <1>2, <1>4 DEF DeviceBacked, CleanInMemory
<1>6. CleanInMemory'
  BY <1>1, <1>5 DEF CleanInMemory, CleanStored
<1>7. CleanOnDisk'
  BY <1>1, <1>6, FileBacked
<1>8. PulledLogged'
  BY <1>1, <1>2 DEF DeviceBacked, PulledLogged, Stored, NoSync
<1>9. AwaitedUnchanged' /\ ClosedIsIdle'
  BY <1>1, <1>2, IdleIsEmpty, OneDeviceBacked
<1>10. QED
  BY <1>3, <1>6, <1>7, <1>8, <1>9 DEF DeviceBacked

\* The server goes on, restarts, or loses a row to the web client.
LEMMA ServerKeepsBacked ==
    ASSUME SyncTypeOK, Backed,
           \/ \E d \in Devices : Serve(d) \/ Orphan(d)
           \/ \E i \in Items : WebDelete(i)
           \/ ServerRestart
    PROVE  Backed'
<1> USE DEF Backed
<1>1. UNCHANGED <<open, mem, disk, save, sync>>
  BY DEF Serve, Orphan, WebDelete, ServerRestart, deviceVars, fileVars
<1>2. ClosedIsIdle'
  BY <1>1 DEF ClosedIsIdle
<1>3. ASSUME NEW d \in Devices, Serve(d) PROVE Backed'
  <2>1. ServerBacked' /\ log \subseteq log'
    BY <1>3, ServerStepBacked DEF Serve, ServerStep, Devices
  <2>2. DeviceBacked'
    BY <1>1, <2>1, DeviceQuiet
  <2>3. /\ \A h \in Handlers : h # d => handler'[h] = handler[h]
        /\ handler[d].pc # "idle" /\ handler'[d].item = handler[d].item /\ handler'[d].blob = handler[d].blob
    BY <1>3 DEF Serve, ServerStep, ReadRow, WriteRow, Devices, SyncTypeOK, TypeOK, Push
  <2>4. AwaitedUnchanged'
    BY <1>1, <2>3, AwaitQuiet DEF Devices
  <2>5. QED
    BY <1>2, <2>1, <2>2, <2>4
<1>4. ASSUME NEW d \in Devices, Orphan(d) PROVE Backed'
  <2>1. sync[d].pc # "await" /\ handler' = [handler EXCEPT ![d] = Idle] /\ UNCHANGED <<row, log>>
    BY <1>4 DEF Orphan, Answer
  <2>2. \A h \in Handlers : handler'[h] = Idle \/ handler'[h] = handler[h]
    BY <2>1 DEF SyncTypeOK, TypeOK
  <2>3. ServerBacked'
    BY <2>1, <2>2, IdleIsEmpty, ServerQuiet
  <2>4. DeviceBacked'
    BY <1>1, <2>1, DeviceQuiet
  <2>5. AwaitedUnchanged'
    BY <1>1, <2>2, IdleIsEmpty, AwaitQuiet DEF Devices
  <2>6. QED
    BY <1>2, <2>3, <2>4, <2>5
<1>5. ASSUME NEW i \in Items, WebDelete(i) PROVE Backed'
  <2>1. ServerBacked' /\ UNCHANGED <<handler, log>>
    BY <1>5, DeleteBacked DEF WebDelete, Delete
  <2>2. DeviceBacked'
    BY <1>1, <2>1, DeviceQuiet
  <2>3. AwaitedUnchanged'
    BY <1>1, <2>1, AwaitQuiet
  <2>4. QED
    BY <1>2, <2>1, <2>2, <2>3
<1>6. CASE ServerRestart
  <2>1. handler' = [h \in Handlers |-> Idle] /\ UNCHANGED <<row, log>>
    BY <1>6 DEF ServerRestart, Restart
  <2>2. ServerBacked'
    BY <2>1, IdleIsEmpty, ServerQuiet
  <2>3. DeviceBacked'
    BY <1>1, <2>1, DeviceQuiet
  <2>4. AwaitedUnchanged'
    BY <2>1, IdleIsEmpty, AwaitQuiet DEF Devices
  <2>5. QED
    BY <1>2, <2>2, <2>3, <2>4
<1>7. QED
  BY <1>3, <1>4, <1>5, <1>6

\* What a device shows as synced is what the server stored under that version,
\* in memory, in the file and in every write of it, for both storages, provided
\* that nobody edits while a sync() awaits (VaultApp.update during sync() loses the
\* mark of its edit).
THEOREM CleanIsStoredThere ==
    ASSUME EditDuringSync = FALSE
    PROVE  SyncSpec => []CleanIsStored
<1>1. SyncInit => Backed
  <2> SUFFICES ASSUME SyncInit PROVE Backed
    OBVIOUS
  <2>1. ServerBacked
    BY IdleIsEmpty DEF SyncInit, Init, ServerBacked, RowsLogged, FoundLogged, OkLogged
  <2>2. DeviceBacked
    BY DEF SyncInit, DeviceBacked, PulledLogged, CleanInMemory, CleanOnDisk, CleanStored,
           Files, NoSave, EmptyVault, NoCopy, NoSync
  <2>3. AwaitedUnchanged /\ ClosedIsIdle
    BY IdleIsEmpty DEF SyncInit, AwaitedUnchanged, ClosedIsIdle
  <2>4. QED
    BY <2>1, <2>2, <2>3 DEF Backed
<1>2. SyncTypeOK /\ Backed /\ [SyncNext]_vars => Backed'
  <2> SUFFICES ASSUME SyncTypeOK, Backed, [SyncNext]_vars PROVE Backed'
    OBVIOUS
  <2>1. CASE UNCHANGED vars
    <3>1. UNCHANGED <<row, handler, log, open, mem, disk, save, sync>>
      BY <2>1 DEF vars
    <3>2. ServerBacked' /\ DeviceBacked'
      BY <3>1, ServerQuiet, DeviceQuiet DEF Backed
    <3>3. AwaitedUnchanged' /\ ClosedIsIdle'
      BY <3>1 DEF Backed, AwaitedUnchanged, ClosedIsIdle
    <3>4. QED
      BY <3>2, <3>3 DEF Backed
  <2>2. CASE SyncNext
    BY <2>2, UserKeepsBacked, WriteFileKeepsBacked, QuietSyncKeepsBacked, PushDirtyKeepsBacked,
       AnswerKeepsBacked, PullKeepsBacked, MergeKeepsBacked, ServerKeepsBacked DEF SyncNext, SyncStep, Fault
  <2>3. QED
    BY <2>1, <2>2
<1>3. Backed => CleanIsStored
  BY DEF Backed, DeviceBacked, CleanInMemory, CleanOnDisk, CleanStored, CleanIsStored
<1>4. QED
  BY <1>1, <1>2, <1>3, SyncTypeCorrect, PTL DEF SyncSpec
-----------------------------------------------------------------------------
(* The devices as clients of the server.  Whatever they do, edits during a     *)
(* sync() included, each names in its pushes a row that the server has stored. *)

\* A step of device d other than the end of a write of its file.
DeviceMoves(d) == \/ Unlock(d) \/ SyncStart(d) \/ SyncStep(d) \/ Fault(d)
                  \/ \E i \in Items : Add(d, i) \/ Update(d, i)

\* What a step of device d makes of its entry i: the same, what Unlock, Forget, Add,
\* Update, PushOk, PushConflict or Merge write.
CopyStep(d, i) ==
    LET old == mem[d][i]
        new == mem'[d][i] IN
    \/ new = old
    \/ ~open[d] /\ \E v \in Found(d) : new = v[i]
    \/ ~open'[d] /\ new = NoCopy
    \/ /\ Fresh(i)
       /\ \E b \in Nat \ {0} : new = [content |-> b, base |-> NoRow, dirty |-> TRUE]
    \/ /\ EditDuringSync \/ sync[d].pc = "idle"
       /\ \E b \in Nat \ {0} : new = [old EXCEPT !.content = b, !.dirty = TRUE]
    \/ /\ sync[d].pc = "await" /\ handler[d].pc = "ok" /\ handler[d].item = i
       /\ new = [old EXCEPT !.base = Accepted(d), !.dirty = FALSE]
    \/ /\ sync[d].pc = "await" /\ handler[d].pc = "conflict" /\ handler[d].item = i
       /\ new = Adopt(old, handler[d].found)
    \/ /\ sync[d].pc = "merge"
       /\ new = Merged(old, sync[d].pulled[i])

LEMMA BlobsGrow ==
    ASSUME TypeOK, blobs' = blobs + 1
    PROVE  blobs' \in Nat \ {0}
BY DEF TypeOK

\* Where one entry of a device changes, an entry is that one or stays.
LEMMA EntryMoves ==
    ASSUME SyncTypeOK, NEW d \in Devices, NEW j \in Items, NEW c \in Copy,
           mem' = [mem EXCEPT ![d] = [mem[d] EXCEPT ![j] = c]], NEW i \in Items
    PROVE  (i = j /\ mem'[d][i] = c) \/ mem'[d][i] = mem[d][i]
BY OneCopyChanges

LEMMA CopiesStep ==
    ASSUME SyncTypeOK, NEW d \in Devices, DeviceMoves(d), NEW i \in Items
    PROVE  CopyStep(d, i)
<1>1. CASE UNCHANGED mem
  BY <1>1 DEF CopyStep
<1>2. CASE Unlock(d)
  BY <1>2 DEF Unlock, CopyStep, SyncTypeOK
<1>3. CASE Lock(d) \/ Quit(d)
  <2>1. Forget(d)
    BY <1>3 DEF Lock, Quit
  <2>2. QED
    BY <2>1 DEF Forget, CopyStep, SyncTypeOK, EmptyVault
<1>4. ASSUME NEW j \in Items, Add(d, j) PROVE CopyStep(d, i)
  <2>1. blobs' \in Nat \ {0} /\ Fresh(j)
    BY <1>4, BlobsGrow DEF Add, SyncTypeOK
  <2>2. PICK c \in Copy : /\ c = [content |-> blobs', base |-> NoRow, dirty |-> TRUE]
                          /\ mem' = [mem EXCEPT ![d] = [mem[d] EXCEPT ![j] = c]]
    BY <1>4, <2>1, CopiesMade DEF Add
  <2>3. (i = j /\ mem'[d][i] = c) \/ mem'[d][i] = mem[d][i]
    BY <2>2, EntryMoves
  <2>4. QED
    BY <2>1, <2>2, <2>3 DEF CopyStep
<1>5. ASSUME NEW j \in Items, Update(d, j) PROVE CopyStep(d, i)
  <2>1. blobs' \in Nat \ {0} /\ (EditDuringSync \/ sync[d].pc = "idle")
    BY <1>5, BlobsGrow DEF Update, SyncTypeOK
  <2>2. PICK c \in Copy : /\ c = [mem[d][j] EXCEPT !.content = blobs', !.dirty = TRUE]
                          /\ mem' = [mem EXCEPT ![d] = [mem[d] EXCEPT ![j] = c]]
    BY <1>5, <2>1, CopiesMade DEF Update
  <2>3. (i = j /\ mem'[d][i] = c) \/ mem'[d][i] = mem[d][i]
    BY <2>2, EntryMoves
  <2>4. QED
    BY <2>1, <2>2, <2>3 DEF CopyStep
<1>6. CASE PushOk(d)
  <2>1. handler[d].item \in Items
    BY AcceptedIsRow
  <2>2. PICK c \in Copy :
           /\ c = [mem[d][handler[d].item] EXCEPT !.base = Accepted(d), !.dirty = FALSE]
           /\ mem' = [mem EXCEPT ![d] = [mem[d] EXCEPT ![handler[d].item] = c]]
    BY <1>6, <2>1, AcceptedIsRow, CopiesMade DEF PushOk
  <2>3. (i = handler[d].item /\ mem'[d][i] = c) \/ mem'[d][i] = mem[d][i]
    BY <2>1, <2>2, EntryMoves
  <2>4. QED
    BY <1>6, <2>2, <2>3 DEF CopyStep, PushOk
<1>7. CASE PushConflict(d)
  <2>1. handler[d].item \in Items
    BY AcceptedIsRow
  <2>2. PICK c \in Copy :
           /\ c = Adopt(mem[d][handler[d].item], handler[d].found)
           /\ mem' = [mem EXCEPT ![d] = [mem[d] EXCEPT ![handler[d].item] = c]]
    <3>1. Adopt(mem[d][handler[d].item], handler[d].found) \in Copy
      BY <2>1, AcceptedIsRow, CopiesMade DEF Adopt
    <3>2. QED
      BY <1>7, <3>1 DEF PushConflict
  <2>3. (i = handler[d].item /\ mem'[d][i] = c) \/ mem'[d][i] = mem[d][i]
    BY <2>1, <2>2, EntryMoves
  <2>4. QED
    BY <1>7, <2>2, <2>3 DEF CopyStep, PushConflict
<1>8. CASE Merge(d)
  BY <1>8 DEF Merge, CopyStep, SyncTypeOK
<1>9. QED
  BY <1>1, <1>2, <1>3, <1>4, <1>5, <1>6, <1>7, <1>8
     DEF DeviceMoves, SyncStep, Fault, SyncStart, SkipClean, PushDirty, ConnectionLost, Pull, PushFail, PullFail

\* A step of a device changes nothing of another one, and nothing that is stored.
LEMMA OthersRest ==
    ASSUME SyncTypeOK, NEW d \in Devices, DeviceMoves(d)
    PROVE  /\ UNCHANGED <<row, log>>
           /\ UNCHANGED <<disk, save>> \/ Persist(d) \/ Lock(d) \/ Quit(d)
           /\ \A e \in Devices : e # d =>
                 /\ open'[e] = open[e] /\ mem'[e] = mem[e]
                 /\ sync'[e] = sync[e] /\ handler'[e] = handler[e]
<1> USE DEF fileVars, Devices
<1>0. /\ open \in [Devices -> BOOLEAN] /\ mem \in [Devices -> [Items -> Copy]]
      /\ sync \in [Devices -> SyncState] /\ handler \in [Devices -> Push]
  BY DEF SyncTypeOK, TypeOK
<1>1. CASE Unlock(d) \/ SyncStart(d) \/ PushFail(d) \/ PullFail(d)
  BY <1>0, <1>1 DEF Unlock, SyncStart, PushFail, PullFail
<1>2. CASE Lock(d) \/ Quit(d)
  BY <1>0, <1>2 DEF Lock, Quit, Forget
<1>3. CASE \E i \in Items : Add(d, i) \/ Update(d, i)
  BY <1>0, <1>3 DEF Add, Update
<1>4. CASE \E i \in Items : SkipClean(d, i) \/ PushDirty(d, i)
  BY <1>0, <1>4 DEF SkipClean, PushDirty, Submit
<1>5. CASE PushOk(d) \/ PushConflict(d)
  BY <1>0, <1>5 DEF PushOk, PushConflict
<1>6. CASE ConnectionLost(d) \/ Pull(d) \/ Merge(d)
  BY <1>0, <1>6 DEF ConnectionLost, Pull, Merge
<1>7. QED
  BY <1>1, <1>2, <1>3, <1>4, <1>5, <1>6 DEF DeviceMoves, SyncStep, Fault

\* What a step of a device makes of the server: nothing, its slot is free again, or
\* its push is sent.
LEMMA SlotStep ==
    ASSUME NEW d \in Devices, DeviceMoves(d)
    PROVE  \/ UNCHANGED handler
           \/ handler' = [handler EXCEPT ![d] = Idle]
           \/ \E i \in Items : PushDirty(d, i)
BY DEF DeviceMoves, Unlock, SyncStart, SyncStep, Fault, Lock, Quit, Forget, PushFail, PullFail, Add, Update, SkipClean,
       PushOk, PushConflict, ConnectionLost, Pull, Merge

\* A device that awaits an answer after its step has just sent the push, or awaited
\* it before and met nothing but a call of the user.
LEMMA AwaitStep ==
    ASSUME SyncTypeOK, NEW d \in Devices, DeviceMoves(d), sync'[d].pc = "await"
    PROVE  \/ \E i \in Items : PushDirty(d, i)
           \/ /\ sync[d].pc = "await" /\ handler' = handler
              /\ Unlock(d) \/ \E i \in Items : Add(d, i) \/ Update(d, i)
<1>1. sync \in [Devices -> SyncState]
  BY DEF SyncTypeOK
<1>2. CASE Unlock(d) \/ \E i \in Items : Add(d, i) \/ Update(d, i)
  <2>1. ASSUME NEW i \in Items, Add(d, i) PROVE handler' = handler /\ sync'[d].pc = sync[d].pc
    BY <1>1, <2>1 DEF Add, SyncState
  <2>2. ASSUME NEW i \in Items, Update(d, i) PROVE handler' = handler /\ sync'[d].pc = sync[d].pc
    BY <2>2 DEF Update
  <2>3. Unlock(d) => handler' = handler /\ sync'[d].pc = sync[d].pc
    BY DEF Unlock
  <2>4. QED
    BY <1>2, <2>1, <2>2, <2>3
<1>3. CASE SyncStart(d) \/ Fault(d) \/ ConnectionLost(d) \/ Pull(d) \/ Merge(d)
  <2>1. ASSUME sync' = [sync EXCEPT ![d] = NoSync] PROVE FALSE
    BY <1>1, <2>1, IdleIsEmpty
  <2>2. CASE SyncStart(d)
    BY <1>1, <2>2 DEF SyncStart, SyncState
  <2>3. CASE Fault(d) \/ ConnectionLost(d) \/ Merge(d)
    BY <2>1, <2>3 DEF Fault, Lock, Quit, Forget, PushFail, PullFail, ConnectionLost, Merge
  <2>4. CASE Pull(d)
    BY <1>1, <2>4 DEF Pull, SyncState
  <2>5. QED
    BY <1>3, <2>2, <2>3, <2>4
<1>4. CASE PushOk(d) \/ PushConflict(d) \/ \E i \in Items : SkipClean(d, i)
  BY <1>1, <1>4 DEF PushOk, PushConflict, SkipClean, SyncState
<1>5. QED
  BY <1>2, <1>3, <1>4 DEF DeviceMoves, SyncStep

\* What a device notes as pulled is what it was, the server's rows, or nothing.
LEMMA PulledStep ==
    ASSUME SyncTypeOK, NEW d \in Devices, DeviceMoves(d)
    PROVE  \/ sync'[d].pulled = sync[d].pulled
           \/ sync'[d].pulled = row
           \/ sync'[d].pulled = [i \in Items |-> NoRow]
<1>1. sync \in [Devices -> SyncState] /\ NoSync.pulled = [i \in Items |-> NoRow]
  BY DEF SyncTypeOK, NoSync
<1>2. CASE Unlock(d) \/ SyncStart(d) \/ \E i \in Items : Add(d, i) \/ Update(d, i) \/ SkipClean(d, i)
  <2>1. ASSUME NEW i \in Items, Add(d, i) \/ SkipClean(d, i) PROVE sync'[d].pulled = sync[d].pulled
    BY <1>1, <2>1 DEF Add, SkipClean, SyncState
  <2>2. ASSUME NEW i \in Items, Update(d, i) PROVE sync'[d].pulled = sync[d].pulled
    BY <2>2 DEF Update
  <2>3. Unlock(d) \/ SyncStart(d) => sync'[d].pulled = sync[d].pulled
    BY <1>1 DEF Unlock, SyncStart, SyncState
  <2>4. QED
    BY <1>2, <2>1, <2>2, <2>3
<1>3. CASE PushOk(d) \/ PushConflict(d) \/ \E i \in Items : PushDirty(d, i)
  BY <1>1, <1>3 DEF PushOk, PushConflict, PushDirty, SyncState
<1>4. CASE Fault(d) \/ ConnectionLost(d) \/ Merge(d)
  BY <1>1, <1>4 DEF Fault, Lock, Quit, Forget, PushFail, PullFail, ConnectionLost, Merge
<1>5. CASE Pull(d)
  BY <1>1, <1>5 DEF Pull, SyncState
<1>6. QED
  BY <1>2, <1>3, <1>4, <1>5 DEF DeviceMoves, SyncStep

-----------------------------------------------------------------------------
(* Traced: whatever a device has, sends or awaits can be traced to the log.    *)

\* A copy comes from a stored row, and one without content is none.
CopyTraced(c, i) == /\ c.base # NoRow => Stored(i, c.base)
                    /\ c.content = 0 => c = NoCopy
MemoryTraced == \A d \in Devices, i \in Items : CopyTraced(mem[d][i], i)
DiskTraced == \A d \in Devices, i \in Items : \A v \in Files(d) : CopyTraced(v[i], i)

\* While an answer is awaited the entry keeps the row it was sent over, whatever
\* the user makes of its content.
AwaitedTraced == \A d \in Devices :
    sync[d].pc = "await" /\ handler[d].pc # "idle" =>
        /\ mem[d][handler[d].item].content # 0
        /\ mem[d][handler[d].item].base = handler[d].base

ClosedIsEmpty == \A d \in Devices : ~open[d] => sync[d].pc = "idle" /\ mem[d] = EmptyVault

\* Nothing empty is stored or sent.
ContentsExist == /\ \A e \in log : e.blob # 0
                 /\ \A h \in Handlers : handler[h].pc # "idle" => handler[h].blob # 0

\* What was ever stored of an item that stays is still there in some version, so
\* a conflict on it comes with the server's copy.
KeptStays == \A e \in log : e.item \in Kept => row[e.item] # NoRow
ConflictShows == \A h \in Handlers :
    handler[h].pc = "conflict" /\ handler[h].item \in Kept => handler[h].found # NoRow

\* A push is decided "write" only over the version it names.
DecisionFits == \A h \in Handlers :
    handler[h].pc \in {"put", "ok"} => handler[h].found.version = handler[h].base.version

ServerTraced == /\ ServerBacked /\ BasesLogged /\ LoggedExists
                /\ ContentsExist /\ KeptStays /\ ConflictShows /\ DecisionFits
DeviceTraced == PulledLogged /\ MemoryTraced /\ DiskTraced /\ AwaitedTraced /\ ClosedIsEmpty
Traced == ServerTraced /\ DeviceTraced

LEMMA IdleTraced == Idle.pc = "idle" /\ Idle.base = NoRow /\ Idle.found = NoRow
BY DEF Idle

LEMMA NoCopyTraced == ASSUME NEW i \in Items PROVE CopyTraced(NoCopy, i)
BY DEF CopyTraced, NoCopy

\* Slots are free again, or nothing changes.
LEMMA FreedKeepsServerTraced ==
    ASSUME ServerTraced, UNCHANGED <<row, log>>,
           \A h \in Handlers : handler'[h] = handler[h] \/ handler'[h] = Idle
    PROVE  ServerTraced'
<1>1. ServerBacked'
  BY IdleTraced, ServerQuiet DEF ServerTraced
<1>2. BasesLogged'
  BY IdleTraced DEF ServerTraced, BasesLogged, Entered
<1>3. LoggedExists' /\ KeptStays'
  BY DEF ServerTraced, LoggedExists, KeptStays
<1>4. ContentsExist' /\ ConflictShows' /\ DecisionFits'
  BY IdleTraced DEF ServerTraced, ContentsExist, ConflictShows, DecisionFits
<1>5. QED
  BY <1>1, <1>2, <1>3, <1>4 DEF ServerTraced

LEMMA SentKeepsServerTraced ==
    ASSUME SyncTypeOK, ServerTraced, MemoryTraced, NEW d \in Devices, NEW i \in Items, PushDirty(d, i)
    PROVE  ServerTraced'
<1> DEFINE c == mem[d][i]
<1>1. /\ UNCHANGED <<row, log>>
      /\ handler'[d].pc = "get" /\ handler'[d].item = i /\ handler'[d].found = NoRow
      /\ handler'[d].base = c.base /\ handler'[d].blob = c.content
      /\ \A h \in Handlers : h # d => handler'[h] = handler[h]
  BY DEF PushDirty, Submit, SyncTypeOK, TypeOK, Devices
<1>2. CopyTraced(c, i) /\ c.dirty
  BY DEF MemoryTraced, PushDirty
<1>3. c.content # 0 /\ (c.base # NoRow => Stored(i, c.base))
  BY <1>2 DEF CopyTraced, NoCopy
<1>4. ServerBacked'
  BY <1>1, ServerQuiet DEF ServerTraced
<1>5. BasesLogged'
  BY <1>1, <1>3 DEF ServerTraced, BasesLogged, Entered, Stored
<1>6. LoggedExists' /\ KeptStays'
  BY <1>1 DEF ServerTraced, LoggedExists, KeptStays
<1>7. ContentsExist' /\ ConflictShows' /\ DecisionFits'
  BY <1>1, <1>3 DEF ServerTraced, ContentsExist, ConflictShows, DecisionFits
<1>8. QED
  BY <1>4, <1>5, <1>6, <1>7 DEF ServerTraced

LEMMA ReadKeepsServerTraced ==
    ASSUME SyncTypeOK, ServerTraced, NEW h \in Handlers, ReadRow(h)
    PROVE  ServerTraced'
<1> DEFINE p == handler[h]
           q == handler'[h]
<1>1. /\ UNCHANGED <<row, log>> /\ p.pc = "get"
      /\ \A g \in Handlers : g # h => handler'[g] = handler[g]
      /\ q.item = p.item /\ q.base = p.base /\ q.blob = p.blob /\ q.found = row[p.item]
      /\ q.pc = IF ResolvePush(row[p.item], p.base) = "conflict" THEN "conflict" ELSE "put"
      /\ p.item \in Items /\ p.base \in Row
  BY DEF ReadRow, SyncTypeOK, TypeOK, Push
<1>2. ServerBacked'
  BY ServerStepBacked DEF ServerTraced
<1>3. BasesLogged'
  BY <1>1 DEF ServerTraced, BasesLogged, Entered
<1>4. LoggedExists' /\ KeptStays'
  BY <1>1 DEF ServerTraced, LoggedExists, KeptStays
<1>5. ContentsExist'
  BY <1>1 DEF ServerTraced, ContentsExist
<1>6. ConflictShows'
  <2>1. q.pc = "conflict" /\ p.item \in Kept => row[p.item] # NoRow
    <3> SUFFICES ASSUME q.pc = "conflict", p.item \in Kept, row[p.item] = NoRow PROVE FALSE
      OBVIOUS
    <3>1. p.base.version # 0
      BY <1>1 DEF ResolvePush, NoRow
    <3>2. Entered(p) \in log
      BY <3>1 DEF ServerTraced, BasesLogged, NoRow
    <3>3. Entered(p).item = p.item
      BY DEF Entered
    <3>4. QED
      BY <3>2, <3>3 DEF ServerTraced, KeptStays
  <2>2. QED
    BY <1>1, <2>1 DEF ServerTraced, ConflictShows
<1>7. DecisionFits'
  BY <1>1 DEF ServerTraced, DecisionFits, ResolvePush
<1>8. QED
  BY <1>2, <1>3, <1>4, <1>5, <1>6, <1>7 DEF ServerTraced

LEMMA WriteKeepsServerTraced ==
    ASSUME SyncTypeOK, ServerTraced, NEW h \in Handlers, WriteRow(h)
    PROVE  ServerTraced'
<1> DEFINE p == handler[h]
           q == handler'[h]
           new == [version |-> NewVersion(p.found), blob |-> p.blob]
<1>1. /\ p.pc = "put" /\ p.item \in Items /\ p.found \in Row /\ p.blob # 0
      /\ row' = [row EXCEPT ![p.item] = new]
      /\ log' = log \cup {[item |-> p.item, version |-> new.version, blob |-> new.blob]}
      /\ \A g \in Handlers : g # h => handler'[g] = handler[g]
      /\ q.item = p.item /\ q.base = p.base /\ q.blob = p.blob /\ q.found = p.found /\ q.pc = "ok"
  BY DEF WriteRow, SyncTypeOK, TypeOK, Push, ServerTraced, ContentsExist
<1>2. new.version >= 1
  BY <1>1, NewVersionIsSuccessor DEF Row
<1>3. ServerBacked'
  BY ServerStepBacked DEF ServerTraced
<1>4. BasesLogged'
  BY <1>1 DEF ServerTraced, BasesLogged, Entered
<1>5. LoggedExists'
  BY <1>1, <1>2 DEF ServerTraced, LoggedExists
<1>6. KeptStays'
  <2>1. row'[p.item] = new /\ new # NoRow /\ \A j \in Items : j # p.item => row'[j] = row[j]
    BY <1>1, <1>2 DEF SyncTypeOK, TypeOK, NoRow
  <2>2. \A e \in log' : e.item \in Kept => e.item = p.item \/ (e \in log /\ e.item \in Items)
    BY <1>1 DEF Kept
  <2>3. QED
    BY <2>1, <2>2 DEF ServerTraced, KeptStays
<1>7. ContentsExist'
  BY <1>1 DEF ServerTraced, ContentsExist
<1>8. ConflictShows' /\ DecisionFits'
  BY <1>1 DEF ServerTraced, ConflictShows, DecisionFits
<1>9. QED
  BY <1>3, <1>4, <1>5, <1>6, <1>7, <1>8 DEF ServerTraced

LEMMA DeleteKeepsServerTraced ==
    ASSUME SyncTypeOK, ServerTraced, NEW i \in Items, Delete(i)
    PROVE  ServerTraced'
<1>1. row' = [row EXCEPT ![i] = NoRow] /\ UNCHANGED <<handler, log>> /\ i \notin Kept
  BY DEF Delete, Kept
<1>2. ServerBacked'
  BY DeleteBacked DEF ServerTraced
<1>3. BasesLogged' /\ LoggedExists'
  BY <1>1 DEF ServerTraced, BasesLogged, Entered, LoggedExists
<1>4. KeptStays'
  BY <1>1 DEF ServerTraced, KeptStays, Kept, SyncTypeOK, TypeOK
<1>5. ContentsExist' /\ ConflictShows' /\ DecisionFits'
  BY <1>1 DEF ServerTraced, ContentsExist, ConflictShows, DecisionFits
<1>6. QED
  BY <1>2, <1>3, <1>4, <1>5 DEF ServerTraced

\* The devices while the server goes on.
LEMMA ServerKeepsDeviceTraced ==
    ASSUME DeviceTraced, UNCHANGED <<open, mem, disk, save, sync>>, log \subseteq log',
           \A h \in Handlers : \/ handler'[h].pc = "idle"
                               \/ /\ handler[h].pc # "idle"
                                  /\ handler'[h].item = handler[h].item /\ handler'[h].base = handler[h].base
    PROVE  DeviceTraced'
<1>1. PulledLogged' /\ MemoryTraced' /\ DiskTraced'
  BY DEF DeviceTraced, PulledLogged, MemoryTraced, DiskTraced, CopyTraced, Stored, Files
<1>2. AwaitedTraced' /\ ClosedIsEmpty'
  BY DEF DeviceTraced, AwaitedTraced, ClosedIsEmpty, Devices
<1>3. QED
  BY <1>1, <1>2 DEF DeviceTraced

LEMMA ServerKeepsTraced ==
    ASSUME SyncTypeOK, Traced,
           \/ \E d \in Devices : Serve(d) \/ Orphan(d)
           \/ \E i \in Items : WebDelete(i)
           \/ ServerRestart
    PROVE  Traced'
<1>0. UNCHANGED <<open, mem, disk, save, sync>>
  BY DEF Serve, Orphan, WebDelete, ServerRestart, deviceVars, fileVars
<1>1. ASSUME NEW d \in Devices, Serve(d) PROVE Traced'
  <2>1. ServerTraced'
    BY <1>1, ReadKeepsServerTraced, WriteKeepsServerTraced DEF Serve, ServerStep, Devices, Traced
  <2>2. /\ log \subseteq log'
        /\ \A h \in Handlers : h # d => handler'[h] = handler[h]
        /\ handler[d].pc # "idle" /\ handler'[d].item = handler[d].item /\ handler'[d].base = handler[d].base
    BY <1>1 DEF Serve, ServerStep, ReadRow, WriteRow, Devices, SyncTypeOK, TypeOK, Push
  <2>3. DeviceTraced'
    BY <1>0, <2>2, ServerKeepsDeviceTraced DEF Traced
  <2>4. QED
    BY <2>1, <2>3 DEF Traced
<1>2. ASSUME UNCHANGED <<row, log>>, \A h \in Handlers : handler'[h] = handler[h] \/ handler'[h] = Idle
      PROVE Traced'
  <2>1. ServerTraced'
    BY <1>2, FreedKeepsServerTraced DEF Traced
  <2>2. DeviceTraced'
    BY <1>0, <1>2, IdleTraced, ServerKeepsDeviceTraced DEF Traced
  <2>3. QED
    BY <2>1, <2>2 DEF Traced
<1>3. ASSUME NEW d \in Devices, Orphan(d) PROVE Traced'
  BY <1>2, <1>3 DEF Orphan, Answer, SyncTypeOK, TypeOK
<1>4. CASE ServerRestart
  BY <1>2, <1>4 DEF ServerRestart, Restart
<1>5. ASSUME NEW i \in Items, WebDelete(i) PROVE Traced'
  <2>1. ServerTraced' /\ UNCHANGED <<handler, log>>
    BY <1>5, DeleteKeepsServerTraced DEF WebDelete, Delete, Traced
  <2>2. DeviceTraced'
    BY <1>0, <2>1, ServerKeepsDeviceTraced DEF Traced
  <2>3. QED
    BY <2>1, <2>2 DEF Traced
<1>6. QED
  BY <1>1, <1>3, <1>4, <1>5

\* A step of a device leaves its entries traced.
LEMMA MovesKeepCopies ==
    ASSUME SyncTypeOK, Traced, NEW d \in Devices, DeviceMoves(d), NEW i \in Items
    PROVE  CopyTraced(mem'[d][i], i)
<1> DEFINE old == mem[d][i]
           new == mem'[d][i]
<1>0. /\ old \in Copy /\ CopyTraced(old, i)
      /\ handler[d].found \in Row /\ Accepted(d) \in Row
  BY CopiesMade, AcceptedIsRow DEF Traced, DeviceTraced, MemoryTraced
<1>9. \A v \in Found(d) : CopyTraced(v[i], i)
  BY FoundIsVault, NoCopyTraced DEF Traced, DeviceTraced, DiskTraced, EmptyVault
<1>1. \A r \in Row : r # NoRow /\ Stored(i, r) => CopyTraced([content |-> r.blob, base |-> r, dirty |-> FALSE], i)
  BY DEF Stored, CopyTraced, Traced, ServerTraced, ContentsExist
<1>2. CopyStep(d, i)
  BY CopiesStep
<1>3. ASSUME NEW b \in Nat \ {0}, new = [content |-> b, base |-> NoRow, dirty |-> TRUE]
      PROVE  CopyTraced(new, i)
  BY <1>3 DEF CopyTraced
<1>4. ASSUME NEW b \in Nat \ {0}, new = [old EXCEPT !.content = b, !.dirty = TRUE]
      PROVE  CopyTraced(new, i)
  BY <1>0, <1>4 DEF CopyTraced, Copy
<1>5. CASE /\ sync[d].pc = "await" /\ handler[d].pc = "ok" /\ handler[d].item = i
           /\ new = [old EXCEPT !.base = Accepted(d), !.dirty = FALSE]
  <2>1. old.content # 0
    BY <1>5 DEF Traced, DeviceTraced, AwaitedTraced
  <2>2. Stored(i, Accepted(d))
    BY <1>5 DEF Traced, ServerTraced, ServerBacked, OkLogged, Devices
  <2>3. QED
    BY <1>0, <1>5, <2>1, <2>2 DEF CopyTraced, Copy
<1>6. CASE /\ sync[d].pc = "await" /\ handler[d].pc = "conflict" /\ handler[d].item = i
           /\ new = Adopt(old, handler[d].found)
  <2>1. handler[d].found # NoRow => Stored(i, handler[d].found)
    BY <1>6 DEF Traced, ServerTraced, ServerBacked, FoundLogged, Devices
  <2>2. QED
    BY <1>0, <1>1, <1>6, <2>1 DEF Adopt
<1>7. CASE sync[d].pc = "merge" /\ new = Merged(old, sync[d].pulled[i])
  <2>1. /\ sync[d].pulled[i] \in Row
        /\ sync[d].pulled[i] # NoRow => Stored(i, sync[d].pulled[i])
    BY DEF Traced, DeviceTraced, PulledLogged, SyncTypeOK, SyncState
  <2>2. QED
    BY <1>0, <1>1, <1>7, <2>1 DEF Merged
<1>8. QED
  BY <1>0, <1>2, <1>3, <1>4, <1>5, <1>6, <1>7, <1>9, NoCopyTraced DEF CopyStep

\* What goes to the file is what memory shows, or nothing.
LEMMA FileTraced ==
    ASSUME SyncTypeOK, DiskTraced, UNCHANGED log, MemoryTraced', NEW d \in Devices,
           UNCHANGED <<disk, save>> \/ Persist(d) \/ Lock(d) \/ Quit(d) \/ \E w \in Writes : WriteFile(d, w)
    PROVE  DiskTraced'
<1>1. ASSUME NEW e \in Devices, NEW i \in Items, NEW v \in Files(e)' PROVE CopyTraced(v[i], i)'
  <2>1. v \in Files(e) \/ (e = d /\ v \in {mem'[d], EmptyVault})
    BY <1>1, FilesMade
  <2>2. CASE v \in Files(e)
    BY <2>2 DEF DiskTraced, CopyTraced, Stored
  <2>3. CASE e = d /\ v = mem'[d]
    BY <2>3 DEF MemoryTraced, CopyTraced, Stored
  <2>4. CASE v = EmptyVault
    BY <2>4 DEF EmptyVault, NoCopy, CopyTraced
  <2>5. QED
    BY <2>1, <2>2, <2>3, <2>4
<1>2. QED
  BY <1>1 DEF DiskTraced

LEMMA MovesKeepAwaited ==
    ASSUME SyncTypeOK, Traced, NEW d \in Devices, DeviceMoves(d),
           sync'[d].pc = "await", handler'[d].pc # "idle"
    PROVE  /\ mem'[d][handler'[d].item].content # 0
           /\ mem'[d][handler'[d].item].base = handler'[d].base
<1>1. CASE \E i \in Items : PushDirty(d, i)
  <2>1. PICK i \in Items : PushDirty(d, i)
    BY <1>1
  <2>2. /\ handler'[d].item = i /\ handler'[d].base = mem[d][i].base /\ mem' = mem /\ mem[d][i].dirty
    BY <2>1 DEF PushDirty, Submit, SyncTypeOK, TypeOK, Devices
  <2>3. mem[d][i].content # 0
    BY <2>2 DEF Traced, DeviceTraced, MemoryTraced, CopyTraced, NoCopy
  <2>4. QED
    BY <2>2, <2>3
<1>2. CASE /\ sync[d].pc = "await" /\ handler' = handler
           /\ Unlock(d) \/ \E i \in Items : Add(d, i) \/ Update(d, i)
  <2> DEFINE j == handler[d].item
  <2>1. j \in Items /\ mem[d][j] \in Copy /\ mem[d][j].content # 0 /\ mem[d][j].base = handler[d].base
    BY <1>2, AcceptedIsRow, CopiesMade DEF Traced, DeviceTraced, AwaitedTraced
  <2>2. open[d] /\ ~Unlock(d)
    BY <1>2 DEF Traced, DeviceTraced, ClosedIsEmpty, Unlock
  <2>3. ASSUME NEW i \in Items, Add(d, i) PROVE mem'[d][j] = mem[d][j]
    <3>1. mem[d][i] = NoCopy
      BY <2>3 DEF Add, Fresh
    <3>2. i # j
      BY <2>1, <3>1 DEF NoCopy
    <3>3. QED
      BY <2>1, <2>3, <3>2 DEF Add, SyncTypeOK
  <2>4. ASSUME NEW i \in Items, Update(d, i)
        PROVE  mem'[d][j] = mem[d][j] \/ mem'[d][j] = [mem[d][j] EXCEPT !.content = blobs', !.dirty = TRUE]
    BY <2>1, <2>4 DEF Update, SyncTypeOK
  <2>5. ASSUME NEW i \in Items, Update(d, i) PROVE blobs' # 0
    BY <2>5, BlobsGrow DEF Update, SyncTypeOK
  <2>6. QED
    BY <1>2, <2>1, <2>2, <2>3, <2>4, <2>5 DEF Copy
<1>3. QED
  BY <1>1, <1>2, AwaitStep

LEMMA MovesKeepTraced ==
    ASSUME SyncTypeOK, Traced, NEW d \in Devices, DeviceMoves(d)
    PROVE  Traced'
<1>0. /\ UNCHANGED <<row, log>>
      /\ UNCHANGED <<disk, save>> \/ Persist(d) \/ Lock(d) \/ Quit(d)
      /\ \A e \in Devices : e # d =>
            /\ open'[e] = open[e] /\ mem'[e] = mem[e]
            /\ sync'[e] = sync[e] /\ handler'[e] = handler[e]
  BY OthersRest
<1>1. ServerTraced'
  <2>1. CASE \E i \in Items : PushDirty(d, i)
    BY <2>1, SentKeepsServerTraced DEF Traced, DeviceTraced
  <2>2. CASE UNCHANGED handler \/ handler' = [handler EXCEPT ![d] = Idle]
    <3>1. \A h \in Handlers : handler'[h] = handler[h] \/ handler'[h] = Idle
      BY <2>2 DEF SyncTypeOK, TypeOK
    <3>2. QED
      BY <1>0, <3>1, FreedKeepsServerTraced DEF Traced
  <2>3. QED
    BY <2>1, <2>2, SlotStep
<1>2. MemoryTraced'
  <2>1. \A i \in Items : CopyTraced(mem[d][i], i)'
    BY <1>0, MovesKeepCopies DEF CopyTraced, Stored
  <2>2. \A e \in Devices : e # d => \A i \in Items : CopyTraced(mem[e][i], i)'
    BY <1>0 DEF Traced, DeviceTraced, MemoryTraced, CopyTraced, Stored
  <2>3. QED
    BY <2>1, <2>2 DEF MemoryTraced
<1>3. DiskTraced'
  BY <1>0, <1>2, FileTraced DEF Traced, DeviceTraced
<1>4. AwaitedTraced'
  BY <1>0, MovesKeepAwaited DEF Traced, DeviceTraced, AwaitedTraced
<1>5. PulledLogged'
  <2>1. \/ sync'[d].pulled = sync[d].pulled \/ sync'[d].pulled = row
        \/ sync'[d].pulled = [i \in Items |-> NoRow]
    BY PulledStep
  <2>2. QED
    BY <1>0, <2>1 DEF Traced, ServerTraced, ServerBacked, RowsLogged, DeviceTraced, PulledLogged, Stored
<1>6. ClosedIsEmpty'
  <2>1. open'[d] \/ (mem'[d] = mem[d] /\ sync'[d] = sync[d] /\ ~open[d]) \/ (mem'[d] = EmptyVault /\ sync'[d] = NoSync)
    BY DEF DeviceMoves, Unlock, SyncStart, SyncStep, Fault, Lock, Quit, Forget, PushFail, PullFail, Add, Update,
           SkipClean, PushDirty, PushOk, PushConflict, ConnectionLost, Pull, Merge, NoSync,
           SyncTypeOK, SyncState, Traced, DeviceTraced, ClosedIsEmpty
  <2>2. QED
    BY <1>0, <2>1, IdleIsEmpty DEF Traced, DeviceTraced, ClosedIsEmpty
<1>7. QED
  BY <1>1, <1>2, <1>3, <1>4, <1>5, <1>6 DEF Traced, DeviceTraced

LEMMA WriteFileKeepsTraced ==
    ASSUME SyncTypeOK, Traced, NEW d \in Devices, NEW w \in Writes, WriteFile(d, w)
    PROVE  Traced'
<1>1. UNCHANGED <<open, mem, sync, row, handler, log>>
  BY DEF WriteFile
<1>2. ServerTraced'
  BY <1>1, FreedKeepsServerTraced DEF Traced
<1>3. PulledLogged' /\ MemoryTraced'
  BY <1>1 DEF Traced, DeviceTraced, PulledLogged, MemoryTraced, CopyTraced, Stored
<1>4. AwaitedTraced' /\ ClosedIsEmpty'
  BY <1>1 DEF Traced, DeviceTraced, AwaitedTraced, ClosedIsEmpty
<1>5. DiskTraced'
  BY <1>1, <1>3, FileTraced DEF Traced, DeviceTraced
<1>6. QED
  BY <1>2, <1>3, <1>4, <1>5 DEF Traced, DeviceTraced

\* Whatever a device holds, sends or awaits comes from what the server stored, for
\* both storages, edits during a sync() included.
THEOREM AllIsTraced == SyncSpec => []Traced
<1>1. SyncInit => Traced
  <2> SUFFICES ASSUME SyncInit PROVE Traced
    OBVIOUS
  <2>1. ServerTraced
    BY IdleTraced DEF SyncInit, Init, ServerTraced, ServerBacked, RowsLogged, FoundLogged, OkLogged,
       BasesLogged, LoggedExists, ContentsExist, KeptStays, ConflictShows, DecisionFits
  <2>2. MemoryTraced /\ DiskTraced
    BY NoCopyTraced DEF SyncInit, MemoryTraced, DiskTraced, Files, NoSave, EmptyVault
  <2>3. PulledLogged /\ AwaitedTraced /\ ClosedIsEmpty
    BY IdleIsEmpty DEF SyncInit, PulledLogged, AwaitedTraced, ClosedIsEmpty, NoSync
  <2>4. QED
    BY <2>1, <2>2, <2>3 DEF Traced, DeviceTraced
<1>2. SyncTypeOK /\ Traced /\ [SyncNext]_vars => Traced'
  <2> SUFFICES ASSUME SyncTypeOK, Traced, [SyncNext]_vars PROVE Traced'
    OBVIOUS
  <2>1. CASE UNCHANGED vars
    <3>1. UNCHANGED <<row, handler, log, open, mem, disk, save, sync>>
      BY <2>1 DEF vars
    <3>2. ServerTraced'
      BY <3>1, FreedKeepsServerTraced DEF Traced
    <3>3. DeviceTraced'
      BY <3>1, ServerKeepsDeviceTraced DEF Traced
    <3>4. QED
      BY <3>2, <3>3 DEF Traced
  <2>2. CASE SyncNext
    BY <2>2, MovesKeepTraced, WriteFileKeepsTraced, ServerKeepsTraced DEF SyncNext, DeviceMoves
  <2>3. QED
    BY <2>1, <2>2
<1>3. QED
  BY <1>1, <1>2, SyncTypeCorrect, PTL DEF SyncSpec

-----------------------------------------------------------------------------
(* The composition: the server keeps for the devices what it promises to any   *)
(* client that names rows it has seen.                                         *)

\* Every step of the system is one that VaultServerProofs allows the clients.
LEMMA SyncServes ==
    ASSUME SyncTypeOK, Traced, [SyncNext]_vars
    PROVE  Serves
<1>1. ASSUME NEW d \in Devices, DeviceMoves(d) PROVE Serves
  <2>1. UNCHANGED <<row, log>>
    BY <1>1, OthersRest
  <2>2. ASSUME NEW i \in Items, PushDirty(d, i) PROVE Sends(d)
    <3>1. Submit(d, i, mem[d][i].base, mem[d][i].content)
      BY <2>2 DEF PushDirty
    <3>2. mem[d][i].base \in Row /\ mem[d][i].content \in Nat
      BY CopiesMade DEF Copy
    <3>3. mem[d][i].base # NoRow => Stored(i, mem[d][i].base)
      BY DEF Traced, DeviceTraced, MemoryTraced, CopyTraced
    <3>4. QED
      BY <2>1, <3>1, <3>2, <3>3 DEF Sends, Stored
  <2>3. QED
    BY <1>1, <2>1, <2>2, SlotStep DEF Serves, Frees, Devices
<1>2. ASSUME NEW d \in Devices, Serve(d) \/ Orphan(d) PROVE Serves
  BY <1>2 DEF Serve, ServerStep, Orphan, Answer, Serves, Frees, Devices
<1>3. CASE ServerRestart \/ \E i \in Items : WebDelete(i)
  BY <1>3 DEF ServerRestart, WebDelete, Serves
<1>4. CASE UNCHANGED vars \/ \E d \in Devices, w \in Writes : WriteFile(d, w)
  BY <1>4 DEF vars, WriteFile, Serves
<1>5. QED
  BY <1>1, <1>2, <1>3, <1>4 DEF SyncNext, DeviceMoves

\* With the file store, whatever the devices do, the server's state stays consistent.
THEOREM SyncConsistent ==
    ASSUME Storage = "file"
    PROVE  SyncSpec => []Consistent
<1>1. SyncInit => Consistent
  BY InitIsConsistent DEF SyncInit
<1>2. Consistent /\ SyncTypeOK /\ SyncTypeOK' /\ Traced /\ [SyncNext]_vars => Consistent'
  <2>1. SyncTypeOK' => TypeOK'
    BY DEF SyncTypeOK
  <2>2. QED
    BY <2>1, SyncServes, ServesKeepsConsistent
<1>3. QED
  BY <1>1, <1>2, SyncTypeCorrect, AllIsTraced, PTL DEF SyncSpec

\* To the devices, too, the server with the file store is a compare-and-swap of the
\* items that stay: the composed system implements VersionedStore.
THEOREM SyncKeepsPromise ==
    ASSUME Storage = "file"
    PROVE  SyncSpec => KeepsPromise
<1>1. SyncInit => Promise!Init
  BY InitIsPromised DEF SyncInit
<1>2. SyncTypeOK /\ Traced /\ Consistent /\ Consistent' /\ [SyncNext]_vars
        => [Promise!Next]_(Promise!storeVars)
  BY SyncServes, ServesKeepsPromise
<1>3. QED
  BY <1>1, <1>2, SyncTypeCorrect, AllIsTraced, SyncConsistent, PTL
     DEF SyncSpec, KeepsPromise, Promise!Spec

\* No device overwrites a row it has not seen, even with the edits that update()
\* makes while a sync() awaits.
THEOREM NoDeviceClobbers ==
    ASSUME Storage = "file"
    PROVE  SyncSpec => NoSilentClobber
<1>1. Consistent => [\A h \in Handlers :
          handler[h].pc = "put" /\ handler'[h].pc = "ok" /\ handler[h].item \in Kept
             => row[handler[h].item] = handler[h].base]_serverVars
  BY WriterSawTheRow
<1>2. QED
  BY <1>1, SyncConsistent, PTL DEF NoSilentClobber

-----------------------------------------------------------------------------
(* Versions on the devices.                                                    *)

\* A push is refused only for a version that is newer than the one it names.
ConflictIsNewer == \A h \in Handlers :
    handler[h].pc = "conflict" /\ handler[h].item \in Kept
       => handler[h].base.version =< handler[h].found.version

LEMMA ServesKeepsNewer ==
    ASSUME Consistent, Consistent', ConflictIsNewer, Serves
    PROVE  ConflictIsNewer'
<1>0. \A h \in Handlers : handler[h] \in Push /\ handler'[h] \in Push
  BY DEF Consistent, TypeOK
<1>1. ASSUME NEW h \in Handlers, Sends(h) PROVE ConflictIsNewer'
  <2>1. handler'[h].pc = "get" /\ \A g \in Handlers : g # h => handler'[g] = handler[g]
    BY <1>1 DEF Sends, Submit, Consistent, TypeOK
  <2>2. QED
    BY <2>1 DEF ConflictIsNewer
<1>2. ASSUME NEW h \in Handlers, ReadRow(h) PROVE ConflictIsNewer'
  <2>1. /\ UNCHANGED <<row, log>> /\ \A g \in Handlers : g # h => handler'[g] = handler[g]
        /\ handler'[h].item = handler[h].item /\ handler'[h].base = handler[h].base
        /\ handler'[h].found = row[handler[h].item]
    BY <1>2 DEF ReadRow, Consistent, TypeOK, Push
  <2>2. ASSUME handler[h].item \in Kept PROVE handler[h].base.version =< row[handler[h].item].version
    <3>1. CASE handler[h].base = NoRow
      BY <3>1, <2>2, <1>0 DEF NoRow, Consistent, TypeOK, Row, Kept
    <3>2. CASE handler[h].base # NoRow
      <4>1. Entered(handler[h]) \in log
        BY <3>2 DEF Consistent, BasesLogged
      <4>2. Entered(handler[h]).item = handler[h].item /\ Entered(handler[h]).version = handler[h].base.version
        BY DEF Entered
      <4>3. QED
        BY <2>2, <4>1, <4>2 DEF Consistent, LogBelowRow
    <3>3. QED
      BY <3>1, <3>2
  <2>3. QED
    BY <2>1, <2>2 DEF ConflictIsNewer
<1>3. ASSUME NEW h \in Handlers, WriteRow(h) PROVE ConflictIsNewer'
  <2>1. handler'[h].pc = "ok" /\ \A g \in Handlers : g # h => handler'[g] = handler[g]
    BY <1>3 DEF WriteRow, Consistent, TypeOK, Push
  <2>2. QED
    BY <2>1 DEF ConflictIsNewer
<1>4. ASSUME \A h \in Handlers : handler'[h] = handler[h] \/ handler'[h] = Idle PROVE ConflictIsNewer'
  BY <1>4, IdleTraced DEF ConflictIsNewer
<1>5. ASSUME NEW h \in Handlers, Frees(h) PROVE \A g \in Handlers : handler'[g] = handler[g] \/ handler'[g] = Idle
  BY <1>5 DEF Frees, Consistent, TypeOK
<1>6. QED
  BY <1>1, <1>2, <1>3, <1>4, <1>5 DEF Serves, Delete, Restart

\* An unlocked device's version of an item that stays only grows.
LEMMA MemoryGrows ==
    ASSUME SyncTypeOK, Traced, ConflictIsNewer, NEW d \in Devices, DeviceMoves(d), NEW i \in Kept,
           open[d], open'[d]
    PROVE  mem[d][i].base.version =< mem'[d][i].base.version
<1> DEFINE old == mem[d][i]
           new == mem'[d][i]
<1>0. /\ i \in Items /\ old \in Copy /\ old.base \in Row /\ old.base.version \in Nat
      /\ handler[d].found \in Row /\ handler[d].found.version \in Nat
      /\ sync[d].pulled[i] \in Row /\ sync[d].pulled[i].version \in Nat
  <2>1. i \in Items
    BY DEF Kept
  <2>2. old \in Copy /\ handler[d].found \in Row
    BY <2>1, CopiesMade, AcceptedIsRow
  <2>3. sync[d].pulled[i] \in Row
    BY <2>1 DEF SyncTypeOK, SyncState
  <2>4. QED
    BY <2>1, <2>2, <2>3 DEF Copy, Row
<1>1. CopyStep(d, i)
  BY <1>0, CopiesStep
<1>2. old.content = 0 => old.base.version = 0
  BY <1>0 DEF Traced, DeviceTraced, MemoryTraced, CopyTraced, NoCopy, NoRow
<1>3. CASE new = old
  BY <1>0, <1>3
<1>4. CASE Fresh(i) /\ \E b \in Nat \ {0} : new = [content |-> b, base |-> NoRow, dirty |-> TRUE]
  BY <1>0, <1>4 DEF Fresh, NoCopy
<1>5. CASE \E b \in Nat \ {0} : new = [old EXCEPT !.content = b, !.dirty = TRUE]
  BY <1>0, <1>5 DEF Copy
<1>6. CASE /\ sync[d].pc = "await" /\ handler[d].pc = "ok" /\ handler[d].item = i
           /\ new = [old EXCEPT !.base = Accepted(d), !.dirty = FALSE]
  <2>1. old.base.version = handler[d].found.version
    BY <1>6 DEF Traced, DeviceTraced, AwaitedTraced, ServerTraced, DecisionFits, Devices
  <2>2. new.base = Accepted(d)
    BY <1>0, <1>6 DEF Copy
  <2>3. Accepted(d).version = handler[d].found.version + 1
    BY <1>0, NewVersionIsSuccessor DEF Accepted
  <2>4. QED
    BY <1>0, <2>1, <2>2, <2>3
<1>7. CASE /\ sync[d].pc = "await" /\ handler[d].pc = "conflict" /\ handler[d].item = i
           /\ new = Adopt(old, handler[d].found)
  <2>1. old.base.version =< handler[d].found.version
    BY <1>7 DEF Traced, DeviceTraced, AwaitedTraced, ConflictIsNewer, Devices
  <2>2. QED
    BY <1>0, <1>7, <2>1 DEF Adopt
<1>8. CASE new = Merged(old, sync[d].pulled[i])
  BY <1>0, <1>2, <1>8 DEF Merged
<1>9. QED
  BY <1>1, <1>3, <1>4, <1>5, <1>6, <1>7, <1>8 DEF CopyStep

\* A step of the system that is not a device's changes no device, its file excepted.
LEMMA DevicesRest ==
    ASSUME [SyncNext]_vars, \A d \in Devices : ~DeviceMoves(d)
    PROVE  UNCHANGED <<open, mem, sync>>
BY DEF SyncNext, DeviceMoves, WriteFile, Serve, Orphan, WebDelete, ServerRestart, deviceVars, vars

LEMMA StepsKeepVersions ==
    ASSUME SyncTypeOK, Traced, ConflictIsNewer, [SyncNext]_vars,
           NEW d \in Devices, NEW i \in Kept, open[d], open'[d]
    PROVE  mem[d][i].base.version =< mem'[d][i].base.version
<1>1. CASE DeviceMoves(d)
  BY <1>1, MemoryGrows
<1>2. CASE mem'[d] = mem[d]
  <2>1. mem[d][i].base.version \in Nat
    BY DEF SyncTypeOK, Copy, Row, Kept
  <2>2. QED
    BY <1>2, <2>1
<1>3. ASSUME NEW e \in Devices, DeviceMoves(e), e # d PROVE mem'[d] = mem[d]
  BY <1>3, OthersRest
<1>4. QED
  BY <1>1, <1>2, <1>3, DevicesRest

\* With the file store no unlocked device falls back to an older version of an item
\* that stays, whatever is lost, late or edited meanwhile.
THEOREM DevicesNeverFallBack ==
    ASSUME Storage = "file"
    PROVE  SyncSpec => NeverFallsBack
<1>1. SyncInit => ConflictIsNewer
  BY IdleTraced DEF SyncInit, Init, ConflictIsNewer
<1>2. SyncTypeOK /\ Traced /\ Consistent /\ Consistent' /\ ConflictIsNewer /\ [SyncNext]_vars
        => ConflictIsNewer'
  BY SyncServes, ServesKeepsNewer
<1>3. SyncTypeOK /\ Traced /\ ConflictIsNewer /\ [SyncNext]_vars
         => [\A d \in Devices, i \in Kept :
               open[d] /\ open'[d] => mem[d][i].base.version =< mem'[d][i].base.version]_vars
  BY StepsKeepVersions
<1>4. QED
  BY <1>1, <1>2, <1>3, SyncTypeCorrect, AllIsTraced, SyncConsistent, PTL DEF SyncSpec, NeverFallsBack

\* Two devices that show one version of an item that stays, neither copy edited,
\* show the same content, in memory and on disk.
CopiesAgree ==
    \A d, e \in Devices, i \in Kept :
       \A a \in {mem[d][i], disk[d][i]}, b \in {mem[e][i], disk[e][i]} :
          a.content # 0 /\ ~a.dirty /\ b.content # 0 /\ ~b.dirty /\ a.base.version = b.base.version
             => a.content = b.content

\* It is what the version rule of sync() rests on ("r.version > known.version"
\* compares no contents): clean copies, one content per version.
THEOREM SameVersionSameContent ==
    ASSUME Storage = "file", EditDuringSync = FALSE
    PROVE  SyncSpec => []CopiesAgree
<1>1. CleanIsStored /\ Consistent => CopiesAgree
  <2> SUFFICES ASSUME CleanIsStored, Consistent PROVE CopiesAgree
    OBVIOUS
  <2> SUFFICES ASSUME NEW d \in Devices, NEW e \in Devices, NEW i \in Kept,
                      NEW a \in {mem[d][i], disk[d][i]}, NEW b \in {mem[e][i], disk[e][i]},
                      a.content # 0, ~a.dirty, b.content # 0, ~b.dirty, a.base.version = b.base.version
               PROVE  a.content = b.content
    BY DEF CopiesAgree
  <2> DEFINE v == a.base.version
             f == [item |-> i, version |-> v, blob |-> a.content]
             g == [item |-> i, version |-> v, blob |-> b.content]
  <2>1. f \in log /\ g \in log
    BY DEF CleanIsStored, Kept, Files
  <2>2. f = g
    BY <2>1 DEF Consistent, VersionNamesOneContent
  <2>3. f.blob = g.blob
    BY <2>2
  <2>4. QED
    BY <2>3
<1>2. QED
  BY <1>1, CleanIsStoredThere, SyncConsistent, PTL

-----------------------------------------------------------------------------
(* Edits and conflicts.                                                        *)

\* The push loop visits every edit: of the items that stay, those still marked are
\* ahead of it, or the one that is awaited, and none is left when the pull arrives.
Visited == \A d \in Devices, i \in Kept :
    mem[d][i].dirty =>
       /\ sync[d].pc = "push" => i \in sync[d].todo
       /\ sync[d].pc = "await" => i \in sync[d].todo \/ handler[d].pc = "idle" \/ handler[d].item = i
       /\ sync[d].pc = "merge" => sync[d].pulled[i] = NoRow

\* No entry of a device is dirty that was not, or the user has just edited it.
LEMMA VisitedByMoves ==
    ASSUME EditDuringSync = FALSE, SyncTypeOK, Traced, Visited, NEW d \in Devices, DeviceMoves(d),
           NEW i \in Kept, mem'[d][i].dirty
    PROVE  /\ sync'[d].pc = "push" => i \in sync'[d].todo
           /\ sync'[d].pc = "await" => i \in sync'[d].todo \/ handler'[d].pc = "idle" \/ handler'[d].item = i
           /\ sync'[d].pc = "merge" => sync'[d].pulled[i] = NoRow
<1>0. i \in Items /\ sync \in [Devices -> SyncState] /\ mem \in [Devices -> [Items -> Copy]]
  BY DEF Kept, SyncTypeOK
<1>1. CASE mem'[d][i].dirty = mem[d][i].dirty
  <2>1. /\ sync[d].pc = "push" => i \in sync[d].todo
        /\ sync[d].pc = "await" => i \in sync[d].todo \/ handler[d].pc = "idle" \/ handler[d].item = i
        /\ sync[d].pc = "merge" => sync[d].pulled[i] = NoRow
    BY <1>1 DEF Visited
  <2>2. ASSUME sync' = [sync EXCEPT ![d] = NoSync] PROVE sync'[d].pc = "idle"
    BY <1>0, <2>2, IdleIsEmpty
  <2>3. CASE Lock(d) \/ Quit(d) \/ PushFail(d) \/ PullFail(d) \/ ConnectionLost(d) \/ Merge(d)
    BY <2>2, <2>3 DEF Lock, Quit, Forget, PushFail, PullFail, ConnectionLost, Merge
  <2>4. CASE Unlock(d)
    BY <2>4 DEF Unlock, Traced, DeviceTraced, ClosedIsEmpty
  <2>5. CASE SyncStart(d)
    <3>1. mem[d][i].content # 0
      BY <1>0, <1>1 DEF Traced, DeviceTraced, MemoryTraced, CopyTraced, NoCopy
    <3>2. sync'[d].pc = "push" /\ i \in sync'[d].todo
      BY <1>0, <2>5, <3>1 DEF SyncStart, SyncState, Has
    <3>3. QED
      BY <3>2
  <2>6. ASSUME NEW j \in Items, SkipClean(d, j) PROVE sync'[d].pc = "push" /\ i \in sync'[d].todo
    BY <1>0, <1>1, <2>1, <2>6 DEF SkipClean, SyncState
  <2>7. ASSUME NEW j \in Items, PushDirty(d, j)
        PROVE  sync'[d].pc = "await" /\ (i \in sync'[d].todo \/ handler'[d].item = i)
    <3>1. sync'[d].pc = "await" /\ sync'[d].todo = sync[d].todo \ {j} /\ i \in sync[d].todo
      BY <1>0, <2>1, <2>7 DEF PushDirty, SyncState
    <3>2. handler'[d].item = j
      BY <2>7 DEF PushDirty, Submit, SyncTypeOK, TypeOK, Devices
    <3>3. QED
      BY <3>1, <3>2
  <2>8. CASE PushOk(d) \/ PushConflict(d)
    <3>1. /\ sync[d].pc = "await" /\ handler[d].pc # "idle"
          /\ sync'[d].pc = "push" /\ sync'[d].todo = sync[d].todo
      BY <1>0, <2>8 DEF PushOk, PushConflict, SyncState
    <3>2. ASSUME handler[d].item = i PROVE ~mem'[d][i].dirty
      <4>1. CASE PushOk(d)
        BY <1>0, <3>2, <4>1 DEF PushOk, Copy
      <4>2. CASE PushConflict(d)
        <5>1. handler[d].found # NoRow
          BY <3>2, <4>2 DEF PushConflict, Traced, ServerTraced, ConflictShows, Devices
        <5>2. mem'[d][i] = Adopt(mem[d][i], handler[d].found)
          BY <1>0, <3>2, <4>2 DEF PushConflict
        <5>3. QED
          BY <5>1, <5>2 DEF Adopt
      <4>3. QED
        BY <2>8, <4>1, <4>2
    <3>3. QED
      BY <2>1, <3>1, <3>2
  <2>9. CASE Pull(d)
    BY <1>0, <2>1, <2>9 DEF Pull, SyncState
  <2>10. ASSUME NEW j \in Items, Add(d, j)
         PROVE  /\ sync'[d].pc = sync[d].pc /\ sync'[d].pulled = sync[d].pulled
                /\ sync[d].todo \subseteq sync'[d].todo /\ handler' = handler
    BY <1>0, <2>10 DEF Add, SyncState
  <2>11. ASSUME NEW j \in Items, Update(d, j) PROVE sync' = sync /\ handler' = handler
    BY <2>11 DEF Update
  <2>12. QED
    BY <2>1, <2>3, <2>4, <2>5, <2>6, <2>7, <2>8, <2>9, <2>10, <2>11 DEF DeviceMoves, SyncStep, Fault
<1>2. CASE mem'[d][i].dirty # mem[d][i].dirty
  <2>1. mem'[d][i].dirty = TRUE /\ mem[d][i].dirty = FALSE
    BY <1>0, <1>2 DEF Copy
  <2>2. CASE Unlock(d)
    BY <2>2 DEF Unlock, Traced, DeviceTraced, ClosedIsEmpty
  <2>3. CASE Lock(d) \/ Quit(d)
    BY <1>0, <2>3 DEF Lock, Quit, Forget, EmptyVault, NoCopy
  <2>4. ASSUME NEW j \in Items, Add(d, j)
        PROVE  /\ sync'[d].pc \in {"push", "await"} => i \in sync'[d].todo
               /\ sync'[d].pc = "merge" => sync'[d].pulled[i] = NoRow
    <3>1. j = i
      BY <1>0, <2>1, <2>4 DEF Add
    <3>2. sync'[d].pc = sync[d].pc /\ sync'[d].pulled = sync[d].pulled
      BY <1>0, <2>4 DEF Add, SyncState
    <3>3. sync[d].pc \in {"push", "await"} => i \in sync'[d].todo
      BY <1>0, <2>4, <3>1 DEF Add, SyncState
    <3>4. sync[d].pulled[i] = NoRow
      BY <1>0, <2>4, <3>1 DEF Add, Fresh, Traced, DeviceTraced, PulledLogged, Stored
    <3>5. QED
      BY <3>2, <3>3, <3>4
  <2>5. ASSUME NEW j \in Items, Update(d, j) PROVE sync'[d].pc = "idle"
    BY <2>5 DEF Update
  <2>6. CASE PushOk(d)
    BY <1>0, <2>1, <2>6, AcceptedIsRow DEF PushOk, Copy
  <2>7. CASE PushConflict(d)
    <3>1. mem'[d][i] = mem[d][i] \/ mem'[d][i] = Adopt(mem[d][i], handler[d].found)
      BY <1>0, <2>7, AcceptedIsRow DEF PushConflict
    <3>2. QED
      BY <2>1, <3>1 DEF Adopt
  <2>8. CASE Merge(d)
    <3>1. mem'[d][i] = Merged(mem[d][i], sync[d].pulled[i])
      BY <1>0, <2>8 DEF Merge
    <3>2. QED
      BY <2>1, <3>1 DEF Merged
  <2>9. ASSUME UNCHANGED mem PROVE FALSE
    BY <1>2, <2>9
  <2>10. QED
    BY <2>2, <2>3, <2>4, <2>5, <2>6, <2>7, <2>8, <2>9
       DEF DeviceMoves, SyncStep, Fault, SyncStart, SkipClean, PushDirty, ConnectionLost, Pull, PushFail, PullFail
<1>3. QED
  BY <1>1, <1>2

LEMMA VisitedStays ==
    ASSUME EditDuringSync = FALSE, SyncTypeOK, Traced, Visited, [SyncNext]_vars
    PROVE  Visited'
<1>1. ASSUME NEW d \in Devices, DeviceMoves(d) PROVE Visited'
  <2>1. \A e \in Devices : e # d => mem'[e] = mem[e] /\ sync'[e] = sync[e] /\ handler'[e] = handler[e]
    BY <1>1, OthersRest
  <2>2. \A i \in Kept : mem'[d][i].dirty =>
          /\ sync'[d].pc = "push" => i \in sync'[d].todo
          /\ sync'[d].pc = "await" => i \in sync'[d].todo \/ handler'[d].pc = "idle" \/ handler'[d].item = i
          /\ sync'[d].pc = "merge" => sync'[d].pulled[i] = NoRow
    BY <1>1, VisitedByMoves
  <2>3. \A e \in Devices : e # d => \A i \in Kept : mem'[e][i].dirty =>
          /\ sync'[e].pc = "push" => i \in sync'[e].todo
          /\ sync'[e].pc = "await" => i \in sync'[e].todo \/ handler'[e].pc = "idle" \/ handler'[e].item = i
          /\ sync'[e].pc = "merge" => sync'[e].pulled[i] = NoRow
    BY <2>1 DEF Visited
  <2>4. QED
    BY <2>2, <2>3 DEF Visited
<1>2. ASSUME UNCHANGED <<mem, sync>>,
             \A d \in Devices : \/ sync[d].pc # "await" \/ handler'[d].pc = "idle"
                                \/ handler[d].pc # "idle" /\ handler'[d].item = handler[d].item
      PROVE  Visited'
  BY <1>2 DEF Visited
<1>3. ASSUME NEW d \in Devices, Serve(d) PROVE Visited'
  <2>1. /\ UNCHANGED <<mem, sync>> /\ \A e \in Devices : e # d => handler'[e] = handler[e]
        /\ handler[d].pc # "idle" /\ handler'[d].item = handler[d].item
    BY <1>3 DEF Serve, ServerStep, ReadRow, WriteRow, deviceVars, Devices, SyncTypeOK, TypeOK, Push
  <2>2. QED
    BY <2>1 DEF Visited
<1>4. ASSUME NEW d \in Devices, Orphan(d) PROVE Visited'
  <2>1. /\ UNCHANGED <<mem, sync>> /\ sync[d].pc # "await"
        /\ \A e \in Devices : e # d => handler'[e] = handler[e]
    BY <1>4 DEF Orphan, Answer, deviceVars, Devices, SyncTypeOK, TypeOK
  <2>2. QED
    BY <2>1 DEF Visited
<1>5. CASE ServerRestart
  <2>1. UNCHANGED <<mem, sync>> /\ \A e \in Devices : handler'[e].pc = "idle"
    BY <1>5, IdleTraced DEF ServerRestart, Restart, Devices
  <2>2. QED
    BY <2>1 DEF Visited
<1>6. CASE \/ UNCHANGED vars \/ \E i \in Items : WebDelete(i)
           \/ \E d \in Devices, w \in Writes : WriteFile(d, w)
  <2>1. UNCHANGED <<mem, sync, handler>>
    BY <1>6 DEF WebDelete, Delete, WriteFile, deviceVars, vars
  <2>2. QED
    BY <2>1 DEF Visited
<1>7. QED
  BY <1>1, <1>3, <1>4, <1>5, <1>6 DEF SyncNext, DeviceMoves

LEMMA DirtyYields ==
    ASSUME SyncTypeOK, Traced, Visited, [SyncNext]_vars, NEW d \in Devices, NEW i \in Kept,
           mem[d][i].dirty, open'[d], mem'[d][i].content # mem[d][i].content
    PROVE  mem'[d][i].dirty \/ (handler[d].pc = "conflict" /\ handler[d].item = i)
<1> DEFINE old == mem[d][i]
           new == mem'[d][i]
<1>0. i \in Items /\ old \in Copy
  BY CopiesMade DEF Kept
<1>1. DeviceMoves(d)
  <2>1. \A e \in Devices : e # d => ~DeviceMoves(e)
    BY OthersRest
  <2>2. QED
    BY <2>1, DevicesRest
<1>2. CopyStep(d, i)
  BY <1>0, <1>1, CopiesStep
<1>3. open[d]
  BY <1>0 DEF Traced, DeviceTraced, ClosedIsEmpty, EmptyVault, NoCopy
<1>4. CASE new = [old EXCEPT !.base = Accepted(d), !.dirty = FALSE]
  BY <1>0, <1>4 DEF Copy
<1>5. CASE sync[d].pc = "merge" /\ new = Merged(old, sync[d].pulled[i])
  BY <1>5 DEF Visited, Merged
<1>6. CASE \E b \in Nat \ {0} : new = [old EXCEPT !.content = b, !.dirty = TRUE]
  BY <1>0, <1>6 DEF Copy
<1>7. CASE \E b \in Nat \ {0} : new = [content |-> b, base |-> NoRow, dirty |-> TRUE]
  BY <1>7
<1>8. QED
  BY ONLY <1>2, <1>3, <1>4, <1>5, <1>6, <1>7, open'[d], mem'[d][i].content # mem[d][i].content DEF CopyStep

\* As long as nobody edits while a sync() awaits, an edit of an item that stays is
\* given up only to a conflict: the pull takes none away, for both storages.
THEOREM EditsYieldToConflictsOnly ==
    ASSUME EditDuringSync = FALSE
    PROVE  SyncSpec => DirtyYieldsToConflictOnly
<1>1. SyncInit => Visited
  BY DEF SyncInit, Visited, NoSync
<1>2. SyncTypeOK /\ Traced /\ Visited /\ [SyncNext]_vars => Visited'
  BY VisitedStays
<1>3. SyncTypeOK /\ Traced /\ Visited /\ [SyncNext]_vars
        => [\A d \in Devices, i \in Kept :
              mem[d][i].dirty /\ open'[d] /\ mem'[d][i].content # mem[d][i].content
                => \/ mem'[d][i].dirty
                   \/ handler[d].pc = "conflict" /\ handler[d].item = i]_vars
  BY DirtyYields
<1>4. QED
  BY <1>1, <1>2, <1>3, SyncTypeCorrect, AllIsTraced, PTL DEF SyncSpec, DirtyYieldsToConflictOnly
=============================================================================
