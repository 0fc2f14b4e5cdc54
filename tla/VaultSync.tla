------------------------------ MODULE VaultSync ------------------------------
(***************************************************************************)
(* The devices of one account and the sync server: on each device the      *)
(* VaultApp controller (packages/desktop/src/core/vault-app.ts, mirrored   *)
(* by packages/mobile/lib/core/vault_app.dart) with its in-memory vault,   *)
(* its encrypted file and its sync(), composed with VaultServer.           *)
(*                                                                         *)
(* sync() awaits the network once per dirty item and once for the pull.    *)
(* Between two awaits the user may add, edit or lock, the other devices    *)
(* and the server go on, the connection or the process may die.            *)
(*                                                                         *)
(* A device owns one request slot of the server, so Handlers is also the   *)
(* set of devices; a slot whose device gave up waiting keeps running.      *)
(*                                                                         *)
(* persist() encrypts a snapshot of memory, and writeFile truncates the    *)
(* file and writes it while everything goes on: an add() may persist while *)
(* the write of a sync() is under way, and the two land in either order.   *)
(* A write under way may have truncated the file or not: who reads it then *)
(* finds what it held, or nothing.  A disk that refuses writes is left out. *)
(***************************************************************************)
EXTENDS VaultServer

CONSTANTS
    Writes,           \* bound: writes of its file that a device has under way
    EditDuringSync,   \* TRUE: update() may be called while sync() awaits
    MaxFaults         \* bound: locks, ends of a process, lost connections, and
                      \* writes asked for while another is under way

ASSUME EditAssumption == EditDuringSync \in BOOLEAN
ASSUME FaultsAssumption == MaxFaults \in Nat

VARIABLES
    open,    \* open[d]: the vault is unlocked (key # null)
    mem,     \* mem[d][i]: items and meta of the running app
    disk,    \* disk[d]: the vault the file holds, none when it is empty or torn
    torn,    \* torn[d]: the file holds part of a blob, which nothing decrypts
    save,    \* save[d][w]: a write of the file under way
    sync,    \* sync[d]: where the running sync() stands
    faults,  \* how many of what MaxFaults bounds have happened
    overlapped  \* history: the last write of d was started while another was under way

fileVars == <<disk, torn, save, overlapped>>
deviceVars == <<open, mem, disk, torn, save, sync, faults, overlapped>>
vars == <<row, handler, blobs, log, open, mem, disk, torn, save, sync, faults, overlapped>>

Devices == Handlers

\* items[i] and meta[i] together.  base is the stored row the copy comes from:
\* its version is meta.version (0 for an item never pushed), its blob a history
\* of which content that version meant to this device.
Copy == [content : Nat, base : Row, dirty : BOOLEAN]
NoCopy == [content |-> 0, base |-> NoRow, dirty |-> FALSE]

SyncState == [pc : {"idle", "push", "await", "merge"},
              todo : SUBSET Items,      \* entries of meta the push loop has not visited
              pulled : [Items -> Row]]  \* the answer of transport.pull()

\* A write of the file; it is "late" once another has landed since it was asked for.
Save == [pc : {"none", "writing", "late"}, vault : [Items -> Copy]]

NoSync == [pc |-> "idle", todo |-> {}, pulled |-> [i \in Items |-> NoRow]]
EmptyVault == [i \in Items |-> NoCopy]
NoSave == [pc |-> "none", vault |-> EmptyVault]

SyncTypeOK ==
    /\ TypeOK
    /\ open \in [Devices -> BOOLEAN]
    /\ mem \in [Devices -> [Items -> Copy]]
    /\ disk \in [Devices -> [Items -> Copy]]
    /\ torn \in [Devices -> BOOLEAN]
    /\ save \in [Devices -> [Writes -> Save]]
    /\ sync \in [Devices -> SyncState]
    /\ faults \in Nat
    /\ overlapped \in [Devices -> BOOLEAN]

SyncInit ==
    /\ Init
    /\ open = [d \in Devices |-> FALSE]
    /\ mem = [d \in Devices |-> EmptyVault]
    /\ disk = [d \in Devices |-> EmptyVault]
    /\ torn = [d \in Devices |-> FALSE]
    /\ save = [d \in Devices |-> [w \in Writes |-> NoSave]]
    /\ sync = [d \in Devices |-> NoSync]
    /\ faults = 0
    /\ overlapped = [d \in Devices |-> FALSE]

Has(d, i) == mem[d][i].content # 0

-----------------------------------------------------------------------------
(* The file. *)

UnderWay(d) == {w \in Writes : save[d][w].pc # "none"}

\* Every vault that is in the file of d or on its way there.
Files(d) == {disk[d]} \cup {save[d][w].vault : w \in Writes}

\* persist(): a snapshot of the whole state is on its way to the file.
BadSnapshot(d) == mem[d]        \* taken before the change
Snapshot(d) == mem'[d]
Persist(d) ==
    /\ IF UnderWay(d) = {} THEN UNCHANGED faults ELSE faults < MaxFaults /\ faults' = faults + 1
    /\ \E w \in Writes \ UnderWay(d) :
        /\ save' = [save EXCEPT ![d][w] = [pc |-> "writing", vault |-> Snapshot(d)]]
        /\ overlapped' = [overlapped EXCEPT ![d] = UnderWay(d) # {}]
        /\ UNCHANGED <<disk, torn>>

\* A write lands, from the start of the file.  A late one that truncated the file
\* before the other landed leaves the end of the other behind, if that was longer.
WriteFile(d, w) ==
    /\ w \in UnderWay(d)
    /\ save' = [save EXCEPT ![d] = [v \in Writes |->
           IF v = w THEN NoSave
           ELSE IF v \in UnderWay(d) THEN [save[d][v] EXCEPT !.pc = "late"] ELSE save[d][v]]]
    /\ \/ /\ disk' = [disk EXCEPT ![d] = save[d][w].vault]
          /\ torn' = [torn EXCEPT ![d] = FALSE]
       \/ /\ save[d][w].pc = "late"
          /\ disk' = [disk EXCEPT ![d] = EmptyVault]
          /\ torn' = [torn EXCEPT ![d] = TRUE]
    /\ UNCHANGED <<open, mem, sync, faults, overlapped, row, handler, blobs, log>>

\* What the file of d may be found to hold.
Found(d) == IF UnderWay(d) = {} THEN {disk[d]} ELSE {disk[d], EmptyVault}

-----------------------------------------------------------------------------
(* The user's calls. *)

\* unlock / unlockWithKey: the vault in the file, or nothing when it is empty or
\* missing; a file that is torn does not decrypt.
Unlock(d) ==
    /\ ~open[d]
    /\ torn[d] => UnderWay(d) # {}
    /\ open' = [open EXCEPT ![d] = TRUE]
    /\ \E vault \in Found(d) : mem' = [mem EXCEPT ![d] = vault]
    /\ overlapped' = [overlapped EXCEPT ![d] = UnderWay(d) # {}]
    /\ UNCHANGED <<disk, torn, save, sync, faults, row, handler, blobs, log>>

\* Key, items and meta are gone.  A sync() under way throws at its next use of
\* the key; the request it sent runs on.
Forget(d) ==
    /\ faults < MaxFaults
    /\ faults' = faults + 1
    /\ open' = [open EXCEPT ![d] = FALSE]
    /\ mem' = [mem EXCEPT ![d] = EmptyVault]
    /\ sync' = [sync EXCEPT ![d] = NoSync]
    /\ UNCHANGED <<overlapped, row, handler, blobs, log>>

\* lock(): the writes under way go on.
Lock(d) == open[d] /\ Forget(d) /\ UNCHANGED <<disk, torn, save>>

\* The process dies, with its writes: a file that was truncated stays so.
Quit(d) ==
    /\ open[d] \/ UnderWay(d) # {}
    /\ Forget(d)
    /\ \E vault \in Found(d) : disk' = [disk EXCEPT ![d] = vault]
    /\ save' = [save EXCEPT ![d] = [w \in Writes |-> NoSave]]
    /\ \/ UNCHANGED torn
       \/ UnderWay(d) # {} /\ torn' = [torn EXCEPT ![d] = FALSE]

\* randomUUID: an id nobody has used.
Fresh(i) == /\ \A d \in Devices : \A v \in Files(d) \cup {mem[d]} : v[i] = NoCopy
            /\ \A d \in Devices : handler[d].pc # "idle" => handler[d].item # i
            /\ \A e \in log : e.item # i

\* add(): version 0 and dirty.  A push loop under way visits it too, for it
\* iterates over the live meta map.
Add(d, i) ==
    /\ open[d]
    /\ Fresh(i)
    /\ blobs < MaxBlobs
    /\ blobs' = blobs + 1
    /\ mem' = [mem EXCEPT ![d][i] = [content |-> blobs', base |-> NoRow, dirty |-> TRUE]]
    /\ Persist(d)
    /\ sync' = [sync EXCEPT ![d].todo = IF sync[d].pc \in {"push", "await"} THEN @ \cup {i} ELSE @]
    /\ UNCHANGED <<open, row, handler, log>>

\* update(): a new content, dirty again.
Update(d, i) ==
    /\ open[d]
    /\ Has(d, i)
    /\ EditDuringSync \/ sync[d].pc = "idle"
    /\ blobs < MaxBlobs
    /\ blobs' = blobs + 1
    /\ mem' = [mem EXCEPT ![d][i] = [@ EXCEPT !.content = blobs', !.dirty = TRUE]]
    /\ Persist(d)
    /\ UNCHANGED <<open, sync, row, handler, log>>

-----------------------------------------------------------------------------
(* sync(), from await to await. *)

\* One sync() at a time on a device.
SyncStart(d) ==
    /\ open[d]
    /\ sync[d].pc = "idle"
    /\ sync' = [sync EXCEPT ![d] = [@ EXCEPT !.pc = "push", !.todo = {i \in Items : Has(d, i)}]]
    /\ UNCHANGED <<open, mem, fileVars, faults, row, handler, blobs, log>>

\* The push loop meets a clean entry: "if (!m.dirty) continue".
BadSkipClean(d, i) ==       \* skips what the server already has, edited or not
    /\ sync[d].pc = "push"
    /\ i \in sync[d].todo
    /\ ~mem[d][i].dirty \/ mem[d][i].base # NoRow
    /\ sync' = [sync EXCEPT ![d].todo = @ \ {i}]
    /\ UNCHANGED <<open, mem, fileVars, faults, row, handler, blobs, log>>
SkipClean(d, i) ==
    /\ sync[d].pc = "push"
    /\ i \in sync[d].todo
    /\ ~mem[d][i].dirty
    /\ sync' = [sync EXCEPT ![d].todo = @ \ {i}]
    /\ UNCHANGED <<open, mem, fileVars, faults, row, handler, blobs, log>>

\* The push loop meets a dirty entry: encrypt it, send it, await the answer.
PushDirty(d, i) ==
    /\ sync[d].pc = "push"
    /\ i \in sync[d].todo
    /\ mem[d][i].dirty
    /\ Submit(d, i, mem[d][i].base, mem[d][i].content)
    /\ sync' = [sync EXCEPT ![d] = [@ EXCEPT !.pc = "await", !.todo = sync[d].todo \ {i}]]
    /\ UNCHANGED <<open, mem, fileVars, faults, row, blobs, log>>

\* The pushed row as the device notes it on an "ok".
Accepted(d) == [version |-> NewVersion(handler[d].found), blob |-> handler[d].blob]

\* The answer is "ok": the entry gets the new version and is clean, whatever
\* has happened to it since the request was sent.
PushOk(d) ==
    LET i == handler[d].item IN
    /\ sync[d].pc = "await"
    /\ handler[d].pc = "ok"
    /\ mem' = [mem EXCEPT ![d][i] = [@ EXCEPT !.base = Accepted(d), !.dirty = FALSE]]
    /\ sync' = [sync EXCEPT ![d].pc = "push"]
    /\ handler' = [handler EXCEPT ![d] = Idle]
    /\ UNCHANGED <<open, fileVars, faults, row, blobs, log>>

\* What a conflict makes of the local copy: the server's, when it sends one.
BadAdopt(copy, server) ==       \* takes the server's version, not its content
    [copy EXCEPT !.base = server, !.dirty = FALSE]
BadAdoptLater(copy, server) ==  \* forgets its version and leaves it to the pull
    [copy EXCEPT !.base = NoRow, !.dirty = FALSE]
Adopt(copy, server) ==
    IF server = NoRow THEN copy
    ELSE [content |-> server.blob, base |-> server, dirty |-> FALSE]

\* The answer is "conflict": the server's copy replaces the local one.
PushConflict(d) ==
    LET i == handler[d].item IN
    /\ sync[d].pc = "await"
    /\ handler[d].pc = "conflict"
    /\ mem' = [mem EXCEPT ![d][i] = Adopt(@, handler[d].found)]
    /\ sync' = [sync EXCEPT ![d].pc = "push"]
    /\ handler' = [handler EXCEPT ![d] = Idle]
    /\ UNCHANGED <<open, fileVars, faults, row, blobs, log>>

\* The request or its answer is lost, or the server refuses the token (a refused
\* push changes nothing and the pull that follows throws): sync() rejects and
\* memory keeps what the loop had done, unpersisted.
PushFail(d) ==
    /\ sync[d].pc = "await"
    /\ faults < MaxFaults
    /\ faults' = faults + 1
    /\ sync' = [sync EXCEPT ![d] = NoSync]
    /\ \/ UNCHANGED handler
       \/ /\ handler[d].pc \in {"get", "ok", "conflict"}
          /\ handler' = [handler EXCEPT ![d] = Idle]
    /\ UNCHANGED <<open, mem, fileVars, row, blobs, log>>

\* The loop is over; the server answers GET /vault/items with all its rows.
Pull(d) ==
    /\ sync[d].pc = "push"
    /\ sync[d].todo = {}
    /\ MayRun(d)
    /\ sync' = [sync EXCEPT ![d] = [@ EXCEPT !.pc = "merge", !.pulled = row]]
    /\ UNCHANGED <<open, mem, fileVars, faults, row, handler, blobs, log>>

\* The pull fails: sync() rejects without persisting.
PullFail(d) ==
    /\ sync[d].pc \in {"push", "merge"}
    /\ sync[d].todo = {}
    /\ faults < MaxFaults
    /\ faults' = faults + 1
    /\ sync' = [sync EXCEPT ![d] = NoSync]
    /\ UNCHANGED <<open, mem, fileVars, row, handler, blobs, log>>

\* A pulled row is taken when the device does not know the item or knows an
\* older version, even over an entry that is dirty.
BadMergedNone(copy, remote) ==  \* takes unknown items only
    IF remote # NoRow /\ copy.content = 0
    THEN [content |-> remote.blob, base |-> remote, dirty |-> FALSE] ELSE copy
Merged(copy, remote) ==
    IF remote # NoRow /\ (copy.content = 0 \/ remote.version > copy.base.version)
    THEN [content |-> remote.blob, base |-> remote, dirty |-> FALSE]
    ELSE copy

\* The pull arrives: merge every row and persist.  What is left of sync() is the
\* write, and nothing keeps the next sync() from starting before it is done.
Merge(d) ==
    /\ sync[d].pc = "merge"
    /\ mem' = [mem EXCEPT ![d] = [i \in Items |-> Merged(mem[d][i], sync[d].pulled[i])]]
    /\ Persist(d)
    /\ sync' = [sync EXCEPT ![d] = NoSync]
    /\ UNCHANGED <<open, row, handler, blobs, log>>

-----------------------------------------------------------------------------
(* The server. *)

\* A handler whose device no longer listens ends.
Orphan(d) == /\ sync[d].pc # "await"
             /\ Answer(d)
             /\ UNCHANGED deviceVars

Serve(d) == ServerStep(d) /\ UNCHANGED deviceVars

\* The web client deletes an item it sees.
WebDelete(i) == Delete(i) /\ UNCHANGED deviceVars

ServerRestart == /\ faults < MaxFaults
                 /\ faults' = faults + 1
                 /\ Restart
                 /\ UNCHANGED <<open, mem, fileVars, sync>>

\* A restart drops the request a device awaits: its connection breaks.
BadConnectionLost(d) == FALSE       \* nobody notices
ConnectionLost(d) ==
    /\ sync[d].pc = "await"
    /\ handler[d].pc = "idle"
    /\ sync' = [sync EXCEPT ![d] = NoSync]
    /\ UNCHANGED <<open, mem, fileVars, faults, row, handler, blobs, log>>

SyncStep(d) == \/ \E i \in Items : SkipClean(d, i) \/ PushDirty(d, i)
               \/ PushOk(d) \/ PushConflict(d) \/ ConnectionLost(d)
               \/ Pull(d) \/ Merge(d)

Fault(d) == Lock(d) \/ Quit(d) \/ PushFail(d) \/ PullFail(d)

SyncNext == \/ \E d \in Devices :
                 \/ Unlock(d) \/ SyncStart(d) \/ SyncStep(d) \/ Fault(d)
                 \/ \E i \in Items : Add(d, i) \/ Update(d, i)
                 \/ Serve(d) \/ Orphan(d)
                 \/ \E w \in Writes : WriteFile(d, w)
            \/ \E i \in Items : WebDelete(i)
            \/ ServerRestart

SyncSpec == SyncInit /\ [][SyncNext]_vars

\* The app's own steps run once their await resolves, files are written, the
\* server serves, and the user keeps asking for a sync (the Sync button).  Edits,
\* locks and faults owe nothing.
SyncFair == \A d \in Devices :
                /\ WF_vars(Serve(d))
                /\ WF_vars(Orphan(d))
                /\ WF_vars(\E w \in Writes : WriteFile(d, w))
                /\ WF_vars(SyncStep(d))
                /\ WF_vars(SyncStart(d))

FairSyncSpec == SyncSpec /\ SyncFair

-----------------------------------------------------------------------------
\* An entry that is not marked for sync holds exactly what the server stored
\* under its version, in memory, in the file and in every write under way: no edit
\* loses its dirty mark before the server has it ("Edit an existing item and mark
\* it for sync").
CleanIsStored ==
    \A d \in Devices, i \in Items : \A v \in Files(d) \cup {mem[d]} :
        v[i].content # 0 /\ ~v[i].dirty
          => [item |-> i, version |-> v[i].base.version, blob |-> v[i].content] \in log

\* An edit of an item that stays is given up, while it is marked for sync, only to
\* the server's copy of a conflict on that item; the pull never takes it away
\* uncounted ("Conflicts surface the server's newer copy", VaultApp.sync).
DirtyYieldsToConflictOnly ==
    [][\A d \in Devices, i \in Kept :
          mem[d][i].dirty /\ open'[d] /\ mem'[d][i].content # mem[d][i].content
            => \/ mem'[d][i].dirty
               \/ handler[d].pc = "conflict" /\ handler[d].item = i]_vars

\* While it is unlocked a device never falls back to an older version of an item
\* that stays: neither a late answer nor a pull that was listed before the last
\* push takes it back ("r.version > known.version").
NeverFallsBack ==
    [][\A d \in Devices, i \in Kept :
          open[d] /\ open'[d] => mem[d][i].base.version =< mem'[d][i].base.version]_vars

\* An edit marked for sync is in the file, or in the one write under way, whatever
\* a sync() has made of the entries next to it and of the marks that were pushed
\* ("Create a new item, persist it encrypted locally"), unless the last write was
\* started while another was under way: then either may be the one that lasts.
CarriesEdit(vault, d, i) == vault[i].dirty /\ vault[i].content = mem[d][i].content
EditsReachDisk ==
    \A d \in Devices, i \in Items : mem[d][i].dirty /\ ~overlapped[d] =>
        IF UnderWay(d) = {} THEN CarriesEdit(disk[d], d, i)
        ELSE \A w \in UnderWay(d) : CarriesEdit(save[d][w].vault, d, i)

\* A sync() that has started ends, whatever its requests meet.
SyncEnds == \A d \in Devices : sync[d].pc # "idle" ~> sync[d].pc = "idle"

\* Once edits and faults are over and the devices keep syncing, every unlocked
\* device shows the server's vault: two-way sync converges.
Converged == \A d \in Devices, i \in Items : open[d] => mem[d][i].content = row[i].blob
Convergence == <>[]Converged

=============================================================================
