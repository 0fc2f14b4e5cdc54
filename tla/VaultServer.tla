----------------------------- MODULE VaultServer -----------------------------
(***************************************************************************)
(* The sync engine of packages/server: VaultService.push / delete over a   *)
(* VaultRepository, with the version rule of sync/conflict.ts, for the     *)
(* items of one account.                                                   *)
(*                                                                         *)
(* A push is a handler that reads the stored row (await repo.get), decides *)
(* by resolvePush, and writes (await repo.put).  What may happen between   *)
(* the read and the write depends on the repository main.ts builds:        *)
(*   "file"     FileDb: every repository method runs synchronously, so the *)
(*              awaits only yield microtasks and no other request is       *)
(*              served in between;                                         *)
(*   "postgres" the Prisma adapters: each await is a database round trip,  *)
(*              and any other handler may run meanwhile.                   *)
(*                                                                         *)
(* Versions are numbers from 1; the 0 of NoRow stands for the null of      *)
(* "stored.current" and "baseVersion".  A blob is the identity of the      *)
(* content a client encrypted (two encryptions never give the same         *)
(* ciphertext).  Operators named Bad... are mutations the runs must catch. *)
(***************************************************************************)
EXTENDS Integers

CONSTANTS
    Items,      \* ids of vault items
    Handlers,   \* requests the server may be serving at the same time
    Storage,    \* which repositories main.ts built: "file" or "postgres"
    Deletable,  \* the items the web client may delete
    MaxBlobs    \* bound: contents ever written

ASSUME ItemsAssumption == Items # {}
ASSUME StorageAssumption == Storage \in {"file", "postgres"}
ASSUME DeletableAssumption == Deletable \subseteq Items
ASSUME BlobsAssumption == MaxBlobs \in Nat

VARIABLES
    row,      \* row[i]: the stored item, NoRow when the server has none
    handler,  \* handler[h]: the push in flight in slot h
    blobs,    \* how many contents have been written so far
    log       \* history: every row ever stored, as [item, version, blob]

serverVars == <<row, handler, blobs, log>>

Row == [version : Nat, blob : Nat]
NoRow == [version |-> 0, blob |-> 0]

\* Where a push stands: not there, before repo.get, before repo.put, answered.
Phases == {"idle", "get", "put", "ok", "conflict"}

Push == [pc : Phases,
         item : Items,
         base : Row,    \* the row its author last saw; the request carries its version
         blob : Nat,    \* the content it writes
         found : Row]   \* what repo.get returned

Entry == [item : Items, version : Nat, blob : Nat]

TypeOK == /\ row \in [Items -> Row]
          /\ handler \in [Handlers -> Push]
          /\ blobs \in Nat
          /\ log \subseteq Entry

\* An empty slot (its item means nothing).
Idle == [pc |-> "idle", item |-> CHOOSE i \in Items : TRUE, base |-> NoRow,
         blob |-> 0, found |-> NoRow]

Init == /\ row = [i \in Items |-> NoRow]
        /\ handler = [h \in Handlers |-> Idle]
        /\ blobs = 0
        /\ log = {}

-----------------------------------------------------------------------------
\* sync/conflict.ts resolvePush: the decision on a push, from versions alone.
BadResolveCreate(current, base) ==      \* a null base overwrites what is there
    IF base.version \in {0, current.version} THEN "write" ELSE "conflict"
BadResolveDeleted(current, base) ==     \* a null row accepts any base
    IF current.version \in {0, base.version} THEN "write" ELSE "conflict"

ResolvePush(current, base) ==
    IF base.version = current.version THEN "write" ELSE "conflict"

\* kind "create" has newVersion 1 and kind "update" stored.current + 1.
BadNewVersionNegative(current) == current.version - 1
BadNewVersion(current) == IF current.version = 0 THEN 1 ELSE current.version
NewVersion(current) == IF current.version = 0 THEN 1 ELSE current.version + 1

\* What the repository allows to run while other handlers are under way.
BadMayRun(h) == TRUE
MayRun(h) == Storage = "postgres" \/ \A g \in Handlers \ {h} : handler[g].pc # "put"

\* The rows a client may have seen of item i: one a pull or an answer showed.
Seen(i) == {NoRow} \cup {[version |-> e.version, blob |-> e.blob] : e \in {f \in log : f.item = i}}

\* PUT /vault/items/:id reaches the server.
Submit(h, i, base, blob) ==
    /\ handler[h] = Idle
    /\ handler' = [handler EXCEPT ![h] = [pc |-> "get", item |-> i, base |-> base,
                                          blob |-> blob, found |-> NoRow]]

\* VaultService.push up to repo.get and the decision that follows it.
ReadRow(h) ==
    LET p == handler[h]
        existing == row[p.item] IN
    /\ p.pc = "get"
    /\ MayRun(h)
    /\ handler' = [handler EXCEPT
                     ![h].found = existing,
                     ![h].pc = IF ResolvePush(existing, p.base) = "conflict"
                               THEN "conflict" ELSE "put"]
    /\ UNCHANGED <<row, blobs, log>>

\* VaultService.push from the decision to repo.put: an upsert, no matter what
\* the row has become since repo.get.
WriteRow(h) ==
    LET p == handler[h]
        new == [version |-> NewVersion(p.found), blob |-> p.blob] IN
    /\ p.pc = "put"
    /\ row' = [row EXCEPT ![p.item] = new]
    /\ log' = log \cup {[item |-> p.item, version |-> new.version, blob |-> new.blob]}
    /\ handler' = [handler EXCEPT ![h].pc = "ok"]
    /\ UNCHANGED blobs

\* The answer leaves the server, and may be lost on the way.
Answer(h) ==
    /\ handler[h].pc \in {"ok", "conflict"}
    /\ handler' = [handler EXCEPT ![h] = Idle]
    /\ UNCHANGED <<row, blobs, log>>

\* DELETE /vault/items/:id: one statement, no version is compared.
Delete(i) ==
    /\ i \in Deletable
    /\ row[i] # NoRow
    /\ Storage = "postgres" \/ \A h \in Handlers : handler[h].pc # "put"
    /\ row' = [row EXCEPT ![i] = NoRow]
    /\ UNCHANGED <<handler, blobs, log>>

\* The process stops and starts again: requests die, stored rows stay.
Restart ==
    /\ handler' = [h \in Handlers |-> Idle]
    /\ UNCHANGED <<row, blobs, log>>

\* A client writes new content over the row it last saw.
ClientPush(h) ==
    /\ blobs < MaxBlobs
    /\ blobs' = blobs + 1
    /\ \E i \in Items : \E base \in Seen(i) : Submit(h, i, base, blobs')
    /\ UNCHANGED <<row, log>>

ServerStep(h) == ReadRow(h) \/ WriteRow(h)

Next == \/ \E h \in Handlers : ClientPush(h) \/ ServerStep(h) \/ Answer(h)
        \/ \E i \in Items : Delete(i)
        \/ Restart

Spec == Init /\ [][Next]_serverVars

-----------------------------------------------------------------------------
\* An item that is deleted and created again starts again at version 1 (a push
\* carries no memory of the old row), so what versions promise is promised for
\* the items that are never deleted.
Kept == Items \ Deletable

\* An accepted push replaces exactly the row its author last saw ("prevents a
\* stale device from silently clobbering a newer change", sync/conflict.ts;
\* "no silent overwrites of newer data", vault.service.ts).
NoSilentClobber ==
    [][\A h \in Handlers :
          handler[h].pc = "put" /\ handler'[h].pc = "ok" /\ handler[h].item \in Kept
             => row[handler[h].item] = handler[h].base]_serverVars

\* A version of an item names one content for ever.  The clients rely on it:
\* they compare versions and never contents, so two contents under one version
\* would stay different on two devices (VaultApp.sync, "r.version > known.version").
VersionNamesOneContent ==
    \A e, f \in log :
        e.item = f.item /\ e.version = f.version /\ e.item \in Kept => e = f

\* "Every vault item carries a monotonically-increasing version" (conflict.ts):
\* of two rows stored for an item, the later has the greater version.
VersionsIncrease ==
    [][\A i \in Kept : row'[i] # row[i]
          => \A e \in log : e.item = i => e.version < row'[i].version]_serverVars

\* Only a push that creates an item makes a row where there is none: one that
\* edits a deleted item is refused ("Client thinks it's editing something the
\* server doesn't have -> conflict", conflict.ts).
NoResurrection ==
    [][\A h \in Handlers :
          handler[h].pc = "put" /\ handler'[h].pc = "ok" /\ row[handler[h].item] = NoRow
             => handler[h].base = NoRow]_serverVars

-----------------------------------------------------------------------------
\* The abstract request of a slot: a push is undecided up to its write, and one
\* for an item that may be deleted is none of the promise's business.
NoRequest == [result |-> "none", item |-> CHOOSE i \in Kept : TRUE, base |-> NoRow, blob |-> 0]
ResultOf(pc) == IF pc \in {"get", "put"} THEN "pending" ELSE pc
RequestOf(p) ==
    IF p.pc = "idle" \/ p.item \in Deletable THEN NoRequest
    ELSE [result |-> ResultOf(p.pc), item |-> p.item, base |-> p.base, blob |-> p.blob]

Promise == INSTANCE VersionedStore WITH
              Items <- Kept,
              row <- [i \in Kept |-> row[i]],
              request <- [h \in Handlers |-> RequestOf(handler[h])]

\* Every push is decided at one instant against the row it names: the server
\* implements the compare-and-swap of VersionedStore.
KeepsPromise == Promise!Spec
=============================================================================
