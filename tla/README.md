# A formal model of VaultKeep

VaultKeep is a zero-knowledge password manager: clients encrypt every item, the
server stores ciphertexts and decides about versions, devices and recovery.
This directory holds TLA+ modules translated from its source, TLC runs over
small instances, and TLAPS proofs for every instance. Paths below are relative
to `src/packages/`.

    tlc -workers 2 -config VaultServer_file.cfg MCVaultServer.tla
    tlapm VaultServerProofs.tla

## 1. Inventory

| Component | State it keeps | Operations | What is hard | What makes it correct | Status |
|---|---|---|---|---|---|
| Vault sync engine: `server/src/sync/conflict.ts`, `server/src/vault/` | one row (version, blob) per item | push, delete, pull | push reads, decides, writes, with awaits between | no silent overwrite; one content per version; versions grow; no resurrection | modelled: `VersionedStore`, `VaultServer` |
| Client vault controller: `desktop/src/core/vault-app.ts`, `mobile/lib/core/vault_app.dart`, their sync clients and stores | key, items, meta (version, dirty) in memory; the encrypted file | unlock, lock, add, update, sync, persist, rekey | user calls, faults and other devices between the awaits of sync(); writes of the file that overlap or are cut off | no edit lost; dirty edits reach the file; no device falls back; devices converge | partly: `VaultSync` (no rekey, one sync() at a time) |
| Emergency contacts: `server/src/recovery/recovery.service.ts` | state and unlockAt per contact | addContact, requestAccess, deny, collect | timer and clock; denial racing collection; the end of the process between storing and notifying | key never early, nor before the owner is told; denial is final; key is served in the end | modelled: `EmergencyContract`, `EmergencyAccess` |
| Recovery key and password reset: `recovery.service.ts` setup/begin, routes `/recovery/*`, `server/public/app/app.js` 150-292 | recovery verifier and wrapped key; auth hash; every row re-encrypted | setup, begin, complete, rotate | one PUT per row, each may fail; nobody keeps the old key | every row opens under a key somebody still has; an interrupted recovery can be finished | partly: `RecoveryFlow` (web client; the Dart client is the same protocol) |
| Devices, guard, tokens: `server/src/devices/`, `server/src/auth/guard.ts`, `token.service.ts` | device records; tokens are signed, not stored | enroll, approve, authenticate | two first enrolments; approvals under way | trust is rooted in one bootstrap | modelled but for token expiry: `TrustContract`, `DeviceTrust` |
| Device assertions: `server/src/auth/webauthn.service.ts` | one challenge per device, in memory | createChallenge, verifyAssertion | two assertions of one challenge around an await; restart | one session per challenge | modelled in `DeviceTrust` |
| Passkeys: `server/src/auth/passkey.service.ts` | challenges, credentials with signature counters | register, assert | counter read, compared, written around awaits | counter never goes back; clones refused; challenge single use | modelled: `SecondFactors` |
| MFA: `server/src/mfa/` | TOTP secret, confirmed flag | start, confirm, verify | confirm reads, then writes; the secret is shown late, in one page only; window of codes | only a fault or leaving that page leaves an account without a second factor | modelled: `SecondFactors` |
| Accounts: `server/src/auth/account.service.ts` | auth hash, KDF parameters | register, login, resetVerifier | a hash in a thread before the first repository call; registration is several writes | one account per email, which can log in | modelled: `SecondFactors`; resetVerifier in `RecoveryFlow` |
| HTTP routes: `server/src/main.ts` | none | one handler per route | which calls a route makes, in which order | as the services | partly: inside the modules of the services |
| JSON file store `server/src/store/filedb.ts` | one JSON file, whole database in memory | save after each change | a crash while writing; what an unreadable file is taken for | nothing acknowledged is lost | partly: repositories and scheduling; not half-written files |
| Postgres adapters `server/src/prisma/adapters.ts` | tables | one statement per call | every call is a round trip | as the services above | partly: one statement a step, unique keys |
| Browser extension: `extension/src/` | session with expiry, saved device id | unlock, touch, lock, status, autofill | touch reads, awaits, writes; a lock in between; the worker is stopped | a session that ended stays ended; pages get what the rules say | modelled: `ExtensionSession`, `Autofill` |
| Desktop shell: `desktop/src/electron/`, biometric, auth client | session, appCore, activeContext; the wrapped key; the salt file; the view | IPC handlers | handlers interleave over three globals; the first unlock makes the salt file across awaits; the open vault may change between awaits | a key stays with its salt; nothing stays open behind the lock screen | partly: `DesktopShell` (no reload of the renderer) |
| Mobile shell: `mobile/lib/main.dart`, pairing | pending sign-in, device store | sign in, pair, approve, biometric unlock | unawaited sync; polling for approval | pairing ends in an approved device | not modelled (lock and the controller are in `VaultSync`) |
| Web client: `server/public/app/` | rows decrypted in the page | register, sign in, saveItem, deleteItem, kits, recovery | answers out of order; pages closed | as the server sees it | partly: in the modules of the server |
| Breach range service, vault health | cache of upstream answers | range query | a failed query is cached | pure functions otherwise | not modelled |
| Cryptography: `crypto/src/`, `shared/src/` | none | pure | | assumed: a ciphertext opens under its key only, a signature verifies under its key only | not modelled |

Screens, styles, the marketing site and build files hold no state of the system.

How they interact: clients call the server over HTTP; a handler of `main.ts`
calls one service; a service calls a repository, each call an `await`. Services
share nothing but the repositories. On a client, the shell (Electron IPC,
Flutter widgets, extension messages) calls one controller, whose own awaits let
other calls in.

### Scheduling: what may happen between two awaits

`buildRepositories` (`server/src/main.ts` 52-83) picks the storage, and every
server module has it as the constant `Storage`.

* `"file"`: the methods of `FileDb` are synchronous inside async functions, so
  their awaits only yield microtasks, and Node drains these before it serves the
  next socket event. From its first repository call to its return a handler is
  not interleaved with another one. The process may still end in between. (Two
  requests pipelined on one connection would be an exception; no client does it.)
* `"postgres"`: each repository call is a round trip and any other handler may
  run meanwhile. No adapter compares or locks, and no transaction spans two calls.

## 2. The modules

| Module | What it is |
|---|---|
| `VersionedStore` | abstract: a compare-and-swap register per item; an accepted write replaces the row its author saw |
| `VaultServer` | `VaultService` over either storage; refines `VersionedStore` |
| `VaultSync` | extends `VaultServer`: the devices, their files and sync(), await by await |
| `EmergencyContract` | abstract: the state diagram in the header of `recovery.service.ts` |
| `EmergencyAccess` | the handlers of emergency contacts, the clock, the notifier; refines `EmergencyContract` |
| `TrustContract` | abstract: the trust rule in the header of `device.service.ts` |
| `DeviceTrust` | enrolment, approval, device assertion and guard; refines `TrustContract` |
| `SecondFactors` | registration, TOTP and passkeys: three services over accounts that interleave |
| `RecoveryFlow` | composition of the web client's kit and recovery with the server's recovery record, account and rows |
| `ExtensionSession` | the extension's service worker, its two storages and the browser around it |
| `Autofill` | pure: classification, phishing guard, choice and plan of the extension, and what a page should get |
| `DesktopShell` | the IPC handlers of the Electron main process and the buttons that call them |
| `...Proofs` | theorems and proofs about the module they are named after |
| `MC...` | instances for TLC: symmetry and a view |

Definitions whose names begin with `Bad` are plausible bugs. Nothing in a
specification uses them: each stands in for the definition after it when one
wants to see that a property notices.

### VaultServer

`row[i]` is the stored item. Version 0 stands for `null` (no client sends 0:
versions start at 1 and the clients map a missing version to `null`). A blob is
the identity of a content. `handler[h]` is a push in flight: `ReadRow` runs from
`repo.get` to the decision of `resolvePush`, `WriteRow` is `repo.put` (an upsert
that compares nothing), `Answer` frees the slot. A client names a base it has
seen in a pull or an answer (`Seen`), however old. `Delete` is the route's single
statement. `Restart` drops every request. `log` is a history of all rows ever
stored. The `since` filter of `listSince` is left out because no client sends it.

`Deletable` is the set of items the web client may delete, `Kept` the others.
Deletion forgets the version with the row, so what the service says about versions
holds of `Kept` only (see "What the runs say"); of the others it holds that only
a create makes a row where there is none (`NoResurrection`).

### VaultSync

One slot per device: a device has one sync() under way (the Electron handler and
the mobile screen normally start one).
`mem[d][i]` joins `items` and `meta`, `disk[d][i]` is what the file holds. `SyncStart`,
`SkipClean`, `PushDirty`, `PushOk`, `PushConflict`, `Pull` and `Merge` are the
stretches of sync() between awaits; `Add`, `Update`, `Lock`, `Unlock` are calls
that fall in between.

`persist()` takes a snapshot and awaits the encryption (on mobile) and `writeFile`. `Persist`
is the snapshot, part of the action that calls it; `save[d][w]` is the write that is under
way, and `WriteFile` lets it land, later and in any order. `writeFile` truncates before it
writes, so until it lands whoever reads the file finds what it held or nothing (`Found`): an
unlock, or the next start after the process died (`Quit`). A write that truncated the file
before another landed may leave the end of the longer one behind it (`torn`: nothing decrypts
it). `overlapped` remembers that the last write was asked for while another was under way.
A disk that refuses writes is left out, and so is what the mobile lock does to a write that is
still being encrypted (it zeroes the key in place).

* An add during the push loop is visited by the loop (the desktop iterates the
  live `Map`). The mobile loop runs over a copy and would visit it at the next
  sync; that order is also a behaviour of the model (the add comes after the loop).
* A refused push (401, 403) is not distinguished by `HttpTransport.push`; it
  reads as a conflict without a server copy, changes nothing, and the pull that
  follows throws. Its effect is that of `PushFail`.
* Locking drops the `VaultApp`, so a sync under way throws at its next use of
  the key. The request it sent is still served (`Orphan` ends it).
* `EditDuringSync` says whether `update` is called while sync() awaits. The
  controllers allow it and their tests call `update`; today's screens only add.

### EmergencyAccess

`rec[c]` is the stored record (unlockAt 0 stands for `null`). A handler reads and
decides (`RequestAccess`, `Deny`, `Collect`), writes its copy back
(`UpdateContact`, an update by id), then notifies and returns (`Notify`). `genuine` is the
result of the signature check, or of the owner's ownership check for `deny`.
`now` ticks at any time, also inside a handler. `asked`, `told`, `unheard`, `refused`
and `given` are histories; `unheard` keeps the notifications that a crash between
storing and telling swallowed (`Unsent`). A re-enrolled contact is a new record id.

In the contract `Request` may go straight to releasable: the waiting period may
be zero or pass while the handler runs. A denial is still possible after
the timer has elapsed, until the key is collected, as in the code.

### DeviceTrust

`dev[d]` is the record. `held` says whose client received the answer of its
enrolment: the clients save the id and private key only then, so a lost answer
loses the key. `ListDevices` and `CreateDevice` are enroll; `ReadApprover`,
`ReadTarget` and `SetApproved` are approve; `ConsumeChallenge` and `OpenSession`
are `verifyAssertion` before and after its await; `VerifyToken` and `Guard` are
`authenticate` before and after its own. A request that is refused has no
effect and is no step. Tokens are signed and not stored, and a client can get one
for any device id with the password and a second factor, so they are no state;
their expiry, like that of a challenge, is a refusal that may always happen.

### SecondFactors

`account[u]`, `mfa[u]` and `passkey[c]` are the stored records, `challenge[k]` is
the map of `PasskeyService`, which a restart empties. A registration enters its
slot while its verifier is being hashed (`HashVerifier`), the one place where
handlers overlap over the file store too; `CreateAccount`, `StartMfa` and the client's
`EnrollBrowser` are its three writes. The secret and `pendingUserId` are variables of the page
(`app.js` 8-12, 80-94): `LeavePage` is its reload, its end, or a click on another tab, which
hides the pane of the secret with no way back (`switchAuth`), at any moment of the
registration. Whoever has scanned the secret before may still have its codes. `ConfirmCode` and `UpsertMfa` are
`mfa.confirm` before and after its await. `BeginCeremony` consumes the challenge;
`LookupNew` and `StorePasskey`, `CheckCounter` and `StoreCounter` are the two
ceremonies after it. `used` and `accepted` count what was let through. The
server is started with any storage in `Storages`, so that one run has both. Two
creates of one credential over Postgres end the process, as the unhandled
rejection of a unique key does (`StorePasskey`).

A code is told apart by the secret that made it and by its distance in steps from
the clock of the server (`Codes`): `VerifyTOTP` is the window. The HOTP truncation is
cryptography.

### RecoveryFlow

One account, whose salt never changes, so a key is named by its password: `row[i]` is
the password whose key encrypts item `i`, `kit` the recovery record with the
key it wraps. `tab[b]` is the page of browser `b` and the step it awaits. A
request of a page is one step, since nothing on the server reads what another
one is writing. `Stop` closes a page anywhere, an answer may be lost after its
request was served, and a PUT of the loop may fail and be ignored, as in the code.
`Reencrypt` pushes on the listed version: a row somebody changed meanwhile is refused.

### ExtensionSession and Autofill

`task[t]` is a message the worker serves, at the await it stands at; `stored` is
`chrome.storage.session`, told apart by the unlock that wrote it, and `handle` the
saved device id in `chrome.storage.local`. `TouchRead` and `TouchSet` are
`touch()` around its await, `ReadStatus` and `ClearExpired` an expired session
found and cleared. `WorkerStops` drops the messages, `BrowserCloses` the session
too. `InFlight` allows an approval between the enrolment of a device and its
first pull.

`ExtensionSession` extends `Autofill`, which is state-free. `PlanFill(AnalyzeForm(form), ...)` follows the code
(walking back from the first password); `FormsFilled` says directly which fields
get what, over all forms of up to four of seven kinds of field, three hosts and two
protocols.

### DesktopShell

`session`, `appCore` and `context` are the three globals of `electron/main.ts`;
`object[a]` is a `VaultApp`, so that a handler may keep one that `appCore` no longer
names. A key is the salt and the password it was derived from; `file[v]` is
the key under which the blob of vault `v` is encrypted, `token` the wrapped key behind the
biometrics. `UnlockLocal`, `ReadSalt`, `CreateSalt`, `WriteSalt`, `HaveSalt`, `SignIn`,
`Authenticated`, `HaveDirectory`, `Derived`, `Sync` and the biometric actions are the stretches of
the handlers between their awaits; `view` is the screen and decides which buttons
there are. A salt is told apart by its vault and, for the local vault, by what
`generateSalt` made; `saltFile` is the file that the first unlock creates, empty
(`EmptySalt`) between the truncation and the writing. An empty salt is read like any other,
and Argon2id throws on it. The write of the blob is one step here (its overlaps are in
`VaultSync`), and a reload of the renderer's window, which shows the lock screen again
without a call of `vault:lock`, is left out: `LockScreenHolds` says nothing of it. `Fresh` picks an object nothing refers to: what the garbage collector does.

## 3. The runs

| Run | Shows | Bounds |
|---|---|---|
| `VaultServer_file` | pushes are compare-and-swaps (`KeepsPromise`, `NoSilentClobber`), a version names one content, a deleted item is not brought back by an edit | 2 items, one deletable, 3 handlers, 4 contents |
| `VaultServer_clobber` (violation) | over Postgres two pushes on one version are both accepted | 1 item, 2 handlers, 3 contents |
| `VaultSync_devices` | a clean entry is what the server stored under its version; a dirty one is in the file or in the one write under way, unless writes overlap | 2 devices, 2 items, one deletable, 2 contents, 2 writes of a file at a time, 1 fault |
| `VaultSync_converge` | a dirty entry yields only to a conflict; no device falls back to an older version; every sync ends; the devices converge | 2 devices, 1 item, 3 contents, 1 write of a file at a time, 1 fault |
| `Emergency_file` | the diagram is implemented (a denial is final); key never early; timer fixed; no key after a confirmed denial, nor before the owner has heard of the request and of the release, unless the process ended just before telling; a contact who waited and keeps collecting gets the key unless denied | 2 contacts, 2 handlers, wait 1 of 2 ticks, 1 crash |
| `DeviceTrust_file` | enrolment and approval implement the trust rule; trust is rooted; one session per challenge | 3 devices, 2 handlers, 2 challenges, 1 restart |
| `SecondFactors_both` | one account per email; only a fault or leaving the page strands one; a challenge lets one ceremony through; over the file store clones are refused and counters never go back | both storages, 2 accounts, 1 email, 1 credential, 2 handlers, counters to 2, 3 challenges, 1 fault |
| `RecoveryFlow_kit` | every row stays readable with the password or the kit, but for failures the code ignores; an unfinished recovery can be finished | 2 browsers, 2 items, 2 passwords, 2 faults |
| `RecoveryFlow_rows` (violation) | an ignored failure of one PUT leaves its row under a key nobody has | 1 browser, 1 item, 2 passwords, 1 fault |
| `ExtensionSession_lock` | credentials only under an approved, saved device; a session that ended is not read again; pages are filled by the rules | 2 messages, 2 devices, 2 sessions, 3 ticks |
| `ExtensionSession_approval` (violation) | the device the person approved was never saved, so the next unlock enrols another one | 1 message, 2 devices |
| `DesktopShell_keys` | a key stays with its salt, the local vault under the salt in its file; nothing is open behind the lock screen | 1 account and the local vault, 2 calls in flight, 2 passwords, 2 salts generated, any number of restarts |

Why the bounds are enough to be interesting. Items do not interact in the
server, so a kept item and a deleted one with three handlers have every race of a
push (two writers and a reader); two items matter in sync(), whose loop
visits one while another waits, and a write of one is under way when the other is edited.
Three contents allow an edit over an edit while a
third waits. Two writes of a file are one and the one that overtakes it. Two contacts, because timers of several contacts elapse in one tick. Three
devices, because a circle of attestations that is not rooted needs two besides
the bootstrap. Two accounts with one email are two registrations that meet;
three challenges are one to create a credential and two assertions of it that
race, and counters to 2 have a first use, a later one and one that goes back. Two browsers are the
one that recovers and the one it overtakes; four names of kits are one more than two pages and
the record can hold. Two sessions are one that ends and the one after it, two messages are
one that found the old session and one that opens the new; three ticks expire both. Four objects
are one more than two handlers and `appCore` can hold; two salts are those of two first
unlocks that race (who would generate a third just waits). One fault per run
already splits every pair of steps; where two are allowed, an answer can be lost and
the retry crash. In `VaultSync` a write that is asked for while another is under way counts as
a fault, too, since it costs as many states; what a larger bound would add is in the theorems.
`MaxBlobs`, `MaxFaults`, `MaxTime`, `MaxCrashes`,
`MaxRestarts`, `MaxChallenges`, `MaxCount`, `MaxDevices`, `MaxSessions` and
`MaxPasswords` are such bounds and appear only in guards and ranges; `Writes` and `Salts`
are sets of names that bound in the same way.

Slots, and users, devices or accounts where nothing is temporal, are symmetric;
the liveness runs use no symmetry. Two promises are not among a run's properties
because another one implies them: `VersionsIncrease` (by `KeepsPromise`) and
`DenialPermanent` (by `KeepsContract`); both are proved all the same. `DesktopShell_keys` has a view that hides what
makes no difference any more: what objects hold that nothing refers to, what was generated once
there is a salt file, and whether two first unlocks raced once the session changed under a
call (`KeysFit` then asks nothing of the salts).

Properties with a fairness assumption:

* `SyncEnds`, `Convergence` (`FairSyncSpec`): the steps of sync() and of the
  server run on, since Node's and Dart's event loops resume whatever awaited something that is
  done, a write of a file lands, and the user keeps pressing Sync on an unlocked device. Edits,
  locks and faults owe nothing; they are bounded, so they end. The premise of
  convergence is exactly that.
* `Served` (`FairSpec` of `EmergencyAccess`): handlers run on, the clock
  advances, and the contact keeps collecting. The latter is strong fairness because a slot
  of the model may be busy whenever the contact calls, while the server's slots
  are not really limited.
* `RecoveryEnds` (`FairSpec` of `RecoveryFlow`): a page goes on by itself from one
  request to the next (weak fairness of `Step`). That a person who still misses
  rows recovers again in an approved browser is assumed (strong fairness of
  `Resumes`: the attempt is disabled while another page recovers, and comes back).

Assumptions about people, in `RecoveryFlow`: one recovery at a time; and,
because `Interrupts = {}`, an interrupted recovery is repeated with the password it
had set, a browser is not approved between the listing of the rows and the
rotation, and nobody recovers while another page is about to store a first kit.
With any one of the three allowed (`"password"`, `"approval"`, `"offer"`),
`RowsReachable` fails: rows already re-encrypted are under a password that
neither the account nor the kit has; the rows of a refused listing are skipped
and the kit is rotated all the same; the late kit wraps the retired key.

Exceptions written into properties, each a real behaviour: `unheard` in
`OwnerToldFirst`, `left` in
`RowsReachable` (a PUT that failed and was ignored, or a page still open under a
retired key), `raced` in `EndedStaysEnded` (a touch that had found the
session alive before it ended writes it back; the lock is undone, as the
code allows between the two awaits), `mixed` in `KeysFit` (the session is opened
or closed while `buildApp` is between its two reads of it: the blob of one vault
may then be under the salt of another), `raced` in `KeysFit` (two first unlocks each generated
a salt), `overlapped` in `EditsReachDisk` (the last write of a file was started while another
was under way, and either may be the one that lasts), leaving the page in
`StrandedByFaultOrLeaving`, and the calls in flight in `LockScreenHolds`.

What these exceptions, and the constants of the runs, keep a property from showing:
`EndedStaysEnded` does not catch the write-back it excuses, nor that an expired session's
`clear` may take a new session with it; `RowsReachable` does not catch the three
`Interrupts`; `CleanIsStored` does not catch an update during a sync; `KeysFit` does not catch
the session that changes under `buildApp`; `TrustIsRooted` takes every device that was created
approved for a root, so that only `KeepsTrust` shows that there is one.

What the runs say about the code, beyond the promised properties:

* Over Postgres, `push` is not a compare-and-swap (`VaultServer_clobber`). The
  same read-then-write lets a deletion in between be undone by the upsert
  (`NoResurrection` fails with `Storage = "postgres"`), puts two contents under
  one version (`Convergence` fails), lets a slow push put a row back to an older version, which
  a device in conflict then adopts (`NeverFallsBack` fails, with five contents), and lets two first enrolments both be approved
  (`KeepsTrust` fails); `TimerFixed`, `NoKeyAfterDenial` and `DenialPermanent`
  fail because a slow duplicate of a request writes back the record it read; two
  assertions racing around the counter set it back, and a clone passes (`CounterGrows`
  and `NoCountTwice` fail).
* Deletion leaves no tombstone: an item deleted from the web stays on the devices
  that have it, and a create that is repeated after its answer was lost and the
  item was deleted starts again at version 1. For deletable items
  `VersionsIncrease`, `VersionNamesOneContent` and `Convergence` therefore
  fail. With deletions a conflict without a server copy leaves the entry
  dirty, and a later pull of a re-created item may replace it.
* With `EditDuringSync = TRUE`, an edit made while sync() awaits its push is
  marked clean and never pushed (`CleanIsStored` fails), and one made while
  the pull is under way yields to a newer row (`DirtyYieldsToConflictOnly` fails). The controllers allow it;
  the screens of today only add while a sync runs.
* A pending emergency request returns before the notifier when it is repeated, so after
  a crash between storing and notifying the owner is never told of it, and the
  key leaves all the same. `OwnerToldFirst` says that there is no other way.
* `writeFile` truncates before it writes: a process that dies in between leaves an empty
  file, which the next start takes for a first run. With an add during the last write of a
  sync (the screens allow it), the older snapshot may land last, so that the added item is
  in memory only until the next persist, or the file may be torn. `EditsReachDisk` says that
  nothing else keeps an edit from the file.
* The first unlock of the local vault creates the salt file across three awaits. Cut off
  between truncation and writing it leaves an empty file, which every later unlock reads as
  the salt and fails on. Two first unlocks at once (the button stays enabled) may each
  generate a salt, and the blob may be left under the one that the file lost.
* A reload of the page that shows the TOTP secret, or a click on another of its tabs, leaves
  the account unconfirmed for ever: `mfa.start` is never called again, and the email is taken.
* A sign-in on the desktop that fails drops whatever session and app another
  handler had opened meanwhile (`SignInFails`). After a password reset from the web the
  blob on disk is under the old key and every sign-in fails (`Derived`).

## 4. The proofs

Eight modules hold proofs, one for each component, checked to the last leaf, for every
value of the constants, from the assumptions stated beside them (sets not empty,
bounds in `Nat`, `Storage` one of two, more names of kits and objects than can be
in use).

**VaultServer** (`TypeCorrect` for both storages; the rest for the file
store, whatever is deleted). The safety properties are not inductive: that a write is over
the row its author saw depends on what the handler read. `Consistent` adds
(1) a handler about to write still holds the row as it is and there is only one
such handler, (2) rows, and the bases pushes name, come from the log, (3) for an item in `Kept`,
nothing in the log is newer than the row. From (1) the version found is the base's version, from
(2), (3) and "a version names one content" the found row *is* the base
(`WriterSawTheRow`). That gives `NoClobber`, `VersionsGoUp`,
`OneContentPerVersion` and the refinement `ServerKeepsPromise`; `NothingResurrected`
needs (1) only.

**VaultSync**, over the proofs of `VaultServer`. For both storages `EditsArriveOnDisk`
needs `Durable`: a device whose last write did not overlap has one write under way at most,
and every marked entry in memory is in that write, or in the file if there is none.
`CleanIsStoredThere` needs that nobody edits
while a sync awaits: `Backed` says that every clean entry, in memory, in the file or in a write
under way (in whatever order they land), is in the server's log, that a push a device awaits carries the entry it still has
(nothing changes an awaited entry), that the answer it may get is in the log, and that a
locked device has no sync under way.

The other theorems are about the composition, and about items in `Kept`. `Traced`, for
both storages and with edits during a sync, says that every version a device holds,
sends, awaits or has pulled is in the log. A submit of a device therefore names a base
the server may have been sent, and that is all the proofs of the server ask of
a step: `Serves` (in `VaultServerProofs`) is the server's own step, a submit of a *logged*
base, or a loss of requests, and its invariant, its refinement and its action
properties are proved of `Serves` once. `SyncServes` shows that every step of the composed
system is one. Over the file store this gives `SyncConsistent`, `NoDeviceClobbers` and the
refinement `SyncKeepsPromise`: `VaultServer` lets clients send any base they have seen, and
the theorem says that the real devices, with their locks, faults and lost answers, stay within
that. With "the log holds nothing newer than the row" each of the four ways a device
changes an entry (edit, answer, conflict, pull) raises its version or keeps it: `DevicesNeverFallBack`, of the memory of an unlocked device. With `CleanIsStored`,
`SameVersionSameContent`: two devices on one version that have nothing to push hold one
content (what `Convergence` relies on).

`EditsYieldToConflictsOnly` (both storages, no edits while a sync awaits) is about the
order within one sync: the pull overwrites newer rows without looking at the dirty
mark. `Visited` says that a marked entry of a kept item is still ahead of the push loop or
is the one awaited (a conflict without a copy, which would leave it marked, cannot
happen to a kept item), and that when the pull is merged it has no row for a marked
entry: that is an item added meanwhile.

**EmergencyAccess.** `KeyNeverEarly` holds for both storages, every
interleaving, crash and waiting period: `OnTimeInvariant` says that each
record, and each copy a handler carries, that is pending or released has a deadline at
least `Wait` after a genuine request, so it does not matter whose copy is
written last. The others need the file store, where
`SettledInvariant` says that a handler about to write still finds the record it
read: `DenialIsPermanent`, `TimerIsFixed`, `DenialKeepsKey` and the refinement
`ContractKept`. `OwnerIsToldFirst` is inductive with `Announced` only: a pending or released
record has been told of, or its notification died with the process, or the request that stored
it is about to tell; and no release is under way before the request has been heard. The
step that needs the file store is the reading of the record: nobody is about to tell
then, so what is stored has been heard.

**DeviceTrust.** For both storages: `TrustRooted` says that no set of approved or
served devices vouches only for itself. It is stated over all sets, so that no recursion is
needed, and is strengthened in `Rooted` by what requests have found and nobody takes back (an
approver stays approved, an id being created is nobody's yet). The one step that matters,
an attestation (`AttestationRoots`), uses that an unapproved device has vouched for
nobody. `SomeoneIsTrusted` comes from the same invariant. `OneSession` uses
`Spent`: an unused challenge is in one place and has opened nothing, one used up is carried by one
assertion. `TrustKept` (file store) adds that a request under way is
alone, so the list it read is still the list.

**SecondFactors.** For both storages: `OneAccount` (the unique email),
`OnlyFaultsOrLeavingStrand` and `ChallengesAreSingleUse`, whose invariant says that a
challenge that may still be used has let nothing through and is in no slot, and one in a
slot is in no other. For the file store `CountersInvariant` says that the handler at a
credential is alone with it, that what it is about to store is ahead of what is
stored, and that no counter ahead of the stored one was ever accepted:
`ClonesAreDetected` and `CountersGrow` follow.

**RecoveryFlow**, with `Interrupts = {}`. That a row stays readable
(`RowsStayReachable`) is not inductive: the rotation drops the old key. `Done` says that
what an approved browser has not left to do, and has not seen fail, is under the
key of the account. The listing that starts this relies on `KeysMeet`: a recovery
has the key the kit wraps, and a page that still offers a first kit can only store the
key which that recovery retires, so a late offer never brings in a third key. The three
`Interrupts` are the ways to break these two.

**ExtensionSession.** `UnlockNeedsApproval` needs that a message about to save has
pulled under an approved device and that one about to write a session has saved
(`Enrolled`). `EndedIsEnded` needs `Lively`: the session that is stored, unless it
is too old, and the one a touch is about to write back are none that ended, but for those
`raced` names.

`PlanIsRight` is about forms of every length, fields of any attributes and any
credential: `PlanFill(AnalyzeForm(form), ...)` writes the username to the fields that
hold one, the password to password fields, and nothing on a page that is not safe.
`analyzeForm` looks for the nearest candidate before the first password, a minimum and a
maximum of positions. No induction is needed for these: `WFMin`, the least element
of a well-founded order, has no operator parameter, and gives `MinIsLeast` and
`MaxIsGreatest`. `FormsAreFilled` and, for the worker, `PagesAreFilled` follow.

**DesktopShell.** `Fits` says what handlers keep across their awaits: an object
has the salt of its key, `activeContext` that of the object in `appCore` (both are always
replaced together), a call the salt of its object, and a token or wrapped key its own.
`OneVault` says the same of paths, users and files until a session changes under a
call that is building its app. `OneSalt` is about the salt file, until two first unlocks each
generate one: one call at a time is about to create or to write it, no key is under a salt of the local vault before the file holds it, and from then on
the file is not written again. From the three `KeysAlwaysFit`. `NothingOpenBehindLock` is
inductive as it stands: a call that opens a vault behind the lock screen shows it.
A fresh object (and a fresh kit) exists by counting what is in use.

**Only model-checked:** everything under fairness (`SyncEnds`,
`Convergence`, `Served`, `RecoveryEnds`), which the prover does not reach, and the three
counterexamples of the violation runs. Every other property of a run is a theorem.
Theorems with a hypothesis on a constant (`Storage = "file"`, `EditDuringSync = FALSE`,
`Interrupts = {}`) are false without it, as "What the runs say" lists.

## 5. What is not modelled, and the plan

Not modelled on purpose: cryptography (see the inventory), formatting and
transport encodings, screens and their layout, password generation and scoring,
the breach range cache (one request, one entry; its answers only colour the health
report).

Hazards the code has and no module shows:

* half-written files of the server: `writeFileSync` truncates before it writes, and the
  next start takes an unreadable database for a missing one. The models of the server keep the
  database as one value; of the clients' files, `VaultSync` and the salt file of `DesktopShell`
  have the truncation, and a disk that refuses a write is in neither;
* a reload of the desktop's window, which shows the lock screen while the vault stays open;
* `rekey` of the mobile client, and two sync() at once on one `VaultApp`;
* the mobile shell: pairing, and biometric unlock in Dart. Its controller is that of
  `VaultSync` and its routes are those of `DeviceTrust`;
* the challenge maps are never pruned but by use, so they grow with every
  abandoned sign-in; the expiry of tokens is only a refusal that may happen;
* a device id whose enrolment answer was lost stays in the list of devices for
  ever, unapproved.

Next, in this order:

1. `VaultSync`: a second sync() on one device, the mobile loop over a copy, rekey, and what
   remains of `Traced` and `Visited` then;
2. `RecoveryFlow`: what holds of the rows when an interrupted recovery is allowed
   (`Interrupts` not empty): which rows are lost, stated and proved;
3. `FileStore`: what a crash inside a write leaves, and what the next start makes
   of it, for `FileDb`;
4. the mobile shell: pairing and polling for approval.
