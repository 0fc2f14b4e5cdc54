---------------------------- MODULE DesktopShell ----------------------------
(***************************************************************************)
(* The main process of the desktop application (packages/desktop/src): the *)
(* IPC handlers of electron/main.ts that sign in, unlock, lock, sync and   *)
(* use the wrapped key behind the biometrics of the system, with the parts *)
(* of core/auth-client.ts, core/biometric.ts and core/vault-app.ts they    *)
(* call, and the buttons of renderer.js that call them.                    *)
(*                                                                         *)
(* Handlers are coroutines over the same variables of the process: between *)
(* two awaits (the server, a key derivation, the file system, a prompt)    *)
(* any other handler may run, and the buttons of the lock screen stay      *)
(* enabled meanwhile.  A vault is an account, or the local one; its blob is*)
(* told apart by the key that encrypts it, and a key by the salt and the   *)
(* password it is derived from.  The salt of an account comes from the     *)
(* server; that of the local vault from a file, which the first unlock     *)
(* makes.  What sync() does with the items, and what a write of the blob   *)
(* meets on its way, is in VaultSync: here sync() is one request, and      *)
(* persist() puts the whole blob.                                          *)
(***************************************************************************)
EXTENDS Integers, FiniteSets

CONSTANTS
    Accounts,
    Local,          \* the local vault; also "no account"
    None,           \* no session, no key, no object
    Handlers,       \* IPC calls in flight
    Objects,        \* VaultApp objects: one more than may be in use
    MaxPasswords,   \* bound: passwords an account or the local vault has had
    Salts           \* bound: what getSalt may generate

ASSUME LocalAssumption == Local \notin Accounts
ASSUME ObjectsAssumption ==
    IsFiniteSet(Objects) /\ IsFiniteSet(Handlers) /\ Cardinality(Objects) > Cardinality(Handlers) + 1
ASSUME BoundsAssumption == MaxPasswords \in Nat \ {0}

Vaults == Accounts \cup {Local}

\* The salt of an account is one; those of the local vault differ in what was generated.
\* Nothing is no salt: it is what an empty file gives.
Salt == [vault : Vaults, bytes : Salts \cup {None}]
AccountSalt(u) == [vault |-> u, bytes |-> None]
LocalSalt(bytes) == [vault |-> Local, bytes |-> bytes]
EmptySalt == LocalSalt(None)

ASSUME NoneAssumption == None \notin Objects /\ None \notin Salt

VARIABLES
    password,   \* password[u]: the server: how often u has changed its password
    device,     \* device.json: is this installation a device of an account?
    file,       \* file[v]: the key the blob of vault v is encrypted with
    token,      \* biometric.token: the wrapped key and the vault it is for
    saltFile,   \* what the salt file of the local vault holds
    generated,  \* what getSalt has generated
    session,    \* the global session: its account
    object,     \* object[a]: a VaultApp
    appCore,    \* the global appCore
    context,    \* the global activeContext
    handler,    \* handler[h]: an IPC call in flight
    view,       \* the view the renderer shows
    mixed,      \* history: did the session change while an app was being built?
    raced       \* history: did two first unlocks each generate a salt?

globals == <<session, appCore, context>>
saltVars == <<saltFile, generated, raced>>
vars == <<password, device, file, token, saltFile, generated, session, object, appCore, context, handler,
          view, mixed, raced>>

Key == [salt : Salt, password : 1..MaxPasswords]

\* A VaultApp: the salt, the file and the token it was constructed with, and its key
\* while it is unlocked.
App == [salt : Salt, path : Vaults, token : Accounts \cup {None}, key : Key \cup {None}]
Context == [salt : Salt, user : Vaults]
Wrapped == [key : Key, salt : Salt, user : Vaults]

\* What a handler has in its local variables: of buildApp its salt and transport,
\* of unlock the password, and the object or wrapped key it works on.
Call == [pc : {"idle", "net", "salt", "create", "write", "have", "mkdir", "derive", "pull",
               "enroll", "wrap", "prompt", "open", "stale"},
         online : BOOLEAN,
         salt : Salt,
         token : Accounts \cup {None},
         password : 1..MaxPasswords,
         app : Objects \cup {None},
         wrapped : Wrapped \cup {None}]
Idle == [pc |-> "idle", online |-> FALSE, salt |-> EmptySalt, token |-> None, password |-> 1,
         app |-> None, wrapped |-> None]
NoApp == [salt |-> EmptySalt, path |-> Local, token |-> None, key |-> None]

TypeOK == /\ password \in [Accounts -> 1..MaxPasswords]
          /\ device \in BOOLEAN
          /\ file \in [Vaults -> Key \cup {None}]
          /\ token \in Wrapped \cup {None}
          /\ saltFile \in Salt \cup {None}
          /\ generated \in SUBSET Salts
          /\ session \in Accounts \cup {None}
          /\ object \in [Objects -> App]
          /\ appCore \in Objects \cup {None}
          /\ context \in Context \cup {None}
          /\ handler \in [Handlers -> Call]
          /\ view \in {"lock", "vault"}
          /\ mixed \in BOOLEAN
          /\ raced \in BOOLEAN

\* The first start, with an empty directory.
Init == /\ password = [u \in Accounts |-> 1]
        /\ device = FALSE
        /\ file = [v \in Vaults |-> None]
        /\ token = None
        /\ saltFile = None /\ generated = {}
        /\ session = None /\ appCore = None /\ context = None
        /\ object = [a \in Objects |-> NoApp]
        /\ handler = [h \in Handlers |-> Idle]
        /\ view = "lock"
        /\ mixed = FALSE /\ raced = FALSE

-----------------------------------------------------------------------------
Return(h) == handler' = [handler EXCEPT ![h] = Idle]
Goto(h, call) == handler' = [handler EXCEPT ![h] = call]

\* A new object: nothing refers to it.
Fresh == CHOOSE a \in Objects : a # appCore /\ \A h \in Handlers : handler[h].app # a

\* buildApp after its last await: it reads the session again for the path and for
\* the context, and unlock() begins to derive the key.
BadUser == session
Path == IF session = None THEN Local ELSE session
ActiveContext(salt) == [salt |-> salt, user |-> Path]
BuildApp(h, salt, transport) ==
    /\ object' = [object EXCEPT ![Fresh] =
                     [salt |-> salt, path |-> Path, token |-> transport, key |-> None]]
    /\ appCore' = Fresh
    /\ context' = ActiveContext(salt)
    /\ Goto(h, [handler[h] EXCEPT !.pc = "derive", !.app = Fresh])

-----------------------------------------------------------------------------
(* vault:unlock - the local vault. *)

\* Its first step: local-only mode, and getSalt awaits the directory and the file.
UnlockLocal(h, p) ==
    /\ view = "lock"
    /\ handler[h].pc = "idle"
    /\ session' = None
    /\ Goto(h, [Idle EXCEPT !.pc = "salt", !.password = p])
    /\ UNCHANGED <<password, device, file, token, saltVars, object, appCore, context, view>>

\* getSalt: the file is read, as it is by then; if there is none a salt is generated,
\* and writeFile called.
BadMissing == saltFile \in {None, EmptySalt}    \* an empty file is none, too
Missing == saltFile = None
ReadSalt(h) ==
    /\ handler[h].pc = "salt"
    /\ \/ /\ ~Missing
          /\ Goto(h, [handler[h] EXCEPT !.pc = "have", !.salt = saltFile])
          /\ UNCHANGED <<generated, raced>>
       \/ /\ Missing
          /\ \E bytes \in Salts \ generated :
                /\ generated' = generated \cup {bytes}
                /\ Goto(h, [handler[h] EXCEPT !.pc = "create", !.salt = LocalSalt(bytes)])
          /\ raced' = (raced \/ \E g \in Handlers : handler[g].pc = "create")
    /\ UNCHANGED <<password, device, file, token, saltFile, globals, object, view>>

\* writeFile makes the file, or truncates the one that is there,
CreateSalt(h) ==
    /\ handler[h].pc = "create"
    /\ saltFile' = EmptySalt
    /\ Goto(h, [handler[h] EXCEPT !.pc = "write"])
    /\ UNCHANGED <<password, device, file, token, generated, raced, globals, object, view>>

\* and writes it.
WriteSalt(h) ==
    /\ handler[h].pc = "write"
    /\ saltFile' = handler[h].salt
    /\ Goto(h, [handler[h] EXCEPT !.pc = "have"])
    /\ UNCHANGED <<password, device, file, token, generated, raced, globals, object, view>>

\* The salt is there; a session that was opened meanwhile gives the app its token,
\* and makes it wait for the directory of the accounts.
HaveSalt(h) ==
    /\ handler[h].pc = "have"
    /\ \/ /\ session = None
          /\ BuildApp(h, handler[h].salt, None)
       \/ /\ session # None
          /\ Goto(h, [handler[h] EXCEPT !.pc = "mkdir", !.token = session])
          /\ UNCHANGED <<object, appCore, context>>
    /\ UNCHANGED <<password, device, file, token, saltVars, session, view>>

-----------------------------------------------------------------------------
(* account:login and account:loginWithDevice. *)

\* AuthClient: the one device of the installation, of whichever account, will do to ask.
SignIn(h, u) ==
    /\ view = "lock"
    /\ handler[h].pc = "idle"
    /\ device
    /\ Goto(h, [Idle EXCEPT !.pc = "net", !.online = TRUE, !.salt = AccountSalt(u)])
    /\ UNCHANGED <<password, device, file, token, saltVars, globals, object, view>>

\* What the catch of the sign-ins does, whoever opened the session and the app.
SignInFails(h) ==
    /\ session' = None /\ appCore' = None
    /\ Return(h)

\* The server refuses, or has verified the password it has for the account now:
\* activateSession sets the session, and buildApp awaits mkdir.
Authenticated(h) ==
    LET u == handler[h].salt.vault IN
    /\ handler[h].pc = "net"
    /\ \/ SignInFails(h)
       \/ /\ session' = u
          /\ Goto(h, [handler[h] EXCEPT !.pc = "mkdir", !.token = u, !.password = password[u]])
          /\ UNCHANGED appCore
    /\ UNCHANGED <<password, device, file, token, saltVars, object, context, view>>

\* The directory is there.  Without a session any more, session.userId throws, which
\* only the sign-ins catch.
HaveDirectory(h) ==
    /\ handler[h].pc = "mkdir"
    /\ \/ /\ session # None
          /\ BuildApp(h, handler[h].salt, handler[h].token)
          /\ UNCHANGED session
       \/ /\ session = None
          /\ IF handler[h].online THEN SignInFails(h) ELSE Return(h) /\ UNCHANGED <<session, appCore>>
          /\ UNCHANGED <<object, context>>
    /\ UNCHANGED <<password, device, file, token, saltVars, view>>

\* unlockWithKey: "A wrong key makes decrypt() throw"; without a blob every key opens.
Opens(v, key) == file[v] \in {None, key}

\* The key is derived (Argon2id throws without a salt), and the blob of the object read.
\* After a sign-in, sync() is called on whatever appCore is by then.
Derived(h) ==
    LET call == handler[h]
        key == [salt |-> call.salt, password |-> call.password]
        opens == call.salt # EmptySalt /\ Opens(object[call.app].path, key) IN
    /\ call.pc = "derive"
    /\ \/ /\ opens
          /\ object' = [object EXCEPT ![call.app].key = key]
          /\ Goto(h, IF call.online THEN [Idle EXCEPT !.pc = "pull", !.online = TRUE, !.app = appCore]
                     ELSE [Idle EXCEPT !.pc = "enroll"])
          /\ UNCHANGED <<session, appCore>>
       \/ /\ ~opens
          /\ IF call.online THEN SignInFails(h)
             ELSE Return(h) /\ appCore' = None /\ UNCHANGED session
          /\ UNCHANGED object
    /\ UNCHANGED <<password, device, file, token, saltVars, context, view>>

\* persist(): the blob is replaced by one under the key of the object.
Persist(a) == file' = [file EXCEPT ![object[a].path] = object[a].key]

\* sync(): offline, locked or refused by the server it throws; or it ends with
\* persist().
Syncs(a) == a # None /\ object[a].key # None /\ object[a].token # None

Sync(h) ==
    /\ handler[h].pc = "pull"
    /\ \/ UNCHANGED file
       \/ Syncs(handler[h].app) /\ Persist(handler[h].app)
    /\ view' = IF handler[h].online THEN "vault" ELSE view
    /\ Return(h)
    /\ UNCHANGED <<password, device, token, saltVars, globals, object>>

-----------------------------------------------------------------------------
(* Biometric unlock. *)

\* unlockBtn after vault:unlock: with the box checked, bio:enroll takes a copy of the
\* key of the open vault and the context, and awaits the enclave.
BioEnroll(h) ==
    /\ handler[h].pc = "enroll"
    /\ \/ /\ appCore # None /\ object[appCore].key # None /\ context # None
          /\ Goto(h, [Idle EXCEPT !.pc = "wrap",
                          !.wrapped = [key |-> object[appCore].key, salt |-> context.salt,
                                       user |-> context.user]])
          /\ UNCHANGED view
       \/ Return(h) /\ view' = "vault"
    /\ UNCHANGED <<password, device, file, token, saltVars, globals, object>>

WriteToken(h) ==
    /\ handler[h].pc = "wrap"
    /\ token' = handler[h].wrapped
    /\ view' = "vault"
    /\ Return(h)
    /\ UNCHANGED <<password, device, file, saltVars, globals, object>>

\* bio:unlock, recoverKey: the token is read, and the person prompted.
BioUnlock(h) ==
    /\ view = "lock"
    /\ handler[h].pc = "idle"
    /\ token # None
    /\ Goto(h, [Idle EXCEPT !.pc = "prompt", !.wrapped = token])
    /\ UNCHANGED <<password, device, file, token, saltVars, globals, object, view>>

\* The prompt is declined; or passed, and what was read is good, or wiped.
Prompted(h) ==
    /\ handler[h].pc = "prompt"
    /\ \/ Return(h) /\ UNCHANGED <<session, token>>
       \/ Return(h) /\ token' = None /\ UNCHANGED session
       \/ Goto(h, [handler[h] EXCEPT !.pc = "open"]) /\ session' = None /\ UNCHANGED token
    /\ UNCHANGED <<password, device, file, saltVars, object, appCore, context, view>>

\* buildAppFor and unlockWithKey; "the vault was re-keyed since enrollment" wipes the
\* token.
OpenWrapped(h) ==
    LET w == handler[h].wrapped IN
    /\ handler[h].pc = "open"
    /\ \/ /\ Opens(w.user, w.key)
          /\ object' = [object EXCEPT ![Fresh] =
                            [salt |-> w.salt, path |-> w.user, token |-> None, key |-> w.key]]
          /\ appCore' = Fresh
          /\ context' = [salt |-> w.salt, user |-> w.user]
          /\ view' = "vault"
          /\ Return(h)
          /\ UNCHANGED token
       \/ /\ ~Opens(w.user, w.key)
          /\ token' = None
          /\ Goto(h, [Idle EXCEPT !.pc = "stale"])
          /\ UNCHANGED <<object, appCore, context, view>>
    /\ UNCHANGED <<password, device, file, saltVars, session>>

\* The token is wiped: whatever vault is open by then is dropped.
Drop(h) ==
    /\ handler[h].pc = "stale"
    /\ appCore' = None
    /\ Return(h)
    /\ UNCHANGED <<password, device, file, token, saltVars, session, object, context, view>>

BioUnenroll ==
    /\ view = "vault"
    /\ token' = None
    /\ UNCHANGED <<password, device, file, saltVars, globals, object, handler, view>>

-----------------------------------------------------------------------------
(* The open vault. *)

\* vault:add, which persists.
Add ==
    /\ view = "vault"
    /\ appCore # None /\ object[appCore].key # None
    /\ Persist(appCore)
    /\ UNCHANGED <<password, device, token, saltVars, globals, object, handler, view>>

\* vault:sync, awaiting the server.
StartSync(h) ==
    /\ view = "vault"
    /\ handler[h].pc = "idle"
    /\ appCore # None /\ object[appCore].key # None
    /\ Goto(h, [Idle EXCEPT !.pc = "pull", !.app = appCore])
    /\ UNCHANGED <<password, device, file, token, saltVars, globals, object, view>>

BadLock ==
    /\ view = "vault"
    /\ view' = "lock"
    /\ UNCHANGED <<password, device, file, token, saltVars, globals, object, handler>>

\* vault:lock: the key of the open vault is wiped.  The session stays.
Lock ==
    /\ view = "vault"
    /\ object' = IF appCore = None THEN object ELSE [object EXCEPT ![appCore].key = None]
    /\ appCore' = None
    /\ view' = "lock"
    /\ UNCHANGED <<password, device, file, token, saltVars, session, context, handler>>

-----------------------------------------------------------------------------
(* Around the handlers. *)

\* account:register enrols this installation as a device of a new account.
Register ==
    /\ view = "lock"
    /\ device' = TRUE
    /\ UNCHANGED <<password, file, token, saltVars, globals, object, handler, view>>

\* The password of an account is reset from the web.
ChangePassword(u) ==
    /\ password[u] < MaxPasswords
    /\ password' = [password EXCEPT ![u] = @ + 1]
    /\ UNCHANGED <<device, file, token, saltVars, globals, object, handler, view>>

\* The application ends, at any point, and is started again.
Restart ==
    /\ session' = None /\ appCore' = None /\ context' = None
    /\ object' = [a \in Objects |-> NoApp]
    /\ handler' = [h \in Handlers |-> Idle]
    /\ view' = "lock"
    /\ UNCHANGED <<password, device, file, token, saltVars>>

\* The session is opened or closed while another call is between the two reads of it
\* in buildApp.
Mixes == /\ session' # session
         /\ \E h \in Handlers : /\ handler[h].pc \in {"salt", "create", "write", "have", "mkdir"}
                               /\ handler'[h] = handler[h]

Step == \/ \E h \in Handlers :
              \/ \E p \in 1..MaxPasswords : UnlockLocal(h, p)
              \/ \E u \in Accounts : SignIn(h, u)
              \/ ReadSalt(h) \/ CreateSalt(h) \/ WriteSalt(h)
              \/ HaveSalt(h) \/ Authenticated(h) \/ HaveDirectory(h) \/ Derived(h) \/ Sync(h)
              \/ BioEnroll(h) \/ WriteToken(h) \/ BioUnlock(h) \/ Prompted(h) \/ OpenWrapped(h)
              \/ Drop(h) \/ StartSync(h)
        \/ \E u \in Accounts : ChangePassword(u)
        \/ Register \/ Add \/ Lock \/ BioUnenroll \/ Restart

Next == Step /\ mixed' = (mixed \/ Mixes)

Spec == Init /\ [][Next]_vars

-----------------------------------------------------------------------------
\* However sign-ins overlap, fail and restart, every key is kept with the salt it was
\* derived with.  The wrapped key always is ("the salt/account it belongs to",
\* main.ts:273): appCore and activeContext are replaced by different handlers and
\* bio:enroll reads both, yet never one of each.  The blob of a vault is under a salt of
\* that vault ("switching accounts never tries to decrypt another account's blob with the
\* wrong key", main.ts:116) unless a session was opened or closed in the moment another
\* call was building its app; and that of the local vault is under the very salt that the
\* next unlock will read, wherever the first one was cut off, unless two first unlocks
\* each generated a salt.
KeysFit ==
    /\ token # None => token.key.salt = token.salt
    /\ ~mixed => \A v \in Vaults : file[v] # None => file[v].salt.vault = v
    /\ ~mixed /\ ~raced /\ file[Local] # None => file[Local].salt = saltFile

\* Behind the lock screen no vault is open, but the one a call still in flight is about
\* to show: "Wipe the key and plaintext from memory" (vault-app.ts:74) holds whatever
\* sign-ins and syncs a lock overtakes.
LockScreenHolds ==
    (view = "lock" /\ appCore # None /\ object[appCore].key # None) =>
        \E h \in Handlers : \/ handler[h].pc \in {"enroll", "wrap"}
                            \/ handler[h].pc = "pull" /\ handler[h].online
=============================================================================
