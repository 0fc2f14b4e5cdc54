------------------------- MODULE DesktopShellProofs -------------------------
(***************************************************************************)
(* Proofs about the main process of the desktop application, for any       *)
(* number of accounts and of calls in flight.  Handlers are coroutines     *)
(* over three globals, so the invariants say which of the values they keep *)
(* across an await still belong together: a key and the salt it was        *)
(* derived with always (Fits), accounts and files as long as no session    *)
(* changed under a call that was building its app (OneVault), and the salt *)
(* in the file of the local vault and the keys derived for it as long as   *)
(* only one call generated one (OneSalt).                                  *)
(***************************************************************************)
EXTENDS DesktopShell, FiniteSetTheorems, TLAPS

-----------------------------------------------------------------------------
(* Types. *)

\* One of A is neither x nor a value of f, when A has more than f's arguments and x.
LEMMA OneIsFree ==
    ASSUME NEW A, NEW B, NEW x, NEW f, f = [b \in B |-> f[b]],
           IsFiniteSet(A), IsFiniteSet(B), Cardinality(A) > Cardinality(B) + 1
    PROVE  \E a \in A : a # x /\ \A b \in B : f[b] # a
<1> DEFINE T == {f[b] : b \in B}
<1>1. f \in Surjection(B, T)
  BY DEF Surjection
<1>2. IsFiniteSet(T) /\ Cardinality(T) =< Cardinality(B)
  BY <1>1, FS_Surjection
<1> HIDE DEF T
<1>3. /\ IsFiniteSet(T \cup {x})
      /\ Cardinality(T \cup {x}) = IF x \in T THEN Cardinality(T) ELSE Cardinality(T) + 1
  BY <1>2, FS_AddElement
<1>4. Cardinality(A) \in Nat /\ Cardinality(B) \in Nat /\ Cardinality(T) \in Nat
  BY <1>2, FS_CardinalityType
<1>5. ~(A \subseteq T \cup {x})
  BY <1>2, <1>3, <1>4, FS_Subset
<1>6. PICK a \in A : a \notin T \cup {x}
  BY <1>5
<1> QED
  BY <1>6 DEF T

\* There is always an object that nothing refers to.
LEMMA FreshIsFree ==
    Fresh \in Objects /\ Fresh # None /\ Fresh # appCore /\ \A h \in Handlers : handler[h].app # Fresh
<1> DEFINE inUse == [h \in Handlers |-> handler[h].app]
<1>1. \E a \in Objects : a # appCore /\ \A h \in Handlers : inUse[h] # a
  <2>1. inUse = [h \in Handlers |-> inUse[h]]
    OBVIOUS
  <2> HIDE DEF inUse
  <2> QED
    BY <2>1, OneIsFree, ObjectsAssumption
<1>2. \E a \in Objects : a # appCore /\ \A h \in Handlers : handler[h].app # a
  BY <1>1
<1> QED
  BY <1>2, NoneAssumption DEF Fresh

LEMMA Shapes ==
    /\ Idle \in Call /\ Idle.pc = "idle" /\ Idle.app = None
    /\ 1 \in 1..MaxPasswords
    /\ NoApp \in App /\ NoApp.key = None /\ NoApp.path = NoApp.salt.vault
    /\ Accounts \subseteq Vaults /\ Local \in Vaults /\ Local \notin Accounts
    /\ EmptySalt \in Salt /\ EmptySalt.vault = Local /\ Idle.salt = EmptySalt
    /\ \A u \in Vaults : AccountSalt(u) \in Salt /\ AccountSalt(u).vault = u
    /\ \A bytes \in Salts : LocalSalt(bytes) \in Salt /\ LocalSalt(bytes).vault = Local
BY BoundsAssumption, LocalAssumption DEF Idle, Call, NoApp, App, Vaults, Salt, EmptySalt, AccountSalt, LocalSalt

\* The awaits of getSalt, and after it.
OfSalt == {"salt", "create", "write", "have"}

\* What a call needs for its next stretch: an account to ask the server for, the local
\* vault, an object, or a wrapped key; and the salt file is of the local vault.
Asks ==
    /\ \A h \in Handlers :
          /\ handler[h].pc = "net" => handler[h].salt.vault \in Accounts
          /\ handler[h].pc \in OfSalt => handler[h].salt.vault = Local
          /\ handler[h].pc = "derive" => handler[h].app \in Objects
          /\ handler[h].pc \in {"wrap", "prompt", "open"} => handler[h].wrapped \in Wrapped
    /\ saltFile # None => saltFile.vault = Local

HandlerStep(h) ==
    \/ \E p \in 1..MaxPasswords : UnlockLocal(h, p)
    \/ \E u \in Accounts : SignIn(h, u)
    \/ ReadSalt(h) \/ CreateSalt(h) \/ WriteSalt(h)
    \/ HaveSalt(h) \/ Authenticated(h) \/ HaveDirectory(h) \/ Derived(h) \/ Sync(h)
    \/ BioEnroll(h) \/ WriteToken(h) \/ BioUnlock(h) \/ Prompted(h) \/ OpenWrapped(h)
    \/ Drop(h) \/ StartSync(h)

OtherStep == \/ \E u \in Accounts : ChangePassword(u)
             \/ Register \/ Add \/ Lock \/ BioUnenroll \/ Restart

\* An app that is built: nothing knew the object before, and it has no key yet.
Builds(salt) ==
    /\ object' \in [Objects -> App]
    /\ \A a \in Objects \ {Fresh} : object'[a] = object[a]
    /\ object'[Fresh].salt = salt /\ object'[Fresh].path = Path /\ object'[Fresh].key = None
    /\ appCore' = Fresh
    /\ context' \in Context /\ context'.salt = salt /\ context'.user = Path

\* A step of getSalt, and what it leaves in the file.
Reads(h, call) ==
    /\ session' = session
    /\ handler[h].pc \in {"salt", "create", "write"}
    /\ call.pc = "create" => handler[h].pc = "salt" /\ saltFile = None
    /\ call.pc = "write" => handler[h].pc = "create" /\ saltFile' = EmptySalt
    /\ call.pc = "have" => /\ saltFile' = call.salt
                           /\ handler[h].pc = "salt" => saltFile' = saltFile
                           /\ handler[h].pc # "salt" => handler[h].pc = "write"

\* What a call takes along when it goes on.
Leads(h, call) ==
    /\ call.pc = "net" => call.salt.vault \in Accounts
    /\ call.pc = "salt" => call.salt = EmptySalt /\ session' = None
    /\ call.pc \in {"create", "write", "have"} => call.salt.vault = Local /\ Reads(h, call)
    /\ call.pc = "mkdir" => \/ call.salt.vault \in Accounts /\ session' = call.salt.vault
                            \/ /\ handler[h].pc = "have" /\ session # None
                               /\ call.salt = handler[h].salt
    /\ call.pc = "derive" => /\ call.app = Fresh /\ call.salt = handler[h].salt
                             /\ Builds(call.salt)
                             /\ \/ handler[h].pc = "have" /\ session = None
                                \/ handler[h].pc = "mkdir" /\ session # None
    /\ call.pc = "wrap" => /\ appCore # None /\ object[appCore].key # None /\ context # None
                           /\ call.wrapped \in Wrapped
                           /\ call.wrapped.key = object[appCore].key
                           /\ call.wrapped.salt = context.salt /\ call.wrapped.user = context.user
    /\ call.pc = "prompt" => call.wrapped = token /\ token # None
    /\ call.pc = "open" => handler[h].pc = "prompt" /\ call.wrapped = handler[h].wrapped

LEMMA BuildAppLeads ==
    ASSUME TypeOK, NEW h \in Handlers, NEW transport \in Accounts \cup {None},
           BuildApp(h, handler[h].salt, transport),
           \/ handler[h].pc = "have" /\ session = None
           \/ handler[h].pc = "mkdir" /\ session # None
    PROVE  Builds(handler[h].salt) /\ \E call \in Call : Goto(h, call) /\ Leads(h, call)
<1> DEFINE salt == handler[h].salt
           app == [salt |-> salt, path |-> Path, token |-> transport, key |-> None]
           ctx == [salt |-> salt, user |-> Path]
           call == [handler[h] EXCEPT !.pc = "derive", !.app = Fresh]
<1>1. Path \in Vaults /\ salt \in Salt
  BY Shapes DEF TypeOK, Path, Call
<1>2. app \in App /\ ctx \in Context
  BY <1>1 DEF App, Context
<1>3. call \in Call /\ call.pc = "derive" /\ call.app = Fresh /\ call.salt = salt
  BY FreshIsFree DEF TypeOK, Call
<1>4. object' = [object EXCEPT ![Fresh] = app] /\ appCore' = Fresh /\ context' = ctx /\ Goto(h, call)
  BY DEF BuildApp, ActiveContext
<1>5. app.salt = salt /\ app.path = Path /\ app.key = None /\ ctx.salt = salt /\ ctx.user = Path
  OBVIOUS
<1> HIDE DEF app, ctx, call
<1>6. Builds(salt)
  BY <1>2, <1>4, <1>5, FreshIsFree DEF TypeOK, Builds
<1>7. Leads(h, call)
  BY <1>3, <1>6 DEF Leads
<1> QED
  BY <1>3, <1>4, <1>6, <1>7

LEMMA ReadSaltLeads ==
    ASSUME TypeOK, Asks, NEW h \in Handlers, ReadSalt(h)
    PROVE  \E call \in Call : Goto(h, call) /\ Leads(h, call)
<1>0. handler[h] \in Call /\ handler[h].pc = "salt" /\ UNCHANGED <<session, saltFile>>
  BY DEF TypeOK, ReadSalt, globals
<1>1. CASE ~Missing
  <2> DEFINE call == [handler[h] EXCEPT !.pc = "have", !.salt = saltFile]
  <2>1. saltFile \in Salt /\ saltFile.vault = Local
    BY <1>1 DEF TypeOK, Asks, Missing
  <2>2. call \in Call /\ call.pc = "have" /\ call.salt = saltFile
    BY <1>0, <2>1 DEF Call
  <2>3. Goto(h, call)
    BY <1>1 DEF ReadSalt
  <2> HIDE DEF call
  <2> QED
    BY <1>0, <2>1, <2>2, <2>3 DEF Leads, Reads
<1>2. CASE Missing
  <2>1. PICK bytes \in Salts \ generated :
           Goto(h, [handler[h] EXCEPT !.pc = "create", !.salt = LocalSalt(bytes)])
    BY <1>2 DEF ReadSalt
  <2> DEFINE call == [handler[h] EXCEPT !.pc = "create", !.salt = LocalSalt(bytes)]
  <2>2. call \in Call /\ call.pc = "create" /\ call.salt.vault = Local
    BY <1>0, Shapes DEF Call
  <2>3. Goto(h, call)
    BY <2>1
  <2> HIDE DEF call
  <2> QED
    BY <1>0, <1>2, <2>2, <2>3 DEF Leads, Reads, Missing
<1> QED
  BY <1>1, <1>2

\* What the file of the salt holds.
LEMMA SaltFileMoves ==
    ASSUME TypeOK, Asks, NEW h \in Handlers, HandlerStep(h)
    PROVE  /\ saltFile' \in Salt \cup {None} /\ (saltFile' # None => saltFile'.vault = Local)
           /\ \/ UNCHANGED saltFile
              \/ handler[h].pc = "create" /\ saltFile' = EmptySalt
              \/ handler[h].pc = "write" /\ saltFile' = handler[h].salt
<1>1. CASE CreateSalt(h)
  BY <1>1, Shapes DEF CreateSalt
<1>2. CASE WriteSalt(h)
  BY <1>2 DEF WriteSalt, TypeOK, Call, Asks, OfSalt
<1>3. CASE ~(CreateSalt(h) \/ WriteSalt(h))
  <2>1. UNCHANGED saltFile
    BY <1>3 DEF HandlerStep, UnlockLocal, SignIn, ReadSalt, HaveSalt, Authenticated, HaveDirectory, Derived, Sync,
           BioEnroll, WriteToken, BioUnlock, Prompted, OpenWrapped, Drop, StartSync, saltVars
  <2> QED
    BY <2>1 DEF TypeOK, Asks
<1> QED
  BY <1>1, <1>2, <1>3

\* Where each call goes next.
LEMMA Moves ==
    ASSUME TypeOK, Asks, NEW h \in Handlers, HandlerStep(h)
    PROVE  \E call \in Call : Goto(h, call) /\ Leads(h, call)
<1>0. handler[h] \in Call
  BY DEF TypeOK
<1>1. ASSUME Return(h) PROVE \E call \in Call : Goto(h, call) /\ Leads(h, call)
  <2>1. Goto(h, Idle)
    BY <1>1 DEF Return, Goto
  <2> QED
    BY <2>1, Shapes DEF Leads
<1>2. CASE \E p \in 1..MaxPasswords : UnlockLocal(h, p)
  <2>1. PICK p \in 1..MaxPasswords : UnlockLocal(h, p)
    BY <1>2
  <2> DEFINE call == [Idle EXCEPT !.pc = "salt", !.password = p]
  <2>2. call \in Call /\ call.pc = "salt" /\ call.salt = EmptySalt
    BY Shapes DEF Call
  <2>3. Goto(h, call) /\ session' = None
    BY <2>1 DEF UnlockLocal
  <2> HIDE DEF call
  <2> QED
    BY <2>2, <2>3 DEF Leads
<1>3. CASE \E u \in Accounts : SignIn(h, u)
  <2>1. PICK u \in Accounts : SignIn(h, u)
    BY <1>3
  <2> DEFINE call == [Idle EXCEPT !.pc = "net", !.online = TRUE, !.salt = AccountSalt(u)]
  <2>2. call \in Call /\ call.pc = "net" /\ call.salt.vault \in Accounts
    BY Shapes DEF Call
  <2>3. Goto(h, call)
    BY <2>1 DEF SignIn
  <2> HIDE DEF call
  <2> QED
    BY <2>2, <2>3 DEF Leads
<1>4. CASE BioUnlock(h)
  <2> DEFINE call == [Idle EXCEPT !.pc = "prompt", !.wrapped = token]
  <2>1. call \in Call /\ call.pc = "prompt" /\ call.wrapped = token
    BY Shapes DEF TypeOK, Call
  <2>2. Goto(h, call) /\ token # None
    BY <1>4 DEF BioUnlock
  <2> HIDE DEF call
  <2> QED
    BY <2>1, <2>2 DEF Leads
<1>5. CASE StartSync(h)
  <2> DEFINE call == [Idle EXCEPT !.pc = "pull", !.app = appCore]
  <2>1. call \in Call /\ call.pc = "pull"
    BY Shapes DEF TypeOK, Call
  <2>2. Goto(h, call)
    BY <1>5 DEF StartSync
  <2> HIDE DEF call
  <2> QED
    BY <2>1, <2>2 DEF Leads
<1>6. CASE HaveSalt(h)
  <2>1. CASE session = None
    BY <1>6, <2>1, BuildAppLeads DEF HaveSalt, Asks
  <2>2. CASE session # None
    <3> DEFINE call == [handler[h] EXCEPT !.pc = "mkdir", !.token = session]
    <3>1. call \in Call /\ call.pc = "mkdir" /\ call.salt = handler[h].salt
      BY <1>0 DEF TypeOK, Call
    <3>2. Goto(h, call) /\ handler[h].pc = "have"
      BY <1>6, <2>2 DEF HaveSalt
    <3> HIDE DEF call
    <3> QED
      BY <2>2, <3>1, <3>2 DEF Leads
  <2> QED
    BY <2>1, <2>2
<1>7. CASE Authenticated(h)
  <2> DEFINE u == handler[h].salt.vault
             call == [handler[h] EXCEPT !.pc = "mkdir", !.token = u, !.password = password[u]]
  <2>1. u \in Accounts
    BY <1>7 DEF Asks, Authenticated
  <2>2. call \in Call /\ call.pc = "mkdir" /\ call.salt.vault = u
    BY <1>0, <2>1 DEF TypeOK, Call
  <2>3. Return(h) \/ (Goto(h, call) /\ session' = u)
    BY <1>7 DEF Authenticated, SignInFails
  <2> HIDE DEF call
  <2> QED
    BY <1>1, <2>1, <2>2, <2>3 DEF Leads
<1>8. CASE HaveDirectory(h)
  <2>1. CASE session # None
    <3>1. handler[h].token \in Accounts \cup {None}
      BY <1>0 DEF Call
    <3> QED
      BY <1>8, <2>1, <3>1, BuildAppLeads DEF HaveDirectory
  <2>2. CASE session = None
    BY <1>1, <1>8, <2>2 DEF HaveDirectory, SignInFails
  <2> QED
    BY <2>1, <2>2
<1>9. CASE Derived(h)
  <2> DEFINE pull == [Idle EXCEPT !.pc = "pull", !.online = TRUE, !.app = appCore]
             enroll == [Idle EXCEPT !.pc = "enroll"]
  <2>1. pull \in Call /\ pull.pc = "pull" /\ enroll \in Call /\ enroll.pc = "enroll"
    BY Shapes DEF TypeOK, Call
  <2>2. Return(h) \/ Goto(h, pull) \/ Goto(h, enroll)
    BY <1>9 DEF Derived, SignInFails
  <2> HIDE DEF pull, enroll
  <2> QED
    BY <1>1, <2>1, <2>2 DEF Leads
<1>10. CASE Sync(h) \/ WriteToken(h) \/ Drop(h)
  BY <1>1, <1>10 DEF Sync, WriteToken, Drop
<1>11. CASE BioEnroll(h)
  <2> DEFINE w == [key |-> object[appCore].key, salt |-> context.salt, user |-> context.user]
             call == [Idle EXCEPT !.pc = "wrap", !.wrapped = w]
  <2>1. \/ Return(h)
        \/ Goto(h, call) /\ appCore # None /\ object[appCore].key # None /\ context # None
    BY <1>11 DEF BioEnroll
  <2>2. CASE Goto(h, call) /\ appCore # None /\ object[appCore].key # None /\ context # None
    <3>1. w \in Wrapped
      BY <2>2 DEF TypeOK, App, Context, Wrapped
    <3>2. w.key = object[appCore].key /\ w.salt = context.salt /\ w.user = context.user
      OBVIOUS
    <3> HIDE DEF w
    <3>3. call \in Call /\ call.pc = "wrap" /\ call.wrapped = w
      BY <3>1, Shapes DEF Call
    <3> HIDE DEF call
    <3> QED
      BY <2>2, <3>1, <3>2, <3>3 DEF Leads
  <2> QED
    BY <1>1, <2>1, <2>2
<1>12. CASE Prompted(h)
  <2> DEFINE call == [handler[h] EXCEPT !.pc = "open"]
  <2>1. call \in Call /\ call.pc = "open" /\ call.wrapped = handler[h].wrapped
    BY <1>0 DEF Call
  <2>2. (Return(h) \/ Goto(h, call)) /\ handler[h].pc = "prompt"
    BY <1>12 DEF Prompted
  <2> HIDE DEF call
  <2> QED
    BY <1>1, <2>1, <2>2 DEF Leads
<1>13. CASE OpenWrapped(h)
  <2> DEFINE call == [Idle EXCEPT !.pc = "stale"]
  <2>1. call \in Call /\ call.pc = "stale"
    BY Shapes DEF Call
  <2>2. Return(h) \/ Goto(h, call)
    BY <1>13 DEF OpenWrapped
  <2> HIDE DEF call
  <2> QED
    BY <1>1, <2>1, <2>2 DEF Leads
<1>14. CASE ReadSalt(h)
  BY <1>14, ReadSaltLeads
<1>15. CASE CreateSalt(h)
  <2> DEFINE call == [handler[h] EXCEPT !.pc = "write"]
  <2>1. call \in Call /\ call.pc = "write" /\ call.salt = handler[h].salt
    BY <1>0 DEF Call
  <2>2. Goto(h, call) /\ handler[h].pc = "create" /\ saltFile' = EmptySalt /\ session' = session
    BY <1>15 DEF CreateSalt, globals
  <2> HIDE DEF call
  <2> QED
    BY <2>1, <2>2 DEF Leads, Reads, Asks, OfSalt
<1>16. CASE WriteSalt(h)
  <2> DEFINE call == [handler[h] EXCEPT !.pc = "have"]
  <2>1. call \in Call /\ call.pc = "have" /\ call.salt = handler[h].salt
    BY <1>0 DEF Call
  <2>2. Goto(h, call) /\ handler[h].pc = "write" /\ saltFile' = handler[h].salt /\ session' = session
    BY <1>16 DEF WriteSalt, globals
  <2> HIDE DEF call
  <2> QED
    BY <2>1, <2>2 DEF Leads, Reads, Asks, OfSalt
<1> QED
  BY <1>2, <1>3, <1>4, <1>5, <1>6, <1>7, <1>8, <1>9, <1>10, <1>11, <1>12, <1>13, <1>14, <1>15, <1>16
     DEF HandlerStep

LEMMA HandlerKeepsAsks ==
    ASSUME TypeOK, Asks, NEW h \in Handlers, HandlerStep(h)
    PROVE  /\ handler' \in [Handlers -> Call] /\ Asks'
           /\ Leads(h, handler'[h]) /\ \A g \in Handlers \ {h} : handler'[g] = handler[g]
<1>1. PICK call \in Call : Goto(h, call) /\ Leads(h, call)
  BY Moves
<1>2. /\ handler' \in [Handlers -> Call]
      /\ handler'[h] = call /\ \A g \in Handlers \ {h} : handler'[g] = handler[g]
  BY <1>1 DEF TypeOK, Goto
<1>3. Asks'
  <2>1. call.pc = "derive" => call.app \in Objects
    BY <1>1, FreshIsFree DEF Leads
  <2>2. call.pc \in {"wrap", "prompt", "open"} => call.wrapped \in Wrapped
    BY <1>1 DEF Leads, TypeOK, Asks
  <2>3. /\ call.pc = "net" => call.salt.vault \in Accounts
        /\ call.pc \in OfSalt => call.salt.vault = Local
    BY <1>1, Shapes DEF Leads, OfSalt
  <2>4. saltFile' # None => saltFile'.vault = Local
    BY SaltFileMoves
  <2> QED
    BY <1>2, <2>1, <2>2, <2>3, <2>4 DEF Asks
<1> QED
  BY <1>1, <1>2, <1>3

\* What a call does to the objects, and to the two globals that tell which is open.
Keeps == UNCHANGED <<object, context>> /\ appCore' \in {appCore, None}

Derives(h) ==
    /\ handler[h].pc = "derive"
    /\ UNCHANGED <<appCore, context>>
    /\ object' \in [Objects -> App]
    /\ \A a \in Objects \ {handler[h].app} : object'[a] = object[a]
    /\ LET a == handler[h].app IN
          /\ object'[a].salt = object[a].salt /\ object'[a].path = object[a].path
          /\ object'[a].key \in Key /\ object'[a].key.salt = handler[h].salt
          /\ handler[h].salt # EmptySalt
    /\ handler'[h].pc = "enroll" \/ (handler'[h].pc = "pull" /\ handler'[h].online)

Unwraps(h) ==
    LET w == handler[h].wrapped IN
    /\ handler[h].pc = "open" /\ view' = "vault"
    /\ object' \in [Objects -> App]
    /\ \A a \in Objects \ {Fresh} : object'[a] = object[a]
    /\ object'[Fresh].salt = w.salt /\ object'[Fresh].path = w.user /\ object'[Fresh].key = w.key
    /\ appCore' = Fresh
    /\ context' \in Context /\ context'.salt = w.salt /\ context'.user = w.user

LEMMA Effects ==
    ASSUME TypeOK, Asks, NEW h \in Handlers, HandlerStep(h)
    PROVE  Keeps \/ handler'[h].pc = "derive" \/ Derives(h) \/ (Unwraps(h) /\ handler'[h].pc = "idle")
<1>1. CASE \/ \E p \in 1..MaxPasswords : UnlockLocal(h, p)
           \/ \E u \in Accounts : SignIn(h, u)
           \/ ReadSalt(h) \/ CreateSalt(h) \/ WriteSalt(h)
           \/ Sync(h) \/ BioEnroll(h) \/ WriteToken(h) \/ BioUnlock(h) \/ Prompted(h)
           \/ Drop(h) \/ StartSync(h) \/ Authenticated(h)
  BY <1>1 DEF Keeps, UnlockLocal, SignIn, ReadSalt, CreateSalt, WriteSalt, Sync, BioEnroll, WriteToken, BioUnlock, Prompted, Drop, StartSync,
              Authenticated, SignInFails, globals
<1>2. CASE HaveSalt(h) \/ HaveDirectory(h)
  <2>1. Keeps \/ \E salt, transport : BuildApp(h, salt, transport)
    BY <1>2 DEF HaveSalt, HaveDirectory, SignInFails, Keeps
  <2>2. ASSUME NEW salt, NEW transport, BuildApp(h, salt, transport) PROVE handler'[h].pc = "derive"
    BY <2>2 DEF TypeOK, BuildApp, Goto, Call
  <2> QED
    BY <2>1, <2>2
<1>3. CASE Derived(h)
  <2> DEFINE call == handler[h]
             a == call.app
             key == [salt |-> call.salt, password |-> call.password]
             opens == call.salt # EmptySalt /\ Opens(object[a].path, key)
  <2>1. key \in Key /\ key.salt = call.salt
    BY DEF TypeOK, Key, Call
  <2>2. call.pc = "derive" /\ a \in Objects
    BY <1>3 DEF Derived, Asks
  <2>3. CASE opens
    <3>1. object' = [object EXCEPT ![a].key = key] /\ UNCHANGED <<appCore, context>>
      BY <1>3, <2>3 DEF Derived
    <3>2. object' \in [Objects -> App] /\ \A b \in Objects \ {a} : object'[b] = object[b]
      BY <2>1, <2>2, <3>1 DEF TypeOK, App
    <3>3. object'[a].salt = object[a].salt /\ object'[a].path = object[a].path /\ object'[a].key = key
      BY <2>2, <3>1 DEF TypeOK, App
    <3>4. handler'[h].pc = "enroll" \/ (handler'[h].pc = "pull" /\ handler'[h].online)
      <4> DEFINE pull == [Idle EXCEPT !.pc = "pull", !.online = TRUE, !.app = appCore]
                 enroll == [Idle EXCEPT !.pc = "enroll"]
      <4>1. pull.pc = "pull" /\ pull.online /\ enroll.pc = "enroll"
        BY DEF Idle
      <4>2. Goto(h, IF call.online THEN pull ELSE enroll)
        BY <1>3, <2>3 DEF Derived
      <4> HIDE DEF pull, enroll
      <4> QED
        BY <4>1, <4>2 DEF TypeOK, Goto
    <3>5. call.salt # EmptySalt
      BY <2>3
    <3> HIDE DEF key, opens
    <3> QED
      BY <2>1, <2>2, <3>1, <3>2, <3>3, <3>4, <3>5 DEF Derives
  <2>4. CASE ~opens
    BY <1>3, <2>4 DEF Derived, SignInFails, Keeps
  <2> QED
    BY <2>3, <2>4
<1>4. CASE OpenWrapped(h)
  <2> DEFINE w == handler[h].wrapped
             app == [salt |-> w.salt, path |-> w.user, token |-> None, key |-> w.key]
             ctx == [salt |-> w.salt, user |-> w.user]
  <2>1. CASE Opens(w.user, w.key)
    <3>1. /\ object' = [object EXCEPT ![Fresh] = app] /\ appCore' = Fresh /\ context' = ctx
          /\ view' = "vault" /\ Return(h) /\ handler[h].pc = "open"
      BY <1>4, <2>1 DEF OpenWrapped
    <3>2. w \in Wrapped
      BY <3>1 DEF Asks
    <3>3. app \in App /\ ctx \in Context
      BY <3>2 DEF Wrapped, App, Context
    <3>4. /\ app.salt = w.salt /\ app.path = w.user /\ app.key = w.key
          /\ ctx.salt = w.salt /\ ctx.user = w.user
      OBVIOUS
    <3> HIDE DEF app, ctx
    <3>5. Unwraps(h)
      BY <3>1, <3>3, <3>4, FreshIsFree DEF TypeOK, Unwraps
    <3> QED
      BY <3>1, <3>5, Shapes DEF TypeOK, Return
  <2>2. CASE ~Opens(w.user, w.key)
    BY <1>4, <2>2 DEF OpenWrapped, Keeps
  <2> QED
    BY <2>1, <2>2
<1> QED
  BY <1>1, <1>2, <1>3, <1>4 DEF HandlerStep

LEMMA PersistKeepsType ==
    ASSUME TypeOK, NEW a \in Objects, Persist(a)
    PROVE  file' \in [Vaults -> Key \cup {None}]
BY DEF TypeOK, App, Persist

\* A sync of an object that has a key, or of nothing.
LEMMA SyncPersists ==
    ASSUME TypeOK, NEW h \in Handlers, Sync(h)
    PROVE  \/ UNCHANGED file
           \/ \E a \in Objects : object[a].key # None /\ Persist(a)
BY DEF TypeOK, Call, Sync, Syncs

LEMMA HandlerKeepsType ==
    ASSUME TypeOK, Asks, NEW h \in Handlers, HandlerStep(h), mixed' \in BOOLEAN
    PROVE  TypeOK'
<1>0. generated' \in SUBSET Salts /\ raced' \in BOOLEAN
  <2>1. CASE ReadSalt(h)
    BY <2>1 DEF ReadSalt, TypeOK
  <2>2. CASE CreateSalt(h) \/ WriteSalt(h)
    BY <2>2 DEF CreateSalt, WriteSalt, TypeOK
  <2>3. CASE ~(ReadSalt(h) \/ CreateSalt(h) \/ WriteSalt(h))
    BY <2>3 DEF TypeOK, HandlerStep, UnlockLocal, SignIn, HaveSalt, Authenticated, HaveDirectory, Derived, Sync,
           BioEnroll, WriteToken, BioUnlock, Prompted, OpenWrapped, Drop, StartSync, saltVars
  <2> QED
    BY <2>1, <2>2, <2>3
<1>1. handler' \in [Handlers -> Call]
  BY HandlerKeepsAsks
<1>2. object' \in [Objects -> App] /\ appCore' \in Objects \cup {None} /\ context' \in Context \cup {None}
  <2>1. CASE Keeps
    BY <2>1 DEF TypeOK, Keeps
  <2>2. CASE handler'[h].pc = "derive"
    BY <2>2, HandlerKeepsAsks, FreshIsFree DEF Leads, Builds
  <2>3. CASE Derives(h)
    BY <2>3 DEF TypeOK, Derives
  <2>4. CASE Unwraps(h)
    BY <2>4, FreshIsFree DEF Unwraps
  <2> QED
    BY <2>1, <2>2, <2>3, <2>4, Effects
<1>3. password' \in [Accounts -> 1..MaxPasswords] /\ device' \in BOOLEAN
  BY DEF TypeOK, HandlerStep, UnlockLocal, SignIn, ReadSalt, CreateSalt, WriteSalt, HaveSalt, Authenticated, HaveDirectory, Derived, Sync, BioEnroll,
         WriteToken, BioUnlock, Prompted, OpenWrapped, Drop, StartSync
<1>4. file' \in [Vaults -> Key \cup {None}]
  <2>1. CASE Sync(h)
    BY <2>1, SyncPersists, PersistKeepsType DEF TypeOK
  <2>2. CASE ~Sync(h)
    BY <2>2 DEF TypeOK, HandlerStep, UnlockLocal, SignIn, ReadSalt, CreateSalt, WriteSalt, HaveSalt, Authenticated, HaveDirectory, Derived, BioEnroll,
           WriteToken, BioUnlock, Prompted, OpenWrapped, Drop, StartSync
  <2> QED
    BY <2>1, <2>2
<1>5. token' \in Wrapped \cup {None}
  BY DEF TypeOK, Asks, HandlerStep, UnlockLocal, SignIn, ReadSalt, CreateSalt, WriteSalt, HaveSalt, Authenticated, HaveDirectory, Derived, Sync, BioEnroll,
         WriteToken, BioUnlock, Prompted, OpenWrapped, Drop, StartSync
<1>6. session' \in Accounts \cup {None}
  BY DEF TypeOK, Asks, HandlerStep, UnlockLocal, SignIn, ReadSalt, CreateSalt, WriteSalt, HaveSalt, Authenticated, HaveDirectory, Derived, Sync, BioEnroll,
         WriteToken, BioUnlock, Prompted, OpenWrapped, Drop, StartSync, SignInFails, globals
<1>7. view' \in {"lock", "vault"}
  BY DEF TypeOK, HandlerStep, UnlockLocal, SignIn, ReadSalt, CreateSalt, WriteSalt, HaveSalt, Authenticated, HaveDirectory, Derived, Sync, BioEnroll,
         WriteToken, BioUnlock, Prompted, OpenWrapped, Drop, StartSync
<1> QED
  BY <1>0, <1>1, <1>2, <1>3, <1>4, <1>5, <1>6, <1>7, SaltFileMoves DEF TypeOK

\* What is open is locked or left alone; only a restart drops the calls in flight.
LEMMA OtherEffects ==
    ASSUME TypeOK, Asks, OtherStep
    PROVE  /\ object' \in [Objects -> App] /\ UNCHANGED saltVars
           /\ \/ /\ handler' = handler /\ UNCHANGED <<session, context>> /\ appCore' \in {appCore, None}
                 /\ \A a \in Objects : /\ object'[a].salt = object[a].salt /\ object'[a].path = object[a].path
                                       /\ object'[a].key \in {object[a].key, None}
              \/ /\ handler' = [h \in Handlers |-> Idle] /\ object' = [a \in Objects |-> NoApp]
                 /\ session' = None /\ appCore' = None /\ context' = None
<1>1. CASE (\E u \in Accounts : ChangePassword(u)) \/ Register \/ Add \/ BioUnenroll
  BY <1>1 DEF TypeOK, ChangePassword, Register, Add, BioUnenroll, globals
<1>2. CASE Lock
  <2>1. handler' = handler /\ UNCHANGED <<session, context>> /\ appCore' = None
    BY <1>2 DEF Lock
  <2>2. CASE appCore = None
    BY <1>2, <2>1, <2>2 DEF TypeOK, Lock
  <2>3. CASE appCore # None
    <3>1. object' = [object EXCEPT ![appCore].key = None] /\ appCore \in Objects
      BY <1>2, <2>3 DEF TypeOK, Lock
    <3>2. object[appCore] \in App /\ object'[appCore] = [object[appCore] EXCEPT !.key = None]
      BY <3>1 DEF TypeOK
    <3>3. /\ object'[appCore] \in App /\ object'[appCore].key = None
          /\ object'[appCore].salt = object[appCore].salt /\ object'[appCore].path = object[appCore].path
      BY <3>2 DEF App
    <3>4. \A a \in Objects \ {appCore} : object'[a] = object[a]
      BY <3>1 DEF TypeOK
    <3>5. object' \in [Objects -> App]
      BY <3>1, <3>3, <3>4 DEF TypeOK
    <3>6. UNCHANGED saltVars
      BY <1>2 DEF Lock
    <3> QED
      BY <2>1, <3>3, <3>4, <3>5, <3>6
  <2> QED
    BY <2>2, <2>3
<1>3. CASE Restart
  BY <1>3, Shapes DEF Restart
<1> QED
  BY <1>1, <1>2, <1>3 DEF OtherStep

LEMMA OtherKeepsType ==
    ASSUME TypeOK, Asks, OtherStep, mixed' \in BOOLEAN
    PROVE  TypeOK' /\ Asks'
<1>1. /\ handler' \in [Handlers -> Call] /\ Asks'
      /\ object' \in [Objects -> App] /\ appCore' \in Objects \cup {None} /\ context' \in Context \cup {None}
      /\ session' \in Accounts \cup {None}
  BY OtherEffects, Shapes DEF TypeOK, Asks, OfSalt, saltVars
<1>2. file' \in [Vaults -> Key \cup {None}]
  <2>1. CASE Add
    BY <2>1, PersistKeepsType DEF TypeOK, Add
  <2>2. CASE ~Add
    BY <2>2 DEF TypeOK, OtherStep, ChangePassword, Register, Lock, BioUnenroll, Restart
  <2> QED
    BY <2>1, <2>2
<1>3. password' \in [Accounts -> 1..MaxPasswords]
  <2>1. ASSUME NEW u \in Accounts, ChangePassword(u) PROVE password' \in [Accounts -> 1..MaxPasswords]
    <3>1. password[u] + 1 \in 1..MaxPasswords
      BY <2>1, BoundsAssumption DEF TypeOK, ChangePassword
    <3> QED
      BY <2>1, <3>1 DEF TypeOK, ChangePassword
  <2>2. CASE Register \/ Add \/ Lock \/ BioUnenroll \/ Restart
    BY <2>2 DEF TypeOK, Register, Add, Lock, BioUnenroll, Restart
  <2> QED
    BY <2>1, <2>2 DEF OtherStep
<1>4. device' \in BOOLEAN /\ token' \in Wrapped \cup {None} /\ view' \in {"lock", "vault"}
  BY DEF TypeOK, OtherStep, ChangePassword, Register, Add, Lock, BioUnenroll, Restart
<1>5. saltFile' \in Salt \cup {None} /\ generated' \in SUBSET Salts /\ raced' \in BOOLEAN
  BY OtherEffects DEF TypeOK, saltVars
<1> QED
  BY <1>1, <1>2, <1>3, <1>4, <1>5 DEF TypeOK

LEMMA StepCases ==
    ASSUME Next
    PROVE  (\E h \in Handlers : HandlerStep(h)) \/ OtherStep
BY DEF Next, Step, HandlerStep, OtherStep

LEMMA TypedInvariant == Spec => [](TypeOK /\ Asks)
<1>1. Init => TypeOK /\ Asks
  BY Shapes DEF Init, TypeOK, Asks, OfSalt
<1>2. TypeOK /\ Asks /\ [Next]_vars => TypeOK' /\ Asks'
  <2>1. ASSUME TypeOK, Asks, Next PROVE TypeOK' /\ Asks'
    <3>1. mixed' \in BOOLEAN
      BY <2>1 DEF Next
    <3> QED
      BY <2>1, <3>1, StepCases, HandlerKeepsType, HandlerKeepsAsks, OtherKeepsType
  <2>2. ASSUME TypeOK, Asks, UNCHANGED vars PROVE TypeOK' /\ Asks'
    BY <2>2 DEF TypeOK, Asks, vars, globals, saltVars
  <2> QED
    BY <2>1, <2>2
<1> QED
  BY <1>1, <1>2, PTL DEF Spec

\* The variables of the process, its files and its calls in flight keep their shape.
THEOREM TypeCorrect == Spec => []TypeOK
BY TypedInvariant, PTL

-----------------------------------------------------------------------------
(* Keys and salts. *)

AppsFit == \A a \in Objects : object[a].key # None => object[a].key.salt = object[a].salt
CoreFits == appCore # None => context \in Context /\ context.salt = object[appCore].salt
CallsFit == \A h \in Handlers :
    /\ handler[h].pc = "derive" => object[handler[h].app].salt = handler[h].salt
    /\ handler[h].pc \in {"wrap", "prompt", "open"} => handler[h].wrapped.key.salt = handler[h].wrapped.salt
TokenFits == token # None => token.key.salt = token.salt

\* What belongs together whatever interleaves.
Fits == AppsFit /\ CoreFits /\ CallsFit /\ TokenFits

\* The token is what a call wrapped.
LEMMA TokenMoves ==
    ASSUME NEW h \in Handlers, HandlerStep(h)
    PROVE  token' \in {token, None} \/ (handler[h].pc = "wrap" /\ token' = handler[h].wrapped)
BY DEF HandlerStep, UnlockLocal, SignIn, ReadSalt, CreateSalt, WriteSalt, HaveSalt, Authenticated, HaveDirectory, Derived, Sync, BioEnroll,
       WriteToken, BioUnlock, Prompted, OpenWrapped, Drop, StartSync

LEMMA HandlerKeepsFits ==
    ASSUME TypeOK, Asks, Fits, NEW h \in Handlers, HandlerStep(h)
    PROVE  Fits'
<1> USE DEF Fits
<1>0. /\ Leads(h, handler'[h]) /\ \A g \in Handlers \ {h} : handler'[g] = handler[g]
      /\ handler' \in [Handlers -> Call] /\ Asks'
  BY HandlerKeepsAsks
<1>1. TokenFits'
  BY TokenMoves DEF TokenFits, CallsFit
<1>2. \A g \in Handlers : handler'[g].pc \in {"wrap", "prompt", "open"} =>
         handler'[g].wrapped.key.salt = handler'[g].wrapped.salt
  <2>1. \A g \in Handlers \ {h} : handler'[g].pc \in {"wrap", "prompt", "open"} =>
           handler'[g].wrapped.key.salt = handler'[g].wrapped.salt
    BY <1>0 DEF CallsFit
  <2>2. CASE handler'[h].pc = "wrap"
    <3>1. /\ appCore \in Objects /\ object[appCore].key # None
          /\ handler'[h].wrapped.key = object[appCore].key /\ handler'[h].wrapped.salt = context.salt
      BY <1>0, <2>2 DEF Leads, TypeOK
    <3>2. appCore # None
      BY <1>0, <2>2 DEF Leads
    <3> QED
      BY <2>1, <2>2, <3>1, <3>2 DEF AppsFit, CoreFits
  <2>3. CASE handler'[h].pc = "prompt"
    BY <1>0, <2>1, <2>3 DEF Leads, TokenFits
  <2>4. CASE handler'[h].pc = "open"
    BY <1>0, <2>1, <2>4 DEF Leads, CallsFit
  <2> QED
    BY <2>1, <2>2, <2>3, <2>4
<1>3. CASE handler'[h].pc = "derive"
  <2>1. Builds(handler'[h].salt) /\ handler'[h].app = Fresh
    BY <1>0, <1>3 DEF Leads
  <2>2. AppsFit' /\ CoreFits'
    BY <2>1 DEF Builds, AppsFit, CoreFits
  <2>3. \A g \in Handlers : handler'[g].pc = "derive" => object'[handler'[g].app].salt = handler'[g].salt
    BY <1>0, <2>1, FreshIsFree DEF Builds, CallsFit, Asks
  <2> QED
    BY <1>1, <1>2, <2>2, <2>3 DEF CallsFit
<1>4. CASE Keeps /\ handler'[h].pc # "derive"
  <2>1. AppsFit' /\ CoreFits'
    BY <1>4 DEF Keeps, AppsFit, CoreFits
  <2>2. \A g \in Handlers : handler'[g].pc = "derive" => object'[handler'[g].app].salt = handler'[g].salt
    BY <1>0, <1>4 DEF Keeps, CallsFit
  <2> QED
    BY <1>1, <1>2, <2>1, <2>2 DEF CallsFit
<1>5. CASE Derives(h) /\ handler'[h].pc # "derive"
  <2>0. handler[h].app \in Objects
    BY <1>5 DEF Derives, Asks
  <2>1. \A a \in Objects : object'[a].salt = object[a].salt
    BY <1>5, <2>0 DEF Derives
  <2>2. AppsFit'
    BY <1>5, <2>0, <2>1 DEF Derives, AppsFit, CallsFit
  <2>3. CoreFits'
    BY <1>5, <2>1 DEF Derives, CoreFits, TypeOK
  <2>4. \A g \in Handlers : handler'[g].pc = "derive" => object'[handler'[g].app].salt = handler'[g].salt
    BY <1>0, <1>5, <2>1 DEF CallsFit, Asks
  <2> QED
    BY <1>1, <1>2, <2>2, <2>3, <2>4 DEF CallsFit
<1>6. CASE Unwraps(h) /\ handler'[h].pc = "idle"
  <2>1. AppsFit' /\ CoreFits'
    BY <1>6 DEF Unwraps, AppsFit, CoreFits, CallsFit
  <2>2. \A g \in Handlers : handler'[g].pc = "derive" => object'[handler'[g].app].salt = handler'[g].salt
    BY <1>0, <1>6, FreshIsFree DEF Unwraps, CallsFit, Asks
  <2> QED
    BY <1>1, <1>2, <2>1, <2>2 DEF CallsFit
<1> QED
  BY <1>3, <1>4, <1>5, <1>6, Effects

LEMMA OtherKeepsFits ==
    ASSUME TypeOK, Asks, Fits, OtherStep
    PROVE  Fits'
<1>1. TokenFits'
  BY DEF Fits, TokenFits, OtherStep, ChangePassword, Register, Add, Lock, BioUnenroll, Restart
<1>2. AppsFit' /\ CoreFits' /\ CallsFit'
  BY OtherEffects, Shapes DEF TypeOK, Asks, Fits, AppsFit, CoreFits, CallsFit
<1> QED
  BY <1>1, <1>2 DEF Fits

-----------------------------------------------------------------------------
(* Accounts and files. *)

SessionFits == \A h \in Handlers : /\ handler[h].pc \in OfSalt => session = None
                                   /\ handler[h].pc = "mkdir" => session = handler[h].salt.vault
PathsFit == \A a \in Objects : object[a].path = object[a].salt.vault
ContextFits == context # None => context.user = context.salt.vault
WrappedFit == /\ token # None => token.user = token.salt.vault
              /\ \A h \in Handlers : handler[h].pc \in {"wrap", "prompt", "open"} =>
                    handler[h].wrapped.user = handler[h].wrapped.salt.vault
FilesFit == \A v \in Vaults : file[v] # None => file[v].salt.vault = v

\* Until a session changes under a call that is building its app, everything is of
\* one account.
OneVault == ~mixed => SessionFits /\ PathsFit /\ ContextFits /\ WrappedFit /\ FilesFit

LEMMA PersistKeepsFiles ==
    ASSUME TypeOK, AppsFit, PathsFit, FilesFit, NEW a \in Objects, object[a].key # None, Persist(a)
    PROVE  FilesFit'
BY DEF TypeOK, App, AppsFit, PathsFit, FilesFit, Persist

LEMMA HandlerKeepsVault ==
    ASSUME TypeOK, Asks, Fits, NEW h \in Handlers, HandlerStep(h), ~Mixes,
           SessionFits, PathsFit, ContextFits, WrappedFit, FilesFit
    PROVE  (SessionFits /\ PathsFit /\ ContextFits /\ WrappedFit /\ FilesFit)'
<1>0. /\ Leads(h, handler'[h]) /\ \A g \in Handlers \ {h} : handler'[g] = handler[g]
      /\ handler' \in [Handlers -> Call]
  BY HandlerKeepsAsks
<1>1. SessionFits'
  <2>1. \A g \in Handlers \ {h} : handler[g].pc \in OfSalt \cup {"mkdir"} => session' = session
    BY <1>0 DEF Mixes, OfSalt
  <2>2. handler'[h].pc \in OfSalt => session' = None
    BY <1>0 DEF Leads, Reads, SessionFits, OfSalt
  <2>3. handler'[h].pc = "mkdir" => session' = handler'[h].salt.vault
    BY <1>0 DEF Leads, SessionFits, OfSalt
  <2> QED
    BY <1>0, <2>1, <2>2, <2>3 DEF SessionFits
<1>2. PathsFit' /\ ContextFits'
  <2>1. CASE handler'[h].pc = "derive"
    <3>1. Builds(handler'[h].salt) /\ handler'[h].salt = handler[h].salt
      BY <1>0, <2>1 DEF Leads
    <3>2. Path = handler[h].salt.vault
      BY <1>0, <2>1 DEF Leads, Path, SessionFits, Asks, OfSalt
    <3> QED
      BY <3>1, <3>2 DEF Builds, PathsFit, ContextFits
  <2>2. CASE Keeps
    BY <2>2 DEF Keeps, PathsFit, ContextFits
  <2>3. CASE Derives(h)
    BY <2>3 DEF Derives, PathsFit, ContextFits
  <2>4. CASE Unwraps(h)
    BY <2>4 DEF Unwraps, PathsFit, ContextFits, WrappedFit
  <2> QED
    BY <2>1, <2>2, <2>3, <2>4, Effects
<1>3. WrappedFit'
  <2>1. token' # None => token'.user = token'.salt.vault
    BY TokenMoves DEF WrappedFit
  <2>2. handler'[h].pc \in {"wrap", "prompt", "open"} => handler'[h].wrapped.user = handler'[h].wrapped.salt.vault
    BY <1>0 DEF Leads, WrappedFit, ContextFits
  <2> QED
    BY <1>0, <2>1, <2>2 DEF WrappedFit
<1>4. FilesFit'
  <2>1. CASE Sync(h)
    BY <2>1, SyncPersists, PersistKeepsFiles DEF Fits, FilesFit
  <2>2. CASE ~Sync(h)
    BY <2>2 DEF FilesFit, HandlerStep, UnlockLocal, SignIn, ReadSalt, CreateSalt, WriteSalt, HaveSalt, Authenticated, HaveDirectory, Derived, BioEnroll,
           WriteToken, BioUnlock, Prompted, OpenWrapped, Drop, StartSync
  <2> QED
    BY <2>1, <2>2
<1> QED
  BY <1>1, <1>2, <1>3, <1>4

LEMMA OtherKeepsVault ==
    ASSUME TypeOK, Asks, Fits, OtherStep,
           SessionFits, PathsFit, ContextFits, WrappedFit, FilesFit
    PROVE  (SessionFits /\ PathsFit /\ ContextFits /\ WrappedFit /\ FilesFit)'
<1>1. SessionFits' /\ PathsFit' /\ ContextFits'
  BY OtherEffects, Shapes DEF SessionFits, PathsFit, ContextFits, OfSalt
<1>2. token' \in {token, None}
  BY DEF OtherStep, ChangePassword, Register, Add, Lock, BioUnenroll, Restart
<1>3. WrappedFit'
  BY <1>2, OtherEffects, Shapes DEF WrappedFit
<1>4. FilesFit'
  <2>1. CASE Add
    BY <2>1, PersistKeepsFiles DEF TypeOK, Fits, Add
  <2>2. CASE ~Add
    BY <2>2 DEF FilesFit, OtherStep, ChangePassword, Register, Lock, BioUnenroll, Restart
  <2> QED
    BY <2>1, <2>2
<1> QED
  BY <1>1, <1>3, <1>4

-----------------------------------------------------------------------------
(* The salt of the local vault. *)

\* The salt of a key: what the file keeps, if it is of the local vault.
Stored(salt, kept) == salt # EmptySalt /\ (salt.vault = Local => salt = kept)

OneMaker == \A g, h \in Handlers : handler[g].pc \in {"create", "write"} /\ handler[h].pc \in {"create", "write"}
                                      => g = h
MakerFits == \A h \in Handlers : /\ handler[h].pc = "create" => saltFile = None
                                 /\ handler[h].pc = "write" => saltFile = EmptySalt
CallsStored == \A h \in Handlers :
    /\ handler[h].pc \in {"have", "mkdir", "derive"} => handler[h].salt = EmptySalt \/ Stored(handler[h].salt, saltFile)
    /\ handler[h].pc \in {"wrap", "prompt", "open"} => Stored(handler[h].wrapped.key.salt, saltFile)
AppsStored == \A a \in Objects : object[a].key # None => Stored(object[a].key.salt, saltFile)
TokenStored == token # None => Stored(token.key.salt, saltFile)
FilesStored == \A v \in Vaults : file[v] # None => Stored(file[v].salt, saltFile)

SaltsFit == OneMaker /\ MakerFits /\ CallsStored /\ AppsStored /\ TokenStored /\ FilesStored

\* Until two first unlocks each generate a salt, every key of the local vault is derived
\* with the one in the file, or with the empty file that is left of a first unlock; and
\* with that no key is derived.
OneSalt == ~raced => SaltsFit

\* While the salt is being made no key of the local vault is there.
LEMMA StoredStays ==
    ASSUME TypeOK, Asks, MakerFits, NEW h \in Handlers, HandlerStep(h),
           NEW salt \in Salt, Stored(salt, saltFile)
    PROVE  Stored(salt, saltFile')
<1>1. CASE UNCHANGED saltFile
  BY <1>1 DEF Stored, EmptySalt, LocalSalt
<1>2. CASE handler[h].pc \in {"create", "write"}
  <2>1. salt.vault # Local
    BY <1>2, NoneAssumption DEF MakerFits, Stored
  <2> QED
    BY <2>1 DEF Stored, EmptySalt, LocalSalt
<1> QED
  BY <1>1, <1>2, SaltFileMoves

LEMMA PersistKeepsStored ==
    ASSUME TypeOK, AppsStored, FilesStored, NEW a \in Objects, object[a].key # None, Persist(a),
           NEW v \in Vaults, file'[v] # None
    PROVE  file'[v].salt \in Salt /\ Stored(file'[v].salt, saltFile)
BY DEF TypeOK, App, Key, AppsStored, FilesStored, Persist

\* Only getSalt, finding no file while another call is about to make one.
LEMMA RacedStays ==
    ASSUME NEW h \in Handlers, HandlerStep(h), ~raced'
    PROVE  /\ ~raced
           /\ handler'[h].pc = "create" /\ handler[h].pc = "salt" /\ saltFile = None =>
                \A g \in Handlers : handler[g].pc # "create"
<1>1. CASE ReadSalt(h)
  <2>1. CASE Missing
    BY <1>1, <2>1 DEF ReadSalt
  <2>2. CASE ~Missing
    <3>1. UNCHANGED raced /\ saltFile # None
      BY <1>1, <2>2 DEF ReadSalt, Missing
    <3> QED
      BY <3>1
  <2> QED
    BY <2>1, <2>2
<1>2. CASE HaveSalt(h) \/ CreateSalt(h) \/ WriteSalt(h)
  BY <1>2 DEF HaveSalt, CreateSalt, WriteSalt, saltVars
<1>3. CASE ~(ReadSalt(h) \/ HaveSalt(h) \/ CreateSalt(h) \/ WriteSalt(h))
  <2>1. UNCHANGED raced
    BY <1>3 DEF HandlerStep, UnlockLocal, SignIn, Authenticated, HaveDirectory, Derived, Sync,
           BioEnroll, WriteToken, BioUnlock, Prompted, OpenWrapped, Drop, StartSync, saltVars
  <2>3. handler[h].pc # "salt"
    BY <1>3 DEF HandlerStep, UnlockLocal, SignIn, Authenticated, HaveDirectory, Derived, Sync,
           BioEnroll, WriteToken, BioUnlock, Prompted, OpenWrapped, Drop, StartSync
  <2> QED
    BY <2>1, <2>3
<1> QED
  BY <1>1, <1>2, <1>3

LEMMA HandlerKeepsSalts ==
    ASSUME TypeOK, Asks, Fits, SaltsFit, NEW h \in Handlers, HandlerStep(h), ~raced'
    PROVE  SaltsFit'
<1> USE DEF SaltsFit
<1>0. /\ Leads(h, handler'[h]) /\ \A g \in Handlers \ {h} : handler'[g] = handler[g]
      /\ handler' \in [Handlers -> Call]
  BY HandlerKeepsAsks
<1>1. \A salt \in Salt : Stored(salt, saltFile) => Stored(salt, saltFile')
  BY StoredStays
<1>2. None # EmptySalt
  BY Shapes, NoneAssumption
<1>3. OneMaker'
  <2>1. handler'[h].pc \in {"create", "write"} => \A g \in Handlers \ {h} : handler[g].pc \notin {"create", "write"}
    BY <1>0, <1>2, RacedStays DEF Leads, Reads, OneMaker, MakerFits
  <2> QED
    BY <1>0, <2>1 DEF OneMaker
<1>4. MakerFits'
  <2>1. ASSUME NEW g \in Handlers \ {h}, handler[g].pc \in {"create", "write"} PROVE UNCHANGED saltFile
    BY <2>1, SaltFileMoves DEF OneMaker
  <2>2. handler'[h].pc = "create" => saltFile' = None
    BY <1>0, SaltFileMoves DEF Leads, Reads
  <2>3. handler'[h].pc = "write" => saltFile' = EmptySalt
    BY <1>0 DEF Leads, Reads
  <2> QED
    BY <1>0, <2>1, <2>2, <2>3 DEF MakerFits, EmptySalt, LocalSalt
<1>5. CallsStored'
  <2>1. ASSUME NEW g \in Handlers \ {h}
        PROVE  /\ handler'[g].pc \in {"have", "mkdir", "derive"} =>
                     handler'[g].salt = EmptySalt \/ Stored(handler'[g].salt, saltFile')
               /\ handler'[g].pc \in {"wrap", "prompt", "open"} => Stored(handler'[g].wrapped.key.salt, saltFile')
    <3>1. handler[g].salt \in Salt
      BY DEF TypeOK, Call
    <3>2. handler[g].pc \in {"wrap", "prompt", "open"} => handler[g].wrapped.key.salt \in Salt
      BY DEF Asks, Wrapped, Key
    <3> QED
      BY <1>0, <1>1, <3>1, <3>2 DEF CallsStored
  <2>2. handler'[h].salt \in Salt
    BY <1>0 DEF Call
  <2>3. CASE handler'[h].pc = "have"
    <3>1. saltFile' = handler'[h].salt
      BY <1>0, <2>3 DEF Leads, Reads
    <3> QED
      BY <2>1, <2>3, <3>1 DEF CallsStored, Stored, EmptySalt, LocalSalt
  <2>4. CASE handler'[h].pc = "mkdir"
    <3>1. CASE handler'[h].salt.vault \in Accounts
      BY <2>1, <2>4, <3>1, Shapes DEF CallsStored, Stored, EmptySalt, LocalSalt
    <3>2. CASE handler[h].pc = "have" /\ handler'[h].salt = handler[h].salt
      BY <1>1, <2>1, <2>2, <2>4, <3>2 DEF CallsStored, EmptySalt, LocalSalt
    <3> QED
      BY <1>0, <2>4, <3>1, <3>2 DEF Leads
  <2>5. CASE handler'[h].pc = "derive"
    BY <1>0, <1>1, <2>1, <2>2, <2>5 DEF Leads, CallsStored, EmptySalt, LocalSalt
  <2>6. CASE handler'[h].pc \in {"wrap", "prompt", "open"}
    <3>1. Stored(handler'[h].wrapped.key.salt, saltFile)
      <4>1. CASE handler'[h].pc = "wrap"
        <5>1. appCore \in Objects /\ object[appCore].key # None /\ handler'[h].wrapped.key = object[appCore].key
          BY <1>0, <4>1 DEF Leads, TypeOK
        <5> QED
          BY <5>1 DEF AppsStored
      <4>2. CASE handler'[h].pc = "prompt"
        BY <1>0, <4>2 DEF Leads, TokenStored
      <4>3. CASE handler'[h].pc = "open"
        BY <1>0, <4>3 DEF Leads, CallsStored
      <4> QED
        BY <2>6, <4>1, <4>2, <4>3
    <3>2. handler'[h].wrapped.key.salt \in Salt
      BY <2>6, HandlerKeepsAsks DEF Asks, Wrapped, Key
    <3> QED
      BY <1>1, <2>1, <2>6, <3>1, <3>2 DEF CallsStored
  <2> QED
    BY <2>1, <2>3, <2>4, <2>5, <2>6 DEF CallsStored
<1>6. AppsStored'
  <2>1. \A a \in Objects : object[a].key # None => object[a].key.salt \in Salt
    BY DEF TypeOK, App, Key
  <2>2. \A a \in Objects : object[a].key # None => Stored(object[a].key.salt, saltFile')
    BY <1>1, <2>1 DEF AppsStored
  <2>3. CASE handler'[h].pc = "derive"
    BY <1>0, <2>2, <2>3 DEF Leads, Builds, AppsStored
  <2>4. CASE Keeps
    BY <2>2, <2>4 DEF Keeps, AppsStored
  <2>5. CASE Derives(h)
    <3>1. handler[h].app \in Objects /\ handler[h].salt \in Salt
      BY <2>5 DEF Derives, Asks, TypeOK, Call
    <3>2. Stored(handler[h].salt, saltFile')
      BY <1>1, <2>5, <3>1 DEF Derives, CallsStored
    <3> QED
      BY <2>2, <2>5, <3>1, <3>2 DEF Derives, AppsStored
  <2>6. CASE Unwraps(h)
    <3>1. handler[h].wrapped.key.salt \in Salt
      BY <2>6 DEF Unwraps, Asks, Wrapped, Key
    <3>2. Stored(handler[h].wrapped.key.salt, saltFile')
      BY <1>1, <2>6, <3>1 DEF Unwraps, CallsStored
    <3> QED
      BY <2>2, <2>6, <3>2 DEF Unwraps, AppsStored
  <2> QED
    BY <2>3, <2>4, <2>5, <2>6, Effects
<1>7. TokenStored'
  <2>1. ASSUME token' # None PROVE token'.key.salt \in Salt /\ Stored(token'.key.salt, saltFile)
    BY <2>1, TokenMoves DEF TypeOK, Asks, Wrapped, Key, TokenStored, CallsStored
  <2> QED
    BY <1>1, <2>1 DEF TokenStored
<1>8. FilesStored'
  <2>1. CASE UNCHANGED file
    <3>1. \A v \in Vaults : file[v] # None => file[v].salt \in Salt
      BY DEF TypeOK, Key
    <3> QED
      BY <1>1, <2>1, <3>1 DEF FilesStored
  <2>2. CASE \E a \in Objects : object[a].key # None /\ Persist(a)
    BY <1>1, <2>2, PersistKeepsStored DEF FilesStored
  <2>3. UNCHANGED file \/ Sync(h)
    BY DEF HandlerStep, UnlockLocal, SignIn, ReadSalt, CreateSalt, WriteSalt, HaveSalt, Authenticated, HaveDirectory,
           Derived, BioEnroll, WriteToken, BioUnlock, Prompted, OpenWrapped, Drop, StartSync
  <2> QED
    BY <2>1, <2>2, <2>3, SyncPersists
<1> QED
  BY <1>3, <1>4, <1>5, <1>6, <1>7, <1>8

LEMMA OtherKeepsSalts ==
    ASSUME TypeOK, Asks, SaltsFit, OtherStep
    PROVE  SaltsFit' /\ raced' = raced
<1>0. UNCHANGED <<saltFile, raced>>
  BY OtherEffects DEF saltVars
<1>1. \A salt : Stored(salt, saltFile) => Stored(salt, saltFile')
  BY <1>0 DEF Stored, EmptySalt, LocalSalt
<1>2. (OneMaker /\ MakerFits /\ CallsStored)'
  <2>1. CASE handler' = handler
    BY <1>0, <1>1, <2>1 DEF SaltsFit, OneMaker, MakerFits, CallsStored, EmptySalt, LocalSalt
  <2>2. CASE handler' = [h \in Handlers |-> Idle]
    BY <2>2, Shapes DEF OneMaker, MakerFits, CallsStored
  <2> QED
    BY <2>1, <2>2, OtherEffects
<1>3. AppsStored'
  BY <1>1, OtherEffects, Shapes DEF SaltsFit, AppsStored
<1>4. TokenStored'
  BY <1>1 DEF SaltsFit, TokenStored, OtherStep, ChangePassword, Register, Add, Lock, BioUnenroll, Restart
<1>5. FilesStored'
  <2>1. CASE Add
    BY <1>1, <2>1, PersistKeepsStored DEF TypeOK, SaltsFit, Add, FilesStored
  <2>2. CASE ~Add
    BY <1>1, <2>2 DEF SaltsFit, FilesStored, OtherStep, ChangePassword, Register, Lock, BioUnenroll, Restart
  <2> QED
    BY <2>1, <2>2
<1> QED
  BY <1>0, <1>2, <1>3, <1>4, <1>5 DEF SaltsFit

\* A key and the salt it was derived with belong together always; accounts and files
\* until the session changes under a call that is building its app; the keys of the local
\* vault and its salt file until two first unlocks each generate a salt.
THEOREM FitsInvariant == Spec => [](Fits /\ OneVault /\ OneSalt)
<1>1. Init => Fits /\ OneVault /\ OneSalt
  <2> SUFFICES ASSUME Init PROVE Fits /\ OneVault /\ OneSalt
    OBVIOUS
  <2>1. Fits
    BY Shapes DEF Init, Fits, AppsFit, CoreFits, CallsFit, TokenFits
  <2>2. OneVault
    BY Shapes DEF Init, OneVault, SessionFits, PathsFit, ContextFits, WrappedFit, FilesFit, OfSalt
  <2>3. OneSalt
    BY Shapes DEF Init, OneSalt, SaltsFit, OneMaker, MakerFits, CallsStored, AppsStored, TokenStored, FilesStored
  <2> QED
    BY <2>1, <2>2, <2>3
<1>2. TypeOK /\ Asks /\ Fits /\ OneVault /\ OneSalt /\ [Next]_vars => Fits' /\ OneVault' /\ OneSalt'
  <2>1. ASSUME TypeOK, Asks, Fits, OneVault, OneSalt, Next PROVE Fits' /\ OneVault' /\ OneSalt'
    <3>1. Fits'
      BY <2>1, StepCases, HandlerKeepsFits, OtherKeepsFits
    <3>2. ~mixed' => ~mixed /\ ~Mixes
      BY <2>1 DEF Next
    <3>3. OneVault'
      BY <2>1, <3>2, StepCases, HandlerKeepsVault, OtherKeepsVault DEF OneVault
    <3>4. ~raced' => ~raced
      BY <2>1, StepCases, RacedStays, OtherEffects DEF saltVars
    <3>5. OneSalt'
      BY <2>1, <3>4, StepCases, HandlerKeepsSalts, OtherKeepsSalts DEF OneSalt
    <3> QED
      BY <3>1, <3>3, <3>5
  <2>2. ASSUME Fits, OneVault, OneSalt, UNCHANGED vars PROVE Fits' /\ OneVault' /\ OneSalt'
    <3>1. Fits' /\ OneVault'
      BY <2>2 DEF vars, Fits, AppsFit, CoreFits, CallsFit, TokenFits, OneVault, SessionFits, PathsFit,
                  ContextFits, WrappedFit, FilesFit
    <3>2. OneSalt'
      BY <2>2 DEF vars, OneSalt, SaltsFit, OneMaker, MakerFits, CallsStored, AppsStored, TokenStored,
                  FilesStored, Stored, EmptySalt, LocalSalt
    <3> QED
      BY <3>1, <3>2
  <2> QED
    BY <2>1, <2>2
<1> QED
  BY <1>1, <1>2, TypedInvariant, PTL DEF Spec

\* However sign-ins overlap, fail and restart, the wrapped key is kept with the salt it was
\* derived with; the blob of a vault is under a salt of that vault unless a session changed
\* under a call that was building its app; and that of the local vault is then under the
\* salt in the file, unless two first unlocks each generated one (main.ts:96, main.ts:116,
\* main.ts:273).
THEOREM KeysAlwaysFit == Spec => []KeysFit
<1>1. Fits /\ OneVault /\ OneSalt => KeysFit
  BY Shapes DEF Fits, TokenFits, OneVault, FilesFit, OneSalt, SaltsFit, FilesStored, Stored, KeysFit
<1> QED
  BY <1>1, FitsInvariant, PTL

-----------------------------------------------------------------------------
(* The lock screen. *)

\* A call that is about to show the vault it has opened.
Shows(h) == \/ handler[h].pc \in {"enroll", "wrap"}
            \/ handler[h].pc = "pull" /\ handler[h].online

\* It shows it, or wraps the key first.
LEMMA ShowsTheVault ==
    ASSUME TypeOK, NEW h \in Handlers, HandlerStep(h), Shows(h)
    PROVE  view' = "vault" \/ handler'[h].pc = "wrap"
<1>1. CASE BioEnroll(h)
  <2> DEFINE call == [Idle EXCEPT !.pc = "wrap",
                          !.wrapped = [key |-> object[appCore].key, salt |-> context.salt, user |-> context.user]]
  <2>1. view' = "vault" \/ Goto(h, call)
    BY <1>1 DEF BioEnroll
  <2>2. call.pc = "wrap"
    BY DEF Idle
  <2> HIDE DEF call
  <2> QED
    BY <2>1, <2>2 DEF TypeOK, Goto
<1>2. CASE ~BioEnroll(h)
  BY <1>2 DEF Shows, HandlerStep, UnlockLocal, SignIn, ReadSalt, CreateSalt, WriteSalt, HaveSalt, Authenticated, HaveDirectory, Derived, Sync,
              WriteToken, BioUnlock, Prompted, OpenWrapped, Drop, StartSync
<1> QED
  BY <1>1, <1>2

LEMMA ViewMoves ==
    ASSUME NEW h \in Handlers, HandlerStep(h)
    PROVE  view' \in {view, "vault"}
BY DEF HandlerStep, UnlockLocal, SignIn, ReadSalt, CreateSalt, WriteSalt, HaveSalt, Authenticated, HaveDirectory, Derived, Sync, BioEnroll,
       WriteToken, BioUnlock, Prompted, OpenWrapped, Drop, StartSync

LEMMA HandlerKeepsLock ==
    ASSUME TypeOK, Asks, LockScreenHolds, NEW h \in Handlers, HandlerStep(h)
    PROVE  LockScreenHolds'
<1> SUFFICES ASSUME view' = "lock", appCore' # None, object'[appCore'].key # None
             PROVE  \E g \in Handlers : Shows(g)'
  BY DEF LockScreenHolds, Shows
<1>0. view = "lock" /\ \A g \in Handlers \ {h} : handler'[g] = handler[g]
  BY ViewMoves, HandlerKeepsAsks
<1>1. CASE handler'[h].pc = "derive"
  BY <1>1, HandlerKeepsAsks DEF Leads, Builds
<1>2. CASE Keeps
  <2>1. PICK g \in Handlers : Shows(g)
    BY <1>0, <1>2 DEF Keeps, LockScreenHolds, Shows
  <2>2. CASE g = h
    BY <2>1, <2>2, ShowsTheVault DEF Shows
  <2>3. CASE g # h
    BY <1>0, <2>1, <2>3 DEF Shows
  <2> QED
    BY <2>2, <2>3
<1>3. CASE Derives(h)
  BY <1>3 DEF Derives, Shows
<1>4. CASE Unwraps(h)
  BY <1>4 DEF Unwraps
<1> QED
  BY <1>1, <1>2, <1>3, <1>4, Effects

LEMMA OtherKeepsLock ==
    ASSUME TypeOK, LockScreenHolds, OtherStep
    PROVE  LockScreenHolds'
<1>1. CASE Lock \/ Restart
  BY <1>1 DEF Lock, Restart, LockScreenHolds
<1>2. CASE ~(Lock \/ Restart)
  BY <1>2 DEF OtherStep, ChangePassword, Register, Add, BioUnenroll, LockScreenHolds, globals
<1> QED
  BY <1>1, <1>2

\* Behind the lock screen no vault is open, but the one a call is about to show
\* (vault-app.ts:74, "Wipe the key and plaintext from memory").
THEOREM NothingOpenBehindLock == Spec => []LockScreenHolds
<1>1. Init => LockScreenHolds
  BY DEF Init, LockScreenHolds
<1>2. TypeOK /\ Asks /\ LockScreenHolds /\ [Next]_vars => LockScreenHolds'
  <2>1. ASSUME TypeOK, Asks, LockScreenHolds, Next PROVE LockScreenHolds'
    BY <2>1, StepCases, HandlerKeepsLock, OtherKeepsLock
  <2>2. ASSUME LockScreenHolds, UNCHANGED vars PROVE LockScreenHolds'
    BY <2>2 DEF LockScreenHolds, vars, globals
  <2> QED
    BY <2>1, <2>2
<1> QED
  BY <1>1, <1>2, TypedInvariant, PTL DEF Spec
=============================================================================
