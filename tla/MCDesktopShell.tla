---------------------------- MODULE MCDesktopShell ----------------------------
(* Instances of DesktopShell for TLC: accounts, slots and salts are alike.  Fresh   *)
(* chooses among objects, which are not.  The view leaves out what makes no         *)
(* difference any more: an object that nothing refers to, or that has no key and    *)
(* gets none; the context without an app, for an app comes with its own; the token  *)
(* of a call whose app is built; what was generated, once there is a file; and      *)
(* whether two calls did, once KeysFit asks for no session change either.           *)
EXTENDS DesktopShell, TLC

Symmetry == Permutations(Accounts) \cup Permutations(Handlers) \cup Permutations(Salts)

Referred(a) == \/ \E h \in Handlers : handler[h].pc = "derive" /\ handler[h].app = a
               \/ /\ object[a].key # None
                  /\ a = appCore \/ \E h \in Handlers : handler[h].app = a
Live(call) == IF call.pc = "derive" THEN [call EXCEPT !.token = None] ELSE call
View == <<password, device, file, token, saltFile,
          IF saltFile = None THEN generated ELSE {},
          session, appCore, IF appCore = None THEN None ELSE context,
          [h \in Handlers |-> Live(handler[h])],
          view, mixed, raced \/ mixed,
          [a \in Objects |-> IF Referred(a) THEN object[a] ELSE NoApp]>>
=============================================================================
