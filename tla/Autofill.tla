------------------------------ MODULE Autofill ------------------------------
(***************************************************************************)
(* What the extension writes into a page: the classification of the fields *)
(* of a form (classify.ts), the rule of context (analyzeForm), the phishing*)
(* guard (phishing.ts), the choice of a credential (matcher.ts) and the    *)
(* plan of writes (planFill), as pure operators.  A field is its type, its *)
(* autocomplete attribute and which hints its attributes contain; a URL is *)
(* its protocol and its host, or does not parse.                           *)
(***************************************************************************)
EXTENDS Integers, Sequences, FiniteSets, FiniteSetsExt

\* classifyField: "the autocomplete attribute is authoritative when present".
Classify(d) ==
    IF d.type = "password" \/ d.autocomplete \in {"current-password", "new-password"}
    THEN "password"
    ELSE IF d.autocomplete = "username" THEN "username"
    ELSE IF d.autocomplete = "email" \/ d.type = "email" THEN "email"
    ELSE IF d.autocomplete = "one-time-code" \/ "otp" \in d.hints THEN "otp"
    ELSE IF "email" \in d.hints THEN "email"
    ELSE IF "user" \in d.hints THEN "username"
    ELSE "unknown"

\* analyzeForm: walking back from the first password, the first field that is no
\* code decides: an unknown one is the username.
BadNearest(kinds, password) ==
    {i \in 1..(password - 1) : kinds[i] = "unknown"}
Nearest(kinds, password) ==
    {i \in 1..(password - 1) : kinds[i] \in {"unknown", "username", "email"}}

AnalyzeForm(fields) ==
    LET kinds == [i \in DOMAIN fields |-> Classify(fields[i])]
        passwords == {i \in DOMAIN kinds : kinds[i] = "password"}
        before == Nearest(kinds, Min(passwords)) IN
    IF passwords = {} \/ before = {} THEN kinds
    ELSE [kinds EXCEPT ![Max(before)] = IF @ = "unknown" THEN "username" ELSE @]

\* isAutofillSafe: "Exact registrable-domain match required."
Safe(url, origin) == /\ url.parses /\ origin.parses
                     /\ url.host = origin.host
                     /\ origin.protocol = "https:"

\* matchCredentials: the best of those that are safe here, complete ones first;
\* the rest of the order is by title, and is left open.
Score(c) == (IF c.username THEN 1 ELSE 0) + (IF c.password THEN 1 ELSE 0)
Matches(credentials, origin) ==
    {c \in credentials : /\ Safe(c.url, origin)
                         /\ \A d \in credentials : Safe(d.url, origin) => Score(d) =< Score(c)}

\* planFill: which field gets which value; nothing when the guard refuses.
PlanFill(kinds, c, origin) ==
    IF ~Safe(c.url, origin) THEN {}
    ELSE {w \in [field : DOMAIN kinds, value : {"username", "password"}] :
            \/ w.value = "username" /\ c.username /\ kinds[w.field] \in {"username", "email"}
            \/ w.value = "password" /\ c.password /\ kinds[w.field] = "password"}

-----------------------------------------------------------------------------
\* One field of every kind, and fields whose attributes disagree.
Fields == {[type |-> "password", autocomplete |-> "username", hints |-> {}],
           [type |-> "text", autocomplete |-> "new-password", hints |-> {"otp"}],
           [type |-> "text", autocomplete |-> "username", hints |-> {"otp"}],
           [type |-> "email", autocomplete |-> "one-time-code", hints |-> {"user"}],
           [type |-> "tel", autocomplete |-> "one-time-code", hints |-> {"email", "user"}],
           [type |-> "text", autocomplete |-> "", hints |-> {"otp", "user"}],
           [type |-> "text", autocomplete |-> "", hints |-> {}]}
Forms == UNION {[1..n -> Fields] : n \in 1..4}

\* The fields that may hold a username, said directly: those that say so, and an
\* unknown one that only codes separate from the first password.
IsUsername(kinds, i) ==
    \/ kinds[i] \in {"username", "email"}
    \/ /\ kinds[i] = "unknown"
       /\ \E p \in (i + 1)..Len(kinds) : /\ kinds[p] = "password"
                                         /\ \A j \in (i + 1)..(p - 1) : kinds[j] = "otp"
                                         /\ \A j \in 1..(i - 1) : kinds[j] # "password"

Site(host, protocol) == [parses |-> TRUE, protocol |-> protocol, host |-> host]
Vault == {[url |-> Site("site", "https:"), username |-> TRUE, password |-> TRUE],
          [url |-> Site("site", "http:"), username |-> FALSE, password |-> TRUE],
          [url |-> Site("lookalike", "https:"), username |-> FALSE, password |-> TRUE],
          [url |-> [parses |-> FALSE, protocol |-> "", host |-> ""],
           username |-> TRUE, password |-> TRUE]}

\* Whatever the form and the page, the credential that is used is the complete one of
\* this host, its username goes to the fields that hold one, its password to password
\* fields, and nothing goes anywhere else ("OTP and unknown fields are never
\* auto-written", autofill.ts; "A look-alike domain gets zero candidates", matcher.ts).
FormsFilled ==
    \A form \in Forms, host \in {"site", "lookalike", "other"}, protocol \in {"https:", "http:"} :
        LET kinds == [i \in DOMAIN form |-> Classify(form[i])]
            usernames == {i \in DOMAIN form : host = "site" /\ IsUsername(kinds, i)}
            passwords == {i \in DOMAIN form : host # "other" /\ kinds[i] = "password"}
            page == Site(host, protocol) IN
        UNION {PlanFill(AnalyzeForm(form), c, page) : c \in Matches(Vault, page)} =
            IF protocol = "http:" THEN {}
            ELSE {[field |-> i, value |-> "username"] : i \in usernames}
                 \cup {[field |-> i, value |-> "password"] : i \in passwords}
=============================================================================
