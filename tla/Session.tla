-------------------------------- MODULE Session --------------------------------
(****************************************************************************)
(* The session of one user as one browser tab sees it: the token in         *)
(* localStorage, the copy the document read when it was loaded, the routes  *)
(* that copy opens, the requests under way, and the one session the server  *)
(* honours.  The other tabs of the browser share the localStorage; other    *)
(* devices share only the session of the server.                            *)
(*                                                                          *)
(* A token is named by the number of the login, or of the onboarding, that  *)
(* minted it; 0 is no token.                                                *)
(****************************************************************************)
EXTENDS Naturals

CONSTANTS
    MaxTokens,   \* bound: tokens minted
    Trouble      \* what may go wrong: "redis", "answer", "expiry"

\* "redis": a call of the API to Redis fails.  "answer": the answer to the
\* onboarding is lost.  "expiry": the three days of a session are over.
SessionAssumption ==
    /\ MaxTokens \in Nat
    /\ Trouble \subseteq {"redis", "answer", "expiry"}

Token == 0..MaxTokens

VARIABLES
    minted,   \* tokens minted so far
    full,     \* those that say the user is onboarded
    profile,  \* whether the database says so
    active,   \* the session Redis holds for the user
    stored,   \* the token in localStorage
    memory,   \* the token in the AuthContext of this document
    page,     \* what this tab shows: a public page, a guarded one, or Azure
    target,   \* where a full page load is heading, if one has been ordered
    reply,    \* the token a callback or an onboarding is delivering
    sent      \* the tokens that requests under way were sent with

vars == <<minted, full, profile, active, stored, memory, page, target, reply,
          sent>>

server == <<minted, full, profile, active>>

Public  == {"landing", "login", "oauth"}
Guarded == {"onboarding", "inside"}

TypeOK ==
    /\ minted \in Token /\ full \subseteq 1..minted /\ profile \in BOOLEAN
    /\ active \in 0..minted /\ stored \in 0..minted /\ memory \in 0..minted
    /\ page \in Public \cup Guarded \cup {"azure"}
    /\ target \in {"none", "landing", "login"} \cup Guarded
    /\ reply \in 0..minted
    /\ sent \subseteq 0..minted

\* A visitor, new or one who has been onboarded before.
Init ==
    /\ minted = 0 /\ full = {} /\ profile \in BOOLEAN
    /\ active = 0 /\ stored = 0 /\ memory = 0
    /\ page = "landing" /\ target = "none" /\ reply = 0 /\ sent = {}

-----------------------------------------------------------------------------
(* The server. *)

\* A new session, which replaces the one before it.
Mint(ready) ==
    /\ minted < MaxTokens
    /\ minted' = minted + 1
    /\ full' = IF ready THEN full \cup {minted + 1} ELSE full
    /\ active' = minted + 1

\* HandleAzureCallback: without Redis the login fails, in a document of its
\* own, and is tried again.
Callback ==
    /\ page = "azure"
    /\ \/ /\ Mint(profile)
          /\ reply' = minted + 1 /\ page' = "oauth" /\ memory' = stored
       \/ /\ "redis" \in Trouble
          /\ UNCHANGED <<minted, full, active, reply, page, memory>>
    /\ UNCHANGED <<profile, stored, target, sent>>

\* CompleteOnboarding, for a request with the honoured token.  The profile is
\* saved first; the session may then fail to start, or the answer be lost.
Onboard ==
    /\ page = "onboarding" /\ target = "none" /\ reply = 0
    /\ stored # 0 /\ stored = active
    /\ profile' = TRUE
    /\ \/ Mint(TRUE) /\ reply' = minted + 1
       \/ "answer" \in Trouble /\ Mint(TRUE) /\ UNCHANGED reply
       \/ "redis" \in Trouble /\ UNCHANGED <<minted, full, active, reply>>
    /\ UNCHANGED <<stored, memory, page, target, sent>>

\* The user logs in on another device, or in another tab of this browser.
LoginElsewhere ==
    /\ Mint(profile)
    /\ stored' \in {stored, minted + 1}
    /\ UNCHANGED <<profile, memory, page, target, reply, sent>>

\* Another tab logs out, or is sent to the login page.
ClearedElsewhere ==
    /\ stored # 0 /\ stored' = 0
    /\ UNCHANGED <<server, memory, page, target, reply, sent>>

Expire ==
    /\ "expiry" \in Trouble /\ active # 0 /\ active' = 0
    /\ UNCHANGED <<minted, full, profile, stored, memory, page, target, reply,
                   sent>>

-----------------------------------------------------------------------------
(* The tab. *)

\* ProtectedRoute: the page that token t is shown instead of p.
Bounce(p, t) ==
    IF p \notin Guarded THEN p
    ELSE IF t = 0 THEN "login"
    ELSE IF t \in full THEN "inside" ELSE "onboarding"

\* Login removes the token when it is mounted.
Shown(p, t) ==
    /\ page' = Bounce(p, t)
    /\ stored' = IF page' = "login" THEN 0 ELSE stored

\* A document is loaded, with the token of the moment.
Load ==
    /\ target # "none" /\ target' = "none"
    /\ memory' = stored /\ sent' = {} /\ reply' = 0
    /\ Shown(target, stored)
    /\ UNCHANGED server

\* The user types an address, at any time.
TypeAddress(p) ==
    /\ target = "none" /\ page # "azure" /\ target' = p
    /\ UNCHANGED <<server, stored, memory, page, reply, sent>>

\* A link within the document: to the login page for those who are not logged
\* in, to the guarded pages for those who are.
Follow(p) ==
    /\ page \notin {"azure", "oauth"} /\ target = "none"
    /\ p \in {"landing", IF memory = 0 THEN "login" ELSE "inside"} /\ p # page
    /\ Shown(p, memory)
    /\ UNCHANGED <<server, memory, target, reply, sent>>

SignIn ==
    /\ page = "login" /\ target = "none"
    /\ page' = "azure" /\ memory' = 0 /\ sent' = {} /\ reply' = 0
    /\ UNCHANGED <<server, stored, target>>

\* OAuthSuccess and Onboarding store the token they are given and order a
\* full load, Onboarding even if the user has followed a link meanwhile.
Store ==
    /\ reply # 0
    /\ stored' = reply /\ reply' = 0
    /\ target' = IF reply \in full THEN "inside" ELSE "onboarding"
    /\ UNCHANGED <<server, memory, page, sent>>

\* The request interceptor: the token is read when the request is sent.
Send ==
    /\ page \in Guarded /\ target = "none"
    /\ sent' = sent \cup {stored}
    /\ UNCHANGED <<server, stored, memory, page, target, reply>>

Honoured(t) == t # 0 /\ t = active

\* RequireAuth lets the request through, or answers 503 because Redis does not
\* answer.
Served(t) ==
    /\ t \in sent /\ sent' = sent \ {t}
    /\ Honoured(t) \/ (t # 0 /\ "redis" \in Trouble)
    /\ UNCHANGED <<server, stored, memory, page, target, reply>>

\* A programmer's slip: the interceptor logs out on a 503 as well.
Refused_OnOverload(t) ==
    /\ t \in sent /\ sent' = sent \ {t}
    /\ ~Honoured(t) \/ "redis" \in Trouble
    /\ stored' = 0 /\ target' = "login"
    /\ UNCHANGED <<server, memory, page, reply>>

\* A 401: the response interceptor clears the localStorage, whatever token it
\* holds by now.
Refused(t) ==
    /\ t \in sent /\ sent' = sent \ {t}
    /\ ~Honoured(t)
    /\ stored' = 0 /\ target' = "login"
    /\ UNCHANGED <<server, memory, page, reply>>

Logout ==
    /\ memory # 0 /\ page # "azure"
    /\ stored' = 0 /\ memory' = 0 /\ target' = "landing"
    /\ UNCHANGED <<server, page, reply, sent>>

Tab ==
    \/ Load \/ SignIn \/ Store \/ Send \/ Logout
    \/ \E p \in {"landing", "login", "onboarding", "inside"} :
         TypeAddress(p) \/ Follow(p)
    \/ \E t \in sent : Served(t) \/ Refused(t)

Next == Callback \/ Onboard \/ LoginElsewhere \/ ClearedElsewhere \/ Expire \/ Tab

Spec == Init /\ [][Next]_vars

-----------------------------------------------------------------------------
(* Properties. *)

\* A login the server honours, and which this tab knows of, is lost to the
\* browser only if the user asks for it -- here or in another tab, by logging
\* out or by going to the login page -- or with the answer to a request that
\* had been sent with another token, or when a login finished before it is
\* stored after it.  An overloaded server never ends it, nor does an honoured
\* request (api.js:34, jwt.go:107).
KeepsLogin ==
    stored # 0 /\ stored = active /\ stored' # stored /\ active' = active =>
      \/ page' = "login" \/ target' = "landing"
      \/ ClearedElsewhere
      \/ stored' = reply /\ reply < stored
      \/ \E t \in sent \ {stored} : Refused(t)

=============================================================================
