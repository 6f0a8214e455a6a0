--------------------------------- MODULE Site ---------------------------------
(****************************************************************************)
(* The pages of the site that keep state of their own, next to each other:  *)
(* the session of the tab, a searchable list, the test cases of a form, the *)
(* contest form with its handlers, the secure arena, and the addresses its  *)
(* requests come from.                                                      *)
(*                                                                          *)
(* They share no variable.  A tab shows one page at a time, and a page that *)
(* is left, or whose document a lost session replaces, takes its state with *)
(* it; a behaviour of the site is, for each of them, a behaviour of its own *)
(* module.  So every behaviour here is that of one part.                    *)
(****************************************************************************)
EXTENDS Integers

CONSTANTS
    MaxTokens, Trouble,                              \* Session
    Question, Rows, Limit, MaxFetches,               \* Listing
    Archives, MaxCases, MaxZips,                     \* CaseForm
    MaxEvents, MaxMounts, MaxQueue, Window,          \* Proctor
    User, Admins, Author, Problem, Zone, LastHour,   \* ContestForge
    MaxEdits, MaxCalls,
    Address, Life, MaxClock, MaxTorn                 \* AddressWatch

VARIABLES
    part,  \* the part this behaviour is about
    minted, full, profile, active, stored, memory, page, target, reply, sent,
    picker, on, question, due, offset, more, loading, rows, flight, fetches,
    adding, cases, open, reading, made, wanted, astray,
    elevated, arena, hooks, whole, queue, seen, entered, armed, going, mouseOut,
    keys, told, drops, early, buffer, batches, logged, failed, mounts,
    now, contest, desk, form, call, late, edits, calls,
    clock, known, quiet, used, alerts, torn

session == INSTANCE Session
listing == INSTANCE Listing
caseForm == INSTANCE CaseForm
proctor == INSTANCE Proctor
contestForge == INSTANCE ContestForge
watch == INSTANCE AddressWatch

ASSUME SiteAssumption ==
    /\ session!SessionAssumption /\ listing!ListingAssumption
    /\ caseForm!CaseFormAssumption /\ proctor!ProctorAssumption
    /\ contestForge!ContestForgeAssumption /\ watch!AddressWatchAssumption

sessionVars == <<minted, full, profile, active, stored, memory, page, target,
                 reply, sent>>
listingVars == <<picker, on, question, due, offset, more, loading, rows, flight,
                 fetches>>
caseVars    == <<adding, cases, open, reading, made, wanted, astray>>
proctorVars == <<elevated, arena, hooks, whole, queue, seen, entered, armed, going,
                 mouseOut, keys, told, drops, early, buffer, batches, logged,
                 failed, mounts>>
contestVars == <<now, contest, desk, form, call, late, edits, calls>>
watchVars   == <<clock, known, quiet, used, alerts, torn>>

vars == <<part, sessionVars, listingVars, caseVars, proctorVars, contestVars,
          watchVars>>

TypeOK ==
    /\ part \in {"session", "listing", "caseForm", "proctor", "contestForge",
                 "watch"}
    /\ session!TypeOK /\ listing!TypeOK /\ caseForm!TypeOK /\ proctor!TypeOK
    /\ contestForge!TypeOK /\ watch!TypeOK

\* A part that starts with a choice makes it only in its own behaviours.
Init ==
    /\ part \in {"session", "listing", "caseForm", "proctor", "contestForge",
                 "watch"}
    /\ session!Init /\ listing!Init /\ caseForm!Init /\ proctor!Init
    /\ contestForge!Init /\ watch!Init
    /\ part # "session" => ~profile
    /\ part # "listing" => picker /\ question = CHOOSE q \in Question : TRUE
    /\ part # "caseForm" => adding
    /\ part # "proctor" => ~elevated

Next ==
    /\ UNCHANGED part
    /\ \/ /\ part = "session" /\ session!Next
          /\ UNCHANGED <<listingVars, caseVars, proctorVars, contestVars, watchVars>>
       \/ /\ part = "listing" /\ listing!Next
          /\ UNCHANGED <<sessionVars, caseVars, proctorVars, contestVars, watchVars>>
       \/ /\ part = "caseForm" /\ caseForm!Next
          /\ UNCHANGED <<sessionVars, listingVars, proctorVars, contestVars, watchVars>>
       \/ /\ part = "proctor" /\ proctor!Next
          /\ UNCHANGED <<sessionVars, listingVars, caseVars, contestVars, watchVars>>
       \/ /\ part = "contestForge" /\ contestForge!Next
          /\ UNCHANGED <<sessionVars, listingVars, caseVars, proctorVars, watchVars>>
       \/ /\ part = "watch" /\ watch!Next
          /\ UNCHANGED <<sessionVars, listingVars, caseVars, proctorVars,
                         contestVars>>

Spec == Init /\ [][Next]_vars

-----------------------------------------------------------------------------
(* Properties: what each part promises, under its own name. *)

\* Session: a login the server honours is not lost but by the user's own doing,
\* an answer to an older login's request, or an older login stored late
\* (api.js:34).
LoginSurvives == [][session!KeepsLogin]_sessionVars

\* Listing: a list at rest whose latest request was the last to be answered
\* shows what was asked for (ContestList.jsx:38).
ListSettles == listing!ListSettles

\* CaseForm: sections stay open with their cases (AddProblem.jsx:84).
AccordionFollows == caseForm!AccordionFollows

\* Proctor and AddressWatch: no telemetry event is forgotten or recorded twice,
\* an exit an armed page knows of has its event, and a third address has one
\* alert (useAntiCheat.js:34, ip_tracker.go:68).
AnomaliesRecorded == proctor!ExitsAccounted /\ watch!AlertedOnce

\* ContestForge: a professor's request that came after the start changes nothing
\* (contest_controller.go:262).
StartedStaysFixed == [][contestForge!RefusesLate]_contestVars

=============================================================================
