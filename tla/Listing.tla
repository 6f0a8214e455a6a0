-------------------------------- MODULE Listing --------------------------------
(****************************************************************************)
(* A searchable list shown page by page: ContestList, ProblemList, and the  *)
(* problem pickers in the third step of AddContest and EditContest.  A      *)
(* change of the question -- search text, or tab -- is answered 400 ms      *)
(* after the last one; Prev and Next, on screen or by the arrow keys, are   *)
(* answered at once.  Nothing orders the answers.                           *)
(****************************************************************************)
EXTENDS Integers

CONSTANTS
    Question,    \* what can be asked for: a search text and a tab
    Rows,        \* how many rows the server has for each
    Limit,       \* rows per page
    MaxFetches   \* bound: requests sent by one mounted list

ListingAssumption ==
    /\ Rows \in [Question -> Nat] /\ Limit \in Nat \ {0} /\ MaxFetches \in Nat

VARIABLES
    picker,    \* whether the list is a picker
    on,        \* the list is there: always, or in the third step
    question,  \* what the user asks for now
    due,       \* the timer of 400 ms is running
    offset,    \* first row shown, as the page believes
    more,      \* whether it offers Next
    loading,   \* whether it says that it is loading
    rows,      \* the answer whose rows it shows
    flight,    \* requests under way
    fetches    \* requests sent, the number of the latest

vars == <<picker, on, question, due, offset, more, loading, rows, flight, fetches>>

Request == [n : 1..MaxFetches, of : Question, from : Nat]

\* Before the first answer a picker shows nothing, or the problems already
\* chosen.
Nothing == [n |-> 0]

TypeOK ==
    /\ picker \in BOOLEAN /\ on \in BOOLEAN
    /\ question \in Question /\ due \in BOOLEAN
    /\ offset \in Nat /\ more \in BOOLEAN /\ loading \in BOOLEAN
    /\ rows \in Request \cup {Nothing} /\ flight \subseteq Request
    /\ fetches \in 0..MaxFetches

\* The list is mounted; a list of its own asks at once, and says so.
Init ==
    /\ picker \in BOOLEAN /\ on = ~picker
    /\ question \in Question /\ due = ~picker
    /\ offset = 0 /\ more = TRUE /\ loading = ~picker
    /\ rows = Nothing /\ flight = {} /\ fetches = 0

\* How many rows the server returns.
Length(q, from) ==
    IF Rows[q] <= from THEN 0
    ELSE IF Rows[q] - from < Limit THEN Rows[q] - from ELSE Limit

\* fetchContests, fetchProblems, loadProblems.
Fetch(from) ==
    /\ fetches < MaxFetches /\ fetches' = fetches + 1
    /\ flight' = flight \cup {[n |-> fetches + 1, of |-> question, from |-> from]}
    /\ loading' = (loading \/ picker \/ from = 0)

\* A programmer's slip: the effect depends on the search text only, not on the
\* tab.
Ask_TabForgotten(q) ==
    /\ on /\ q # question /\ question' = q /\ UNCHANGED due
    /\ UNCHANGED <<picker, on, offset, more, loading, rows, flight, fetches>>

\* The user changes the question: the timer starts again.
Ask(q) ==
    /\ on /\ q # question /\ question' = q /\ due' = TRUE
    /\ UNCHANGED <<picker, on, offset, more, loading, rows, flight, fetches>>

\* The timer fires.
Reset ==
    /\ due /\ due' = FALSE
    /\ offset' = 0 /\ more' = TRUE
    /\ Fetch(0)
    /\ UNCHANGED <<picker, on, question, rows>>

\* handlePrev and handleNext; the keys work while the list is loading as well.
Prev ==
    /\ on /\ offset >= Limit /\ Fetch(offset - Limit)
    /\ UNCHANGED <<picker, on, question, due, offset, more, rows>>

Turn ==
    /\ on /\ more /\ Fetch(offset + Limit)
    /\ UNCHANGED <<picker, on, question, due, offset, more, rows>>

\* An answer arrives, in any order.
Answer(r) ==
    /\ r \in flight /\ flight' = flight \ {r}
    /\ rows' = r /\ offset' = r.from
    /\ more' = (Length(r.of, r.from) = Limit)
    /\ loading' = FALSE
    /\ UNCHANGED <<picker, on, question, due, fetches>>

\* A request fails, and is only logged.
Fail(r) ==
    /\ r \in flight /\ flight' = flight \ {r}
    /\ loading' = FALSE
    /\ UNCHANGED <<picker, on, question, due, offset, more, rows, fetches>>

\* The steps of the contest form: the timer belongs to the third.
Step ==
    /\ picker /\ on' = ~on /\ due' = ~on
    /\ UNCHANGED <<picker, question, offset, more, loading, rows, flight, fetches>>

Next ==
    \/ \E q \in Question : Ask(q)
    \/ Reset \/ Prev \/ Turn \/ Step
    \/ \E r \in flight : Answer(r) \/ Fail(r)

Spec == Init /\ [][Next]_vars

-----------------------------------------------------------------------------
(* Properties. *)

\* When the list has come to rest and the rows on screen are the answer to its
\* latest request, they answer the question that stands in the search field and
\* the tab, the range shown with them is theirs, Next is offered only if the
\* page is full, and nothing is said to be loading.  (A latest request that
\* failed, or whose answer an older one overtook, leaves other rows on screen:
\* ProblemList.jsx:31.)
ListSettles ==
    on /\ ~due /\ flight = {} /\ fetches > 0 =>
      /\ ~loading
      /\ rows.n = fetches =>
           /\ rows.of = question
           /\ rows.from = offset
           /\ more = (offset + Limit <= Rows[question])

=============================================================================
