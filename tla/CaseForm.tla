------------------------------- MODULE CaseForm -------------------------------
(****************************************************************************)
(* The list of test cases in the forms AddProblem and EditProblem: an       *)
(* accordion whose open sections are kept by position, while cases are      *)
(* added, removed, and appended from a ZIP archive that is read meanwhile.  *)
(*                                                                          *)
(* A case is a number nothing else in the page knows; positions count from  *)
(* 1 here, from 0 in the code.                                              *)
(****************************************************************************)
EXTENDS Naturals, SequencesExt

CONSTANTS
    Archives,   \* ZIP archives: sequences of entries
    MaxCases,   \* bound: cases that come and go in one form
    MaxZips     \* bound: archives being read at a time

\* An entry: the number, or else the word, its name starts with; whether "in"
\* and "out" occur in the name; and its text.
Entry == [key : STRING, is : SUBSET {"in", "out"}, text : {"text", "blank", "empty"}]

CaseFormAssumption ==
    /\ Archives \subseteq Seq(Entry)
    /\ MaxCases \in Nat \ {0} /\ MaxZips \in Nat

VARIABLES
    adding,   \* the form is AddProblem's
    cases,    \* the cases in their order
    open,     \* expandedCases: the positions marked as expanded
    reading,  \* archives being read: the number of cases when each was dropped
    made,     \* cases made so far
    wanted,   \* the cases the user opened, or was shown open, and did not close
    astray    \* an archive was appended to a list that had changed meanwhile

vars == <<adding, cases, open, reading, made, wanted, astray>>

TypeOK ==
    /\ adding \in BOOLEAN /\ astray \in BOOLEAN
    /\ cases \in Seq(1..MaxCases) /\ Len(cases) <= made
    /\ open \subseteq 1..(MaxCases + 1)
    /\ reading \in Seq(0..MaxCases) /\ Len(reading) <= MaxZips
    /\ made \in 0..MaxCases /\ wanted \subseteq 1..made

\* AddProblem starts with an empty case; EditProblem with those of the problem.
\* The first position is expanded.
Init ==
    /\ adding \in BOOLEAN
    /\ made \in IF adding THEN {1} ELSE 0..2
    /\ cases = [i \in 1..made |-> i]
    /\ open = {1} /\ wanted = {1} \cap 1..made
    /\ reading = <<>> /\ astray = FALSE

\* handleAddTestCase.
Add ==
    /\ made < MaxCases /\ made' = made + 1
    /\ cases' = Append(cases, made + 1)
    /\ open' = open \cup {Len(cases) + 1}
    /\ wanted' = wanted \cup {made + 1}
    /\ UNCHANGED <<adding, reading, astray>>

\* toggleTestCase.
Toggle(i) ==
    /\ i \in DOMAIN cases
    /\ open' = SymDiff(open, {i})
    /\ wanted' = SymDiff(wanted, {cases[i]})
    /\ UNCHANGED <<adding, cases, reading, made, astray>>

\* A programmer's slip: the positions after the removed one do not move up.
Removed_NoShift(i) == open \ {i}

\* The open positions once the case at position i is gone.
Removed(i) == {j \in open : j < i} \cup {j - 1 : j \in {k \in open : k > i}}

\* handleRemoveTestCase; AddProblem keeps the last case.
Delete(i) ==
    /\ i \in DOMAIN cases /\ (adding => Len(cases) > 1)
    /\ cases' = RemoveAt(cases, i)
    /\ open' = Removed(i)
    /\ wanted' = wanted \ {cases[i]}
    /\ UNCHANGED <<adding, reading, made, astray>>

\* handleZipUpload, up to the wait for the archive: its closure keeps the list
\* of the moment.
Drop ==
    /\ Len(reading) < MaxZips
    /\ reading' = Append(reading, Len(cases))
    /\ UNCHANGED <<adding, cases, open, made, wanted, astray>>

\* The text of the last entry of archive a with key k and role r.
TextOf(a, k, r) ==
    LET found == SelectLastInSeq(a, LAMBDA e : e.key = k /\ r \in e.is)
    IN IF found = 0 THEN "none" ELSE a[found].text

\* parseZipTestCases: the keys that make a test case.
Parsed(a) ==
    {k \in {a[i].key : i \in DOMAIN a} :
       /\ TextOf(a, k, "in") # "none"
       /\ TextOf(a, k, "out") \notin {"none", "empty"}
       /\ "text" \in {TextOf(a, k, "in"), TextOf(a, k, "out")}}

\* handleZipUpload, after the wait.  An archive without test cases is an error.
Unzip(z, a) ==
    LET n == Cardinality(Parsed(a))
        start == reading[z]
    IN /\ made + n <= MaxCases /\ made' = made + n
       /\ reading' = RemoveAt(reading, z)
       /\ cases' = cases \o [i \in 1..n |-> made + i]
       /\ IF n = 0 THEN UNCHANGED <<open, wanted, astray>>
          ELSE /\ open' = open \cup {start + 1}
               /\ wanted' = wanted \cup {made + 1}
               /\ astray' = (astray \/ start # Len(cases))
       /\ UNCHANGED adding

\* resetForm, for another problem; archives still being read are not given up.
ResetForm ==
    /\ adding /\ made < MaxCases /\ made' = made + 1
    /\ cases' = <<made + 1>> /\ open' = {1} /\ wanted' = {made + 1}
    /\ UNCHANGED <<adding, reading, astray>>

Next ==
    \/ Add \/ Drop \/ ResetForm
    \/ \E i \in DOMAIN cases : Toggle(i) \/ Delete(i)
    \/ \E z \in DOMAIN reading, a \in Archives : Unzip(z, a)

Spec == Init /\ [][Next]_vars

-----------------------------------------------------------------------------
(* Properties. *)

\* The sections shown open are those of the cases the user opened, whatever was
\* added and removed around them, unless an archive came back to a list that
\* had changed since it was dropped (AddProblem.jsx:84, AddProblem.jsx:121).
AccordionFollows ==
    ~astray => {cases[i] : i \in open \cap DOMAIN cases} = wanted

=============================================================================
