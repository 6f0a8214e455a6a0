----------------------------- MODULE ArenaProofs -----------------------------
(****************************************************************************)
(* Theorems about Arena, for any number of visits, edits, requests, streams *)
(* and failures: what the stream cap counts, whose stream is open, what the *)
(* page shows, and what becomes of the draft.                               *)
(****************************************************************************)
EXTENDS Arena, FiniteSetTheorems, TLAPS

-----------------------------------------------------------------------------
(* Types. *)

LEMMA Typed ==
    /\ Blank \in Message
    /\ \A r \in Request, s \in {"waiting", "running", "result", "error"} :
         About(r, s) \in Message /\ About(r, s).of = r /\ About(r, s).says = s
    /\ Request \subseteq Nat \ {0} /\ Visit \subseteq Nat \ {0}
BY ArenaAssumption DEF Blank, About, Message, Request, Visit

LEMMA CloseTyped ==
    ASSUME TypeOK, NEW S, Close(S)
    PROVE  /\ client' \in [Request -> {"none", "open", "closed"}]
           /\ inbox' \in [Request -> Seq(Event)]
           /\ \A r \in Request :
                /\ client'[r] = IF r \in S /\ client[r] = "open" THEN "closed"
                                ELSE client[r]
                /\ inbox'[r] = IF r \in S THEN <<>> ELSE inbox[r]
<1>1. <<>> \in Seq(Event)
  OBVIOUS
<1> QED BY <1>1 DEF TypeOK, Close

LEMMA PutTyped ==
    ASSUME NEW c \in [edit : Text, is : {"text", "template", "empty"}], Put(c)
    PROVE  /\ code' \in [edit : Text, is : {"text", "template", "empty"}]
           /\ timer' \in BOOLEAN /\ cleared' \in BOOLEAN
BY DEF Put, Arms

LEMMA EditorTypes ==
    ASSUME TypeOK, SaveDraft \/ Type \/ TakeTemplate \/ Restore \/ Enter
    PROVE  TypeOK'
<1>1. CASE SaveDraft
  BY <1>1 DEF SaveDraft, TypeOK, panel, request, limiter, Text
<1>2. CASE Type
  <2>1. edits + 1 \in Text
    BY <1>2, ArenaAssumption DEF Type, TypeOK, Text
  <2>2. PICK is \in {"text", "empty"} : Put([edit |-> edits + 1, is |-> is])
    BY <1>2 DEF Type
  <2> QED BY <1>2, <2>1, <2>2, PutTyped DEF Type, TypeOK, panel, request, limiter
<1>3. CASE TakeTemplate
  <2>1. 0 \in Text
    BY ArenaAssumption DEF Text
  <2> QED BY <1>3, <2>1, PutTyped DEF TakeTemplate, TypeOK, panel, request, limiter
<1>4. CASE Restore
  <2>1. edits + 1 \in Text
    BY <1>4, ArenaAssumption DEF Restore, TypeOK, Text
  <2> QED BY <1>4, <2>1, PutTyped DEF Restore, TypeOK, panel, request, limiter
<1>5. CASE Enter
  <2>1. 0 \in Text /\ draft \in Text
    BY ArenaAssumption DEF Text, TypeOK
  <2>2. PICK c \in [edit : Text, is : {"text", "template", "empty"}] : Put(c)
    BY <1>5, <2>1 DEF Enter
  <2>3. visit' \in 0..MaxVisits /\ open' = TRUE
    BY <1>5, ArenaAssumption DEF Enter, TypeOK
  <2> QED BY <1>5, <2>2, <2>3, PutTyped
          DEF Enter, TypeOK, panel, request, limiter
<1> QED BY <1>1, <1>2, <1>3, <1>4, <1>5

LEMMA UnmountTyped ==
    ASSUME Unmount
    PROVE  /\ open' = FALSE /\ timer' = FALSE /\ busy' = FALSE
           /\ code' \in [edit : Text, is : {"text", "template", "empty"}]
           /\ code'.edit = 0 /\ status' = Blank /\ output' = Blank
           /\ cleared' = FALSE /\ restored' = FALSE
BY ArenaAssumption DEF Unmount, Text

LEMMA LeaveTypes ==
    ASSUME TypeOK, Leave \/ CloseTab \/ SessionEnds
    PROVE  TypeOK'
<1>1. 0 \in Text /\ budget \in 0..MaxFaults
  BY ArenaAssumption DEF Text, TypeOK
<1>2. CASE Leave
  <2>1. /\ client' \in [Request -> {"none", "open", "closed"}]
        /\ inbox' \in [Request -> Seq(Event)]
    BY <1>2, CloseTyped DEF Leave
  <2>2. /\ open' = FALSE /\ timer' = FALSE /\ busy' = FALSE
        /\ code' \in [edit : Text, is : {"text", "template", "empty"}]
        /\ status' \in Message /\ output' \in Message
        /\ cleared' = FALSE /\ restored' = FALSE
    BY <1>2, Typed, UnmountTyped DEF Leave
  <2>3. UNCHANGED <<visit, edits, draft, sse, kind, owner, text, call, job, server,
                    count, leaked, expired, missed, late, budget>>
    BY <1>2 DEF Leave, request, limiter
  <2> QED BY <2>1, <2>2, <2>3 DEF TypeOK
<1>3. ASSUME Unload, draft' \in Text, budget' \in 0..MaxFaults PROVE TypeOK'
  <2>1. call' \in [Request -> {"none", "sent", "accepted", "done"}]
    BY <1>3 DEF Unload, TypeOK
  <2>2. /\ client' \in [Request -> {"none", "open", "closed"}]
        /\ inbox' \in [Request -> Seq(Event)]
    BY <1>3, CloseTyped DEF Unload
  <2> QED BY <1>3, <2>1, <2>2, Typed, UnmountTyped
          DEF Unload, TypeOK, request, limiter
<1>4. CASE CloseTab
  BY <1>1, <1>3, <1>4 DEF CloseTab, TypeOK
<1>5. CASE SessionEnds
  BY <1>1, <1>3, <1>5, ArenaAssumption DEF SessionEnds, Spend
<1> QED BY <1>2, <1>4, <1>5

LEMMA SpendTyped ==
    ASSUME TypeOK, NEW f, Spend(f)
    PROVE  budget' \in 0..MaxFaults
BY ArenaAssumption DEF TypeOK, Spend

LEMMA CallTypes ==
    ASSUME TypeOK, NEW r \in Request,
           Submit(r) \/ RunCode(r) \/ Accept(r) \/ Answer(r) \/ Refuse(r)
    PROVE  TypeOK'
<1>1. ASSUME NEW k \in Kind, Click(r, k) PROVE TypeOK'
  <2>1. /\ kind' \in [Request -> Kind \cup {"none"}]
        /\ owner' \in [Request -> 0..MaxVisits] /\ text' \in [Request -> Text]
        /\ call' \in [Request -> {"none", "sent", "accepted", "done"}]
        /\ busy' = TRUE /\ restored' = FALSE
    BY <1>1 DEF Click, TypeOK
  <2>2. status' \in Message /\ output' \in Message
    BY <1>1, Typed DEF Click, TypeOK
  <2>3. /\ client' \in [Request -> {"none", "open", "closed"}]
        /\ inbox' \in [Request -> Seq(Event)]
    BY <1>1, CloseTyped DEF Click
  <2> QED BY <1>1, <2>1, <2>2, <2>3 DEF Click, TypeOK, limiter
<1>2. CASE Accept(r)
  BY <1>2 DEF Accept, TypeOK, editor, panel, request, limiter
<1>3. CASE Answer(r)
  <2>1. r \in 0..MaxRequests
    BY ArenaAssumption DEF Request
  <2>2. /\ call' \in [Request -> {"none", "sent", "accepted", "done"}]
        /\ sse' \in [Visit -> 0..MaxRequests] /\ late' \subseteq Request
        /\ client' \in [Request -> {"none", "open", "closed"}]
    BY <1>3, <2>1 DEF Answer, TypeOK
  <2> QED BY <1>3, <2>2 DEF Answer, TypeOK, editor, panel, request, limiter
<1>4. CASE Refuse(r)
  <2>1. /\ busy' \in BOOLEAN /\ status' \in Message /\ output' \in Message
        /\ call' \in [Request -> {"none", "sent", "accepted", "done"}]
    <3>1. call' \in [Request -> {"none", "sent", "accepted", "done"}]
      BY <1>4 DEF Refuse, TypeOK
    <3>2. About(r, "error") \in Message
      BY Typed
    <3> QED BY <1>4, <3>1, <3>2 DEF Refuse, TypeOK, panel
  <2>2. budget' \in 0..MaxFaults
    BY <1>4, SpendTyped DEF Refuse, TypeOK
  <2> QED BY <1>4, <2>1, <2>2 DEF Refuse, TypeOK, editor, request, limiter
<1> QED BY <1>1, <1>2, <1>3, <1>4 DEF Submit, RunCode, Kind

LEMMA CountTyped ==
    ASSUME NEW c \in [Kind -> Nat], NEW k
    PROVE  /\ [c EXCEPT ![k] = @ + 1] \in [Kind -> Nat]
           /\ [c EXCEPT ![k] = Decremented(@)] \in [Kind -> Nat]
<1>1. \A n \in Nat : Decremented(n) \in Nat
  BY DEF Decremented
<1>2. CASE k \in Kind
  <2> DEFINE d == Decremented(c[k])
  <2>1. d \in Nat
    BY <1>1, <1>2
  <2>2. [c EXCEPT ![k] = Decremented(@)] = [c EXCEPT ![k] = d]
    OBVIOUS
  <2> HIDE DEF d
  <2>3. [c EXCEPT ![k] = @ + 1] \in [Kind -> Nat]
    BY <1>2
  <2> QED BY <2>1, <2>2, <2>3
<1>3. CASE k \notin Kind
  BY <1>3
<1> QED BY <1>2, <1>3

LEMMA ServerTypes ==
    ASSUME TypeOK, NEW r \in Request,
           \/ StartJob(r) \/ EndJob(r) \/ TakeSlot(r) \/ TurnAway(r)
           \/ LoseSlot(r) \/ Listen(r) \/ Release(r) \/ Break(r)
    PROVE  TypeOK'
<1> USE DEF editor, panel, request
<1>0. \A e \in Event, q \in Request : Append(inbox[q], e) \in Seq(Event)
  BY DEF TypeOK
<1>1. ASSUME NEW from, NEW to \in {"running", "judged"}, NEW e \in Event,
             Publish(r, from, to, e)
      PROVE  TypeOK'
  <2>1. inbox' \in [Request -> Seq(Event)] /\ missed' \subseteq Request
    <3>1. inbox' = inbox \/ inbox' = [inbox EXCEPT ![r] = Append(inbox[r], e)]
      BY <1>1, Zenon DEF Publish
    <3>2. missed' = missed \/ missed' = missed \cup {r}
      BY <1>1, Zenon DEF Publish
    <3>3. inbox \in [Request -> Seq(Event)] /\ missed \subseteq Request
      BY DEF TypeOK
    <3>4. Append(inbox[r], e) \in Seq(Event)
      BY <1>0
    <3> QED BY <3>1, <3>2, <3>3, <3>4
  <2>2. job' \in [Request -> {"none", "queued", "running", "judged"}]
    BY <1>1 DEF Publish, TypeOK
  <2> QED BY <1>1, <2>1, <2>2 DEF Publish, TypeOK, limiter
<1>2. ASSUME SendError(r) PROVE inbox' \in [Request -> Seq(Event)]
  BY <1>0, <1>2 DEF SendError, TypeOK, Event
<1>3. CASE StartJob(r) \/ EndJob(r)
  BY <1>1, <1>3 DEF StartJob, EndJob, Event
<1>5. CASE TakeSlot(r)
  <2>1. /\ count' \in [Kind -> Nat]
        /\ server' \in [Request -> {"none", "subscribing", "listening", "done"}]
    BY <1>5, CountTyped DEF TakeSlot, TypeOK
  <2> QED BY <1>5, <2>1 DEF TakeSlot, TypeOK
<1>6. CASE TurnAway(r)
  <2>1. inbox' \in [Request -> Seq(Event)] /\ budget' \in 0..MaxFaults
    BY <1>2, <1>6, SpendTyped DEF TurnAway, TypeOK
  <2> QED BY <1>6, <2>1 DEF TurnAway, TypeOK, limiter
<1>7. CASE LoseSlot(r)
  <2>1. inbox' \in [Request -> Seq(Event)] /\ budget' \in 0..MaxFaults
    BY <1>2, <1>7, SpendTyped DEF LoseSlot, TypeOK
  <2>2. /\ count' \in [Kind -> Nat] /\ leaked' \in [Kind -> Nat]
        /\ server' \in [Request -> {"none", "subscribing", "listening", "done"}]
    BY <1>7, CountTyped DEF LoseSlot, TypeOK
  <2> QED BY <1>7, <2>1, <2>2 DEF LoseSlot, TypeOK
<1>8. CASE Listen(r)
  BY <1>8 DEF Listen, TypeOK, limiter
<1>9. CASE Release(r)
  <2>1. budget' \in 0..MaxFaults
    BY <1>9, SpendTyped DEF Release, TypeOK
  <2>2. /\ count' \in [Kind -> Nat] /\ leaked' \in [Kind -> Nat]
        /\ server' \in [Request -> {"none", "subscribing", "listening", "done"}]
    <3>1. count' = count \/ count' = [count EXCEPT ![kind[r]] = Decremented(@)]
      BY <1>9, Zenon DEF Release
    <3>2. leaked' = leaked \/ leaked' = [leaked EXCEPT ![kind[r]] = @ + 1]
      BY <1>9, Zenon DEF Release
    <3>3. count \in [Kind -> Nat] /\ leaked \in [Kind -> Nat]
      BY DEF TypeOK
    <3>4. server' \in [Request -> {"none", "subscribing", "listening", "done"}]
      BY <1>9 DEF Release, TypeOK
    <3>5. /\ [count EXCEPT ![kind[r]] = Decremented(@)] \in [Kind -> Nat]
          /\ [leaked EXCEPT ![kind[r]] = @ + 1] \in [Kind -> Nat]
      BY <3>3, CountTyped
    <3> QED BY <3>1, <3>2, <3>3, <3>4, <3>5, Zenon
  <2> QED BY <1>9, <2>1, <2>2 DEF Release, TypeOK
<1>10. CASE Break(r)
  <2>1. budget' \in 0..MaxFaults
    BY <1>10, SpendTyped DEF Break
  <2>2. inbox' \in [Request -> Seq(Event)]
    BY <1>0, <1>10 DEF Break, TypeOK, Event
  <2>3. /\ count' \in [Kind -> Nat]
        /\ server' \in [Request -> {"none", "subscribing", "listening", "done"}]
    BY <1>10, CountTyped DEF Break, TypeOK
  <2> QED BY <1>10, <2>1, <2>2, <2>3 DEF Break, TypeOK
<1> QED BY <1>3, <1>5, <1>6, <1>7, <1>8, <1>9, <1>10

LEMMA ReceiveTypes ==
    ASSUME TypeOK, NEW r \in Request, Receive(r)
    PROVE  TypeOK'
<1> USE DEF panel
<1>1. /\ inbox' \in [Request -> Seq(Event)]
      /\ client' \in [Request -> {"none", "open", "closed"}]
  <2>1. CASE ShowRunning(r)
    <3>1. inbox[r] \in Seq(Event) /\ inbox[r] # <<>>
      BY <2>1 DEF ShowRunning, Incoming, TypeOK
    <3>2. Tail(inbox[r]) \in Seq(Event)
      BY <3>1
    <3> QED BY <2>1, <3>2 DEF ShowRunning, TypeOK
  <2>2. CASE ShowResult(r) \/ ShowError(r)
    BY <2>2, CloseTyped DEF ShowResult, ShowError
  <2> QED BY <2>1, <2>2 DEF Receive
<1>2. /\ busy' \in BOOLEAN /\ status' \in Message /\ output' \in Message
      /\ draft' \in Text /\ cleared' \in BOOLEAN
  <2>1. \A e \in {"running", "result", "error"} : About(r, e) \in Message
    BY Typed
  <2>2. 0 \in Text
    BY ArenaAssumption DEF Text
  <2> QED BY <2>1, <2>2 DEF Receive, ShowRunning, ShowResult, ShowError, TypeOK
<1> QED BY <1>1, <1>2 DEF Receive, TypeOK, request, limiter

LEMMA TypesStep ==
    ASSUME TypeOK, [Next]_vars
    PROVE  TypeOK'
<1>1. CASE UNCHANGED vars
  BY <1>1 DEF vars, editor, panel, request, limiter, TypeOK
<1>2. ASSUME NEW k \in Kind, Expire(k) PROVE TypeOK'
  BY <1>2, SpendTyped DEF Expire, TypeOK, editor, panel, request
<1> QED BY <1>1, <1>2, EditorTypes, LeaveTypes, CallTypes, ServerTypes,
           ReceiveTypes DEF Next, Page, Exchange

LEMMA TypesStart == Init => TypeOK
<1> SUFFICES ASSUME Init PROVE TypeOK
  OBVIOUS
<1>1. 0 \in Text /\ <<>> \in Seq(Event)
  BY ArenaAssumption DEF Text
<1>2. /\ 0 \in 0..MaxVisits /\ 0 \in 0..MaxRequests /\ 0 \in Nat
      /\ MaxFaults \in 0..MaxFaults
  BY ArenaAssumption
<1>3. Blank \in Message
  BY Typed
<1> QED BY <1>1, <1>2, <1>3 DEF Init, TypeOK

\* Every variable keeps its type, for any visits, requests, caps and failures.
THEOREM TypeCorrect == Spec => []TypeOK
BY TypesStart, TypesStep, PTL DEF Spec

-----------------------------------------------------------------------------
(* What the stream cap counts. *)

\* A request is made before anything happens to it.
MadeFirst ==
    \A r \in Request : kind[r] = "none" =>
      call[r] = "none" /\ client[r] = "none" /\ server[r] = "none"

LEMMA MadeStep ==
    ASSUME TypeOK, MadeFirst, [Next]_vars
    PROVE  MadeFirst'
<1> USE DEF MadeFirst
<1>1. CASE UNCHANGED vars
  BY <1>1 DEF vars, request
<1>2. CASE SaveDraft \/ Type \/ TakeTemplate \/ Restore \/ Enter
  BY <1>2 DEF SaveDraft, Type, TakeTemplate, Restore, Enter, request
<1>3. CASE Leave
  BY <1>3, CloseTyped DEF Leave, request
<1>4. CASE CloseTab \/ SessionEnds
  <2>1. Unload
    BY <1>4 DEF CloseTab, SessionEnds
  <2>2. \A q \in Request : client[q] = "none" => client'[q] = "none"
    BY <2>1, CloseTyped DEF Unload
  <2>3. \A q \in Request : call[q] = "none" => call'[q] = "none"
    BY <2>1 DEF Unload
  <2> QED BY <2>1, <2>2, <2>3 DEF Unload, request
<1>5. ASSUME NEW r \in Request, NEW k \in Kind, Click(r, k) PROVE MadeFirst'
  <2>1. kind'[r] = k /\ k # "none" /\ \A q \in Request : q # r =>
                                         kind'[q] = kind[q] /\ call'[q] = call[q]
    BY <1>5 DEF Click, TypeOK, Kind
  <2>2. \A q \in Request : client[q] = "none" => client'[q] = "none"
    BY <1>5, CloseTyped DEF Click
  <2> QED BY <1>5, <2>1, <2>2 DEF Click
<1>6. ASSUME NEW r \in Request, Accept(r) \/ Answer(r) \/ Refuse(r)
      PROVE  MadeFirst'
  BY <1>6 DEF Accept, Answer, Refuse, request, TypeOK
<1>7. ASSUME NEW r \in Request,
             StartJob(r) \/ EndJob(r) \/ TakeSlot(r) \/ TurnAway(r) \/ LoseSlot(r)
      PROVE  MadeFirst'
  BY <1>7 DEF StartJob, EndJob, Publish, TakeSlot, TurnAway, LoseSlot, Arrived,
              request, TypeOK
<1>8. ASSUME NEW r \in Request, Listen(r) \/ Release(r) \/ Break(r)
      PROVE  MadeFirst'
  BY <1>8 DEF Listen, Release, Break, HoldsSlot, request, TypeOK
<1>9. ASSUME NEW r \in Request, Receive(r) PROVE MadeFirst'
  <2>1. \A q \in Request : client[q] = "none" => client'[q] = "none"
    BY <1>9, CloseTyped DEF Receive, ShowRunning, ShowResult, ShowError
  <2> QED BY <1>9, <2>1 DEF Receive, request
<1>10. ASSUME NEW k \in Kind, Expire(k) PROVE MadeFirst'
  BY <1>10 DEF Expire, request
<1> QED BY <1>1, <1>2, <1>3, <1>4, <1>5, <1>6, <1>7, <1>8, <1>9, <1>10
        DEF Next, Page, Exchange, Submit, RunCode, Kind

LEMMA HoldingCount ==
    ASSUME NEW k
    PROVE  IsFiniteSet(Holding(k)) /\ Cardinality(Holding(k)) \in Nat
<1>1. IsFiniteSet(Request)
  BY ArenaAssumption, FS_Interval DEF Request
<1>2. Holding(k) \subseteq Request
  BY DEF Holding
<1> QED BY <1>1, <1>2, FS_Subset, FS_CardinalityType

\* One more stream of its kind, one less, or as many.
LEMMA OneMore ==
    ASSUME TypeOK, NEW r \in Request, ~HoldsSlot(r), UNCHANGED kind,
           server' = [server EXCEPT ![r] = "subscribing"]
    PROVE  \A k : Cardinality(Holding(k)') =
                   Cardinality(Holding(k)) + (IF k = kind[r] THEN 1 ELSE 0)
<1> SUFFICES ASSUME NEW k
             PROVE  Cardinality(Holding(k)') =
                      Cardinality(Holding(k)) + (IF k = kind[r] THEN 1 ELSE 0)
  OBVIOUS
<1>1. Cardinality(Holding(k)) \in Nat /\ IsFiniteSet(Holding(k))
  BY HoldingCount
<1>2. CASE k = kind[r]
  <2>1. Holding(k)' = Holding(k) \cup {r} /\ r \notin Holding(k)
    BY <1>2 DEF Holding, HoldsSlot, TypeOK
  <2> QED BY <1>1, <1>2, <2>1, FS_AddElement
<1>3. CASE k # kind[r]
  <2>1. Holding(k)' = Holding(k)
    BY <1>3 DEF Holding, HoldsSlot, TypeOK
  <2> QED BY <1>1, <1>3, <2>1
<1> QED BY <1>2, <1>3

LEMMA OneLess ==
    ASSUME TypeOK, NEW r \in Request, HoldsSlot(r), UNCHANGED kind,
           server' = [server EXCEPT ![r] = "done"]
    PROVE  \A k : /\ Cardinality(Holding(k)') =
                        Cardinality(Holding(k)) - (IF k = kind[r] THEN 1 ELSE 0)
                  /\ k = kind[r] => Cardinality(Holding(k)) > 0
<1> SUFFICES ASSUME NEW k
             PROVE  /\ Cardinality(Holding(k)') =
                        Cardinality(Holding(k)) - (IF k = kind[r] THEN 1 ELSE 0)
                    /\ k = kind[r] => Cardinality(Holding(k)) > 0
  OBVIOUS
<1>1. Cardinality(Holding(k)) \in Nat /\ IsFiniteSet(Holding(k))
  BY HoldingCount
<1>2. CASE k = kind[r]
  <2>1. Holding(k)' = Holding(k) \ {r} /\ r \in Holding(k)
    BY <1>2 DEF Holding, HoldsSlot, TypeOK
  <2>2. Cardinality(Holding(k)) # 0
    BY <1>1, <2>1, FS_EmptySet
  <2>3. Cardinality(Holding(k) \ {r}) = Cardinality(Holding(k)) - 1
    BY <1>1, <2>1, FS_RemoveElement
  <2> HIDE DEF Holding
  <2>4. Cardinality(Holding(k)') = Cardinality(Holding(k)) - 1
    BY <2>1, <2>3
  <2> QED BY <1>1, <1>2, <2>2, <2>4
<1>3. CASE k # kind[r]
  <2>1. Holding(k)' = Holding(k)
    BY <1>3 DEF Holding, HoldsSlot, TypeOK
  <2> QED BY <1>1, <1>3, <2>1
<1> QED BY <1>2, <1>3

LEMMA AsMany ==
    ASSUME \A q \in Request : /\ HoldsSlot(q)' <=> HoldsSlot(q)
                              /\ HoldsSlot(q) => kind'[q] = kind[q]
    PROVE  \A k : Holding(k)' = Holding(k)
BY DEF Holding

\* A slot that is taken raises the counter, one that is given back lowers it.
SlotStep(k) ==
    /\ count[k] <= MaxStreams
    /\ count[k] <= Cardinality(Holding(k)) + leaked[k]
    /\ ~expired[k] => count[k] = Cardinality(Holding(k)) + leaked[k]

LEMMA SlotsOneByOne == SlotsAccounted <=> \A k \in Kind : SlotStep(k)
BY DEF SlotsAccounted, SlotStep

LEMMA Kinds ==
    ASSUME TypeOK, MadeFirst, NEW r \in Request,
           client[r] # "none" \/ server[r] # "none"
    PROVE  kind[r] \in Kind
BY DEF TypeOK, MadeFirst

\* What gives back a slot: the counter goes down, but not below zero.
LEMMA GiveBack ==
    ASSUME TypeOK, MadeFirst, SlotsAccounted, NEW r \in Request, HoldsSlot(r),
           server' = [server EXCEPT ![r] = "done"], UNCHANGED <<kind, expired>>,
           \/ /\ count' = [count EXCEPT ![kind[r]] = Decremented(@)]
              /\ UNCHANGED leaked
           \/ /\ leaked' = [leaked EXCEPT ![kind[r]] = @ + 1]
              /\ UNCHANGED count
    PROVE  SlotsAccounted'
<1> SUFFICES ASSUME NEW k \in Kind PROVE SlotStep(k)'
  BY SlotsOneByOne DEF SlotsAccounted, SlotStep
<1> DEFINE n == Cardinality(Holding(k))
<1> DEFINE m == Cardinality(Holding(k)')
<1>1. n \in Nat /\ m = n - (IF k = kind[r] THEN 1 ELSE 0) /\ (k = kind[r] => n > 0)
  BY OneLess, HoldingCount
<1>2. /\ count[k] <= MaxStreams /\ count[k] <= n + leaked[k]
      /\ ~expired[k] => count[k] = n + leaked[k]
      /\ count[k] \in Nat /\ leaked[k] \in Nat
  BY DEF SlotsAccounted, TypeOK
<1>3. \/ /\ count'[k] = IF k = kind[r] THEN Decremented(count[k]) ELSE count[k]
         /\ leaked'[k] = leaked[k]
      \/ /\ leaked'[k] = IF k = kind[r] THEN leaked[k] + 1 ELSE leaked[k]
         /\ count'[k] = count[k]
  BY DEF TypeOK
<1> HIDE DEF n, m
<1>4. /\ count'[k] <= MaxStreams /\ count'[k] <= m + leaked'[k]
      /\ ~expired[k] => count'[k] = m + leaked'[k]
  BY <1>1, <1>2, <1>3, ArenaAssumption DEF Decremented
<1> QED BY <1>4 DEF SlotStep, m

\* What takes a slot does so below the cap.
LEMMA TakeOne ==
    ASSUME TypeOK, MadeFirst, SlotsAccounted, NEW r \in Request,
           TakeSlot(r) \/ LoseSlot(r)
    PROVE  SlotsAccounted'
<1> SUFFICES ASSUME NEW k \in Kind PROVE SlotStep(k)'
  BY SlotsOneByOne DEF SlotsAccounted, SlotStep
<1> DEFINE n == Cardinality(Holding(k))
<1> DEFINE m == Cardinality(Holding(k)')
<1>1. server[r] = "none" /\ count[kind[r]] < MaxStreams /\ kind' = kind
      /\ expired' = expired /\ count' = [count EXCEPT ![kind[r]] = @ + 1]
  BY DEF TakeSlot, LoseSlot, Arrived, HasSlot, request
<1>2. /\ count[k] <= MaxStreams /\ count[k] <= n + leaked[k]
      /\ ~expired[k] => count[k] = n + leaked[k]
      /\ count[k] \in Nat /\ leaked[k] \in Nat /\ n \in Nat
  BY HoldingCount DEF SlotsAccounted, TypeOK
<1>3. count'[k] = IF k = kind[r] THEN count[k] + 1 ELSE count[k]
  BY <1>1 DEF TypeOK
<1>4. \/ m = n + (IF k = kind[r] THEN 1 ELSE 0) /\ leaked'[k] = leaked[k]
      \/ m = n /\ leaked'[k] = IF k = kind[r] THEN leaked[k] + 1 ELSE leaked[k]
  <2>1. CASE TakeSlot(r)
    <3>1. /\ server' = [server EXCEPT ![r] = "subscribing"] /\ leaked' = leaked
          /\ ~HoldsSlot(r)
      BY <1>1, <2>1 DEF TakeSlot, HoldsSlot
    <3> QED BY <1>1, <3>1, OneMore
  <2>2. CASE LoseSlot(r)
    <3>1. server' = [server EXCEPT ![r] = "done"]
          /\ leaked' = [leaked EXCEPT ![kind[r]] = @ + 1]
      BY <2>2 DEF LoseSlot
    <3>2. Holding(k)' = Holding(k)
      BY <1>1, <3>1 DEF Holding, HoldsSlot, TypeOK
    <3>3. m = n
      BY <3>2
    <3>4. leaked'[k] = IF k = kind[r] THEN leaked[k] + 1 ELSE leaked[k]
      BY <3>1 DEF TypeOK
    <3> QED BY <3>3, <3>4
  <2> QED BY <2>1, <2>2
<1> HIDE DEF n, m
<1>5. /\ count'[k] <= MaxStreams /\ count'[k] <= m + leaked'[k]
      /\ ~expired[k] => count'[k] = m + leaked'[k]
  BY <1>1, <1>2, <1>3, <1>4, ArenaAssumption
<1> QED BY <1>1, <1>5 DEF SlotStep, m

\* What touches no slot.
LEMMA NoSlot ==
    ASSUME SlotsAccounted, UNCHANGED <<count, leaked, expired>>,
           \A q \in Request : /\ HoldsSlot(q)' <=> HoldsSlot(q)
                              /\ HoldsSlot(q) => kind'[q] = kind[q]
    PROVE  SlotsAccounted'
<1>1. \A k : Holding(k)' = Holding(k)
  BY AsMany
<1>2. \A k : Cardinality(Holding(k)') = Cardinality(Holding(k))
  BY <1>1
<1> HIDE DEF Holding
<1> QED BY <1>2 DEF SlotsAccounted

LEMMA SlotsStep ==
    ASSUME TypeOK, MadeFirst, SlotsAccounted, [Next]_vars
    PROVE  SlotsAccounted'
<1>1. ASSUME UNCHANGED <<limiter, kind, server>> PROVE SlotsAccounted'
  BY <1>1, NoSlot DEF limiter, HoldsSlot
<1>2. CASE UNCHANGED vars
  BY <1>1, <1>2 DEF vars, request
<1>3. CASE Page
  BY <1>1, <1>3 DEF Page, SaveDraft, Type, TakeTemplate, Restore, Enter, Leave,
                    CloseTab, SessionEnds, Unload, request
<1>4. ASSUME NEW r \in Request, NEW k \in Kind, Click(r, k) PROVE SlotsAccounted'
  <2>1. kind[r] = "none" /\ kind' = [kind EXCEPT ![r] = k]
        /\ UNCHANGED <<server, count, leaked, expired>>
    BY <1>4 DEF Click, limiter
  <2>2. server[r] = "none"
    BY <2>1 DEF MadeFirst
  <2> QED BY <2>1, <2>2, NoSlot DEF HoldsSlot, TypeOK
<1>5. ASSUME NEW r \in Request,
             \/ Accept(r) \/ Answer(r) \/ Refuse(r) \/ StartJob(r)
             \/ EndJob(r) \/ Receive(r)
      PROVE  SlotsAccounted'
  BY <1>1, <1>5 DEF Accept, Answer, Refuse, StartJob, EndJob, Publish, Receive,
                    request
<1>6. ASSUME NEW r \in Request, TurnAway(r) \/ Listen(r) PROVE SlotsAccounted'
  <2>1. UNCHANGED <<kind, count, leaked, expired>>
    BY <1>6 DEF TurnAway, Listen, limiter, request
  <2>2. \/ /\ server[r] = "none"
           /\ server' = [server EXCEPT ![r] = "done"]
        \/ /\ server[r] = "subscribing"
           /\ server' = [server EXCEPT ![r] = "listening"]
    BY <1>6, Zenon DEF TurnAway, Listen, Arrived
  <2>3. \A q \in Request : HoldsSlot(q)' <=> HoldsSlot(q)
    BY <2>2 DEF HoldsSlot, TypeOK
  <2> QED BY <2>1, <2>3, NoSlot
<1>7. ASSUME NEW r \in Request, Release(r) \/ Break(r) PROVE SlotsAccounted'
  <2>1. /\ HoldsSlot(r) /\ server' = [server EXCEPT ![r] = "done"]
        /\ UNCHANGED <<kind, expired>>
    BY <1>7, Zenon DEF Release, Break, request
  <2>2. \/ /\ count' = [count EXCEPT ![kind[r]] = Decremented(@)]
           /\ UNCHANGED leaked
        \/ /\ leaked' = [leaked EXCEPT ![kind[r]] = @ + 1]
           /\ UNCHANGED count
    BY <1>7, Zenon DEF Release, Break
  <2> QED BY <2>1, <2>2, GiveBack
<1>8. ASSUME NEW k \in Kind, Expire(k) PROVE SlotsAccounted'
  <2>1. \A j : Holding(j)' = Holding(j)
    BY <1>8, AsMany DEF Expire, HoldsSlot, request
  <2>2. \A j : Cardinality(Holding(j)') = Cardinality(Holding(j))
                /\ Cardinality(Holding(j)) \in Nat
    BY <2>1, HoldingCount
  <2>3. \A j \in Kind : /\ j = k => count'[j] = 0 /\ leaked'[j] = 0 /\ expired'[j]
                        /\ j # k => count'[j] = count[j] /\ leaked'[j] = leaked[j]
                                   /\ expired'[j] = expired[j]
    BY <1>8 DEF Expire, TypeOK
  <2> HIDE DEF Holding
  <2> QED BY <2>2, <2>3, ArenaAssumption DEF SlotsAccounted
<1>9. ASSUME NEW r \in Request, TakeSlot(r) \/ LoseSlot(r) PROVE SlotsAccounted'
  BY <1>9, TakeOne
<1> QED BY <1>2, <1>3, <1>4, <1>5, <1>6, <1>7, <1>8, <1>9
        DEF Next, Exchange, Submit, RunCode, Kind

LEMMA SlotsStart == Init => MadeFirst /\ SlotsAccounted
<1> SUFFICES ASSUME Init PROVE MadeFirst /\ SlotsAccounted
  OBVIOUS
<1>1. \A k : Holding(k) = {}
  BY DEF Init, Holding, HoldsSlot
<1>2. \A k : Cardinality(Holding(k)) = 0
  BY <1>1, FS_EmptySet
<1> HIDE DEF Holding
<1> QED BY <1>2, ArenaAssumption DEF Init, MadeFirst, SlotsAccounted

\* The counter of the cap never exceeds the cap, and counts the streams
\* served and the slots lost, until it expires (sse_limiter.go).
THEOREM SlotsHold == Spec => []SlotsAccounted
<1>1. Spec => [](TypeOK /\ MadeFirst)
  BY TypesStart, TypesStep, SlotsStart, MadeStep, PTL DEF Spec
<1> QED BY <1>1, SlotsStart, SlotsStep, PTL DEF Spec

-----------------------------------------------------------------------------
(* Whose stream is open. *)

\* A request whose answer may still change the page.
Waits(r) == call[r] \in {"sent", "accepted"} \/ client[r] = "open"

\* Requests are made in order, each in a visit.
Owned ==
    /\ open => visit \in Visit
    /\ \A r \in Request :
         /\ kind[r] = "none" => owner[r] = 0
         /\ kind[r] # "none" => owner[r] \in Visit /\ owner[r] <= visit
         /\ \A q \in Request : q < r /\ kind[q] = "none" => kind[r] = "none"

\* A stream is opened when the POST is answered, and brings events while it
\* is open.
Answered ==
    \A r \in Request : /\ client[r] # "none" => call[r] = "done"
                       /\ inbox[r] # <<>> => client[r] = "open"

\* One request of a visit waits at a time, and the page is busy with it: the
\* latest one.
OneWaits ==
    \A r \in Request : Waits(r) =>
      /\ \A q \in Request : Waits(q) /\ owner[q] = owner[r] => q = r
      /\ Here(r) => busy /\ \A q \in Request : owner[q] = visit => q <= r

\* An open stream is the one its visit holds.
Held ==
    \A r \in Request : client[r] = "open" =>
      sse[owner[r]] = r /\ (~Here(r) => r \in late)

Awaited == TypeOK /\ MadeFirst /\ Owned /\ Answered /\ OneWaits /\ Held

\* A step that makes no request wait and opens no stream.
LEMMA Calm ==
    ASSUME Owned, Answered, OneWaits, Held,
           UNCHANGED <<open, visit, request, sse, late>>,
           \A q \in Request : /\ Waits(q)' => Waits(q)
                              /\ client'[q] = "open" => client[q] = "open"
                              /\ Waits(q)' /\ Here(q) => busy' = busy,
           Answered'
    PROVE  (Owned /\ Answered /\ OneWaits /\ Held)'
<1> USE DEF request
<1>1. Owned'
  BY DEF Owned
<1>2. OneWaits'
  BY DEF OneWaits, Here
<1>3. Held'
  BY DEF Held, Here
<1> QED BY <1>1, <1>2, <1>3

LEMMA EnterAwaited ==
    ASSUME Awaited, Enter
    PROVE  (Owned /\ Answered /\ OneWaits /\ Held)'
<1>1. /\ ~open /\ open' = TRUE /\ visit' = visit + 1 /\ visit' \in Visit
      /\ UNCHANGED <<busy, request, call, client, inbox, sse, late>>
  BY ArenaAssumption DEF Awaited, TypeOK, Enter, Visit, panel
<1>2. visit \in Nat /\ \A r \in Request : owner[r] <= visit /\ owner[r] \in Nat
  BY ArenaAssumption DEF Awaited, TypeOK, Owned, request
<1>3. \A r \in Request : owner'[r] # visit'
  BY <1>1, <1>2 DEF request
<1>4. Owned'
  BY <1>1, <1>2 DEF Owned, Awaited, request, Visit
<1>5. Answered'
  BY <1>1 DEF Answered, Awaited
<1>6. OneWaits'
  BY <1>1, <1>3 DEF OneWaits, Awaited, Here, Waits, request
<1>7. Held'
  BY <1>1, <1>3 DEF Held, Awaited, Here, request
<1> QED BY <1>4, <1>5, <1>6, <1>7

\* What a visit leaves behind was under way when it was left.
LEMMA LeaveAwaited ==
    ASSUME Awaited, Leave \/ CloseTab \/ SessionEnds
    PROVE  (Owned /\ Answered /\ OneWaits /\ Held)'
<1>1. open' = FALSE /\ UNCHANGED <<visit, request, sse, late>>
  BY DEF Leave, CloseTab, SessionEnds, Unload, Unmount
<1>2. /\ \A r \in Request : /\ client'[r] = "open" => client[r] = "open"
                            /\ client[r] # "none" <=> client'[r] # "none"
                            /\ inbox'[r] # <<>> => inbox[r] # <<>>
                            /\ client'[r] # "open" => inbox'[r] = <<>>
                            /\ call[r] = "done" => call'[r] = "done"
                            /\ Waits(r)' => Waits(r)
  <2> SUFFICES ASSUME NEW r \in Request
               PROVE  /\ client'[r] = "open" => client[r] = "open"
                      /\ client[r] # "none" <=> client'[r] # "none"
                      /\ inbox'[r] # <<>> => inbox[r] # <<>>
                      /\ client'[r] # "open" => inbox'[r] = <<>>
                      /\ call[r] = "done" => call'[r] = "done"
                      /\ Waits(r)' => Waits(r)
    OBVIOUS
  <2>1. CASE Leave
    BY <2>1, CloseTyped DEF Leave, Awaited, Waits, Answered
  <2>2. CASE Unload
    <3>1. /\ client'[r] # "open" /\ inbox'[r] = <<>>
          /\ client[r] # "none" <=> client'[r] # "none"
      BY <2>2, CloseTyped DEF Unload, Awaited
    <3>2. call'[r] = IF call[r] \in {"sent", "accepted"} THEN "done" ELSE call[r]
      BY <2>2 DEF Unload
    <3> QED BY <3>1, <3>2 DEF Waits
  <2>3. Leave \/ Unload
    BY DEF CloseTab, SessionEnds
  <2> QED BY <2>1, <2>2, <2>3
<1>3. \A r \in Request : client'[r] = "open" => r \in late'
  <2> SUFFICES ASSUME NEW r \in Request, client'[r] = "open" PROVE r \in late
    BY <1>1
  <2>1. client[r] = "open"
    BY <1>2
  <2>2. CASE Here(r)
    <3>1. sse[visit] = r
      BY <2>1, <2>2 DEF Awaited, Held, Here
    <3>2. client'[r] = "closed"
      BY <2>1, <3>1, CloseTyped
      DEF Leave, CloseTab, SessionEnds, Unload, Awaited
    <3> QED BY <3>2
  <2> QED BY <2>1, <2>2 DEF Awaited, Held
<1>4. Owned'
  BY <1>1 DEF Owned, Awaited, request
<1>5. Answered'
  BY <1>2 DEF Answered, Awaited
<1>6. OneWaits'
  BY <1>1, <1>2 DEF OneWaits, Awaited, Here, request
<1>7. Held'
  BY <1>1, <1>2, <1>3 DEF Held, Awaited, Here, request
<1> QED BY <1>4, <1>5, <1>6, <1>7

\* Nobody waits when a button is clicked.
LEMMA ClickAwaited ==
    ASSUME Awaited, NEW r \in Request, NEW k \in Kind, Click(r, k)
    PROVE  /\ (Owned /\ Answered /\ OneWaits /\ Held)'
           /\ Waits(r)' /\ Here(r)'
           /\ \A q \in Request : Waits(q)' /\ Here(q)' => q = r
           /\ \A q \in Request : kind[q] # "none" => q < r
<1>1. /\ open /\ ~busy /\ kind[r] = "none"
      /\ \A q \in Request : q < r => kind[q] # "none"
      /\ kind' = [kind EXCEPT ![r] = k] /\ owner' = [owner EXCEPT ![r] = visit]
      /\ call' = [call EXCEPT ![r] = "sent"] /\ busy' = TRUE
      /\ Close({sse[visit]})
      /\ UNCHANGED <<open, visit, sse, late>>
  BY DEF Click, CanClick
<1>2. k # "none" /\ visit \in Visit /\ visit \in Nat /\ Request \subseteq Nat
  BY <1>1, ArenaAssumption DEF Kind, Awaited, Owned, TypeOK, Request
<1>3. /\ kind'[r] = k /\ owner'[r] = visit /\ call'[r] = "sent"
      /\ \A q \in Request : q # r => /\ kind'[q] = kind[q] /\ owner'[q] = owner[q]
                                     /\ call'[q] = call[q]
  BY <1>1 DEF Awaited, TypeOK
<1>4. \A q \in Request : /\ client'[q] = "open" => client[q] = "open"
                         /\ client[q] = "none" => client'[q] = "none"
                         /\ client'[q] # "none" => client[q] # "none"
                         /\ inbox'[q] # <<>> => inbox[q] # <<>>
                         /\ client[q] = "open" /\ client'[q] # "open"
                              => inbox'[q] = <<>>
  BY <1>1, CloseTyped DEF Awaited
<1>5. /\ client[r] = "none" /\ owner[r] = 0 /\ inbox[r] = <<>>
      /\ \A q \in Request : /\ kind[q] # "none" => q < r
                            /\ owner[q] = visit => kind[q] # "none"
  BY <1>1, <1>2 DEF Awaited, MadeFirst, Owned, Answered, Visit
<1>6. \A q \in Request : Waits(q) => ~Here(q)
  BY <1>1 DEF Awaited, OneWaits
<1>7. \A q \in Request : q # r /\ Waits(q)' => Waits(q) /\ owner'[q] # visit
  BY <1>1, <1>3, <1>4, <1>6 DEF Waits, Here
<1>8. Owned'
  <2> SUFFICES ASSUME NEW q \in Request
               PROVE  /\ kind'[q] = "none" => owner'[q] = 0
                      /\ kind'[q] # "none" => owner'[q] \in Visit /\ owner'[q] <= visit
                      /\ \A p \in Request : p < q /\ kind'[p] = "none"
                                               => kind'[q] = "none"
    BY <1>1, <1>2 DEF Owned
  <2>1. CASE q = r
    BY <1>1, <1>2, <1>3, <2>1
  <2>2. CASE q # r
    BY <1>1, <1>2, <1>3, <2>2 DEF Awaited, Owned
  <2> QED BY <2>1, <2>2
<1>9. Answered'
  BY <1>3, <1>4, <1>5 DEF Awaited, Answered
<1>10. Waits(r)' /\ Here(r)'
  BY <1>1, <1>3 DEF Waits, Here
<1>11. OneWaits'
  <2> SUFFICES ASSUME NEW q \in Request, Waits(q)'
               PROVE  /\ \A p \in Request : Waits(p)' /\ owner'[p] = owner'[q] => p = q
                      /\ Here(q)' => busy' /\ \A p \in Request : owner'[p] = visit'
                                                                  => p <= q
    BY DEF OneWaits
  <2>1. CASE q = r
    <3>1. \A p \in Request : Waits(p)' /\ owner'[p] = owner'[q] => p = q
      BY <2>1, <1>3, <1>7
    <3>2. \A p \in Request : owner'[p] = visit' => p <= q
      BY <2>1, <1>1, <1>2, <1>3, <1>5
    <3> QED BY <3>1, <3>2, <1>1
  <2>2. CASE q # r
    <3>1. Waits(q) /\ owner'[q] = owner[q] /\ ~Here(q)'
      BY <2>2, <1>1, <1>3, <1>7 DEF Here
    <3>2. \A p \in Request : Waits(p)' /\ owner'[p] = owner'[q] => p = q
      BY <2>2, <3>1, <1>3, <1>7 DEF Awaited, OneWaits
    <3> QED BY <3>1, <3>2
  <2> QED BY <2>1, <2>2
<1>12. Held'
  <2> SUFFICES ASSUME NEW q \in Request, client'[q] = "open"
               PROVE  sse'[owner'[q]] = q /\ (~Here(q)' => q \in late')
    BY DEF Held
  <2>1. client[q] = "open" /\ q # r
    BY <1>4, <1>5
  <2> QED BY <2>1, <1>1, <1>3 DEF Awaited, Held, Here
<1>13. \A q \in Request : Waits(q)' /\ Here(q)' => q = r
  BY <1>1, <1>7 DEF Here
<1> QED BY <1>5, <1>8, <1>9, <1>10, <1>11, <1>12, <1>13

\* The stream that is opened is the only one of its visit.
LEMMA AnswerAwaited ==
    ASSUME Awaited, NEW r \in Request, Answer(r)
    PROVE  (Owned /\ Answered /\ OneWaits /\ Held)'
<1>1. /\ call[r] = "accepted" /\ call' = [call EXCEPT ![r] = "done"]
      /\ sse' = [sse EXCEPT ![owner[r]] = r]
      /\ client' = [client EXCEPT ![r] = "open"]
      /\ late' = IF Here(r) THEN late ELSE late \cup {r}
      /\ UNCHANGED <<open, visit, busy, kind, owner, inbox>>
  BY DEF Answer, panel, request
<1>2. Waits(r) /\ kind[r] # "none" /\ owner[r] \in Visit /\ inbox[r] = <<>>
  BY <1>1 DEF Waits, Awaited, MadeFirst, Owned, Answered
<1>3. /\ call'[r] = "done" /\ client'[r] = "open" /\ sse'[owner[r]] = r
      /\ \A q \in Request : q # r => call'[q] = call[q] /\ client'[q] = client[q]
      /\ \A v \in Visit : v # owner[r] => sse'[v] = sse[v]
  BY <1>1, <1>2 DEF Awaited, TypeOK
<1>4. \A q \in Request : Waits(q)' => Waits(q)
  BY <1>2, <1>3 DEF Waits
<1>5. Owned'
  BY <1>1 DEF Owned, Awaited
<1>6. Answered'
  BY <1>1, <1>2, <1>3 DEF Answered, Awaited
<1>7. OneWaits'
  BY <1>1, <1>4 DEF OneWaits, Awaited, Here
<1>8. Held'
  <2> SUFFICES ASSUME NEW q \in Request, client'[q] = "open"
               PROVE  sse'[owner'[q]] = q /\ (~Here(q)' => q \in late')
    BY DEF Held
  <2>1. CASE q = r
    BY <1>1, <1>3, <2>1 DEF Here
  <2>2. CASE q # r
    <3>1. client[q] = "open" /\ Waits(q)
      BY <1>3, <2>2 DEF Waits
    <3>2. owner[q] # owner[r] /\ kind[q] # "none" /\ owner[q] \in Visit
      BY <1>2, <2>2, <3>1 DEF Awaited, OneWaits, MadeFirst, Owned
    <3> QED BY <1>1, <1>3, <3>1, <3>2 DEF Awaited, Held, Here
  <2> QED BY <2>1, <2>2
<1> QED BY <1>5, <1>6, <1>7, <1>8

\* The page is no longer busy when the request it waited for has ended.
LEMMA EndsWait ==
    ASSUME Awaited, NEW r \in Request, Refuse(r) \/ Receive(r)
    PROVE  (Owned /\ Answered /\ OneWaits /\ Held)'
<1> USE DEF panel
<1>1. CASE Refuse(r)
  <2>1. /\ call[r] \in {"sent", "accepted"} /\ call' = [call EXCEPT ![r] = "done"]
        /\ UNCHANGED <<open, visit, request, sse, late, client, inbox>>
        /\ ~Here(r) => busy' = busy
    BY <1>1 DEF Refuse
  <2>2. Waits(r) /\ client[r] = "none"
    BY <2>1 DEF Waits, Awaited, Answered
  <2>3. call'[r] = "done" /\ \A q \in Request : q # r => call'[q] = call[q]
    BY <2>1 DEF Awaited, TypeOK
  <2>4. ~Waits(r)' /\ \A q \in Request : Waits(q)' => Waits(q)
    BY <2>1, <2>2, <2>3 DEF Waits
  <2>5. \A q \in Request : Waits(q)' /\ Here(q) => busy' = busy
    BY <2>1, <2>2, <2>4 DEF Awaited, OneWaits, Here
  <2>6. Answered'
    BY <2>1, <2>3 DEF Awaited, Answered
  <2> QED BY <2>1, <2>4, <2>5, <2>6, Calm DEF Awaited
<1>2. CASE Receive(r)
  <2>1. client[r] = "open" /\ UNCHANGED <<open, visit, request, sse, late, call>>
    BY <1>2 DEF Receive
  <2>2. Waits(r) /\ sse[owner[r]] = r /\ call[r] = "done"
    BY <2>1 DEF Waits, Awaited, Held, Answered
  <2>3. CASE ShowRunning(r)
    <3>1. UNCHANGED <<client, busy>> /\ inbox' = [inbox EXCEPT ![r] = Tail(@)]
      BY <2>3, Zenon DEF ShowRunning
    <3>2. \A q \in Request : q # r => inbox'[q] = inbox[q]
      BY <3>1 DEF Awaited, TypeOK
    <3>3. Answered'
      BY <2>1, <3>1, <3>2 DEF Awaited, Answered
    <3> QED BY <2>1, <3>1, <3>3, Calm DEF Awaited, Waits
  <2>4. CASE ShowResult(r) \/ ShowError(r)
    <3>1. Close({r}) /\ (~Here(r) => busy' = busy)
      BY <2>2, <2>4 DEF ShowResult, ShowError
    <3>2. /\ client'[r] = "closed" /\ inbox'[r] = <<>>
          /\ \A q \in Request : q # r => client'[q] = client[q]
                                        /\ inbox'[q] = inbox[q]
      BY <2>1, <3>1, CloseTyped DEF Awaited
    <3>3. ~Waits(r)' /\ \A q \in Request : Waits(q)' => Waits(q)
      BY <2>1, <2>2, <3>2 DEF Waits
    <3>4. \A q \in Request : Waits(q)' /\ Here(q) => busy' = busy
      BY <2>2, <3>1, <3>3 DEF Awaited, OneWaits, Here
    <3>5. Answered'
      BY <2>1, <2>2, <3>2 DEF Awaited, Answered
    <3>6. \A q \in Request : client'[q] = "open" => client[q] = "open"
      BY <3>2
    <3> QED BY <2>1, <3>3, <3>4, <3>5, <3>6, Calm DEF Awaited
  <2> QED BY <1>2, <2>3, <2>4 DEF Receive
<1> QED BY <1>1, <1>2

\* Events come to open streams only.
LEMMA ServesAwaited ==
    ASSUME Awaited, NEW r \in Request,
           \/ Accept(r) \/ StartJob(r) \/ EndJob(r) \/ TakeSlot(r) \/ TurnAway(r)
           \/ LoseSlot(r) \/ Listen(r) \/ Release(r) \/ Break(r)
    PROVE  (Owned /\ Answered /\ OneWaits /\ Held)'
<1>1. UNCHANGED <<open, visit, busy, request, sse, late, client>>
  <2>1. CASE Accept(r) \/ StartJob(r) \/ EndJob(r)
    BY <2>1 DEF Accept, StartJob, EndJob, Publish, panel
  <2>2. CASE TakeSlot(r) \/ TurnAway(r) \/ LoseSlot(r) \/ Listen(r)
    BY <2>2 DEF TakeSlot, TurnAway, LoseSlot, Listen, panel
  <2>3. CASE Release(r) \/ Break(r)
    BY <2>3 DEF Release, Break, panel
  <2> QED BY <2>1, <2>2, <2>3
<1>2. call' = call \/ (call[r] = "sent" /\ call' = [call EXCEPT ![r] = "accepted"])
  <2>1. CASE Accept(r)
    BY <2>1 DEF Accept
  <2>2. CASE StartJob(r) \/ EndJob(r) \/ TakeSlot(r) \/ TurnAway(r)
    BY <2>2 DEF StartJob, EndJob, Publish, TakeSlot, TurnAway
  <2>3. CASE LoseSlot(r) \/ Listen(r) \/ Release(r) \/ Break(r)
    BY <2>3 DEF LoseSlot, Listen, Release, Break
  <2> QED BY <2>1, <2>2, <2>3
<1>3. \A q \in Request : /\ Waits(q)' => Waits(q)
                         /\ call[q] = "done" => call'[q] = "done"
  BY <1>1, <1>2 DEF Waits, Awaited, TypeOK
<1>4. inbox' = inbox \/ \E e : client[r] = "open"
                                /\ inbox' = [inbox EXCEPT ![r] = Append(@, e)]
  <2>1. CASE Accept(r) \/ TakeSlot(r) \/ Listen(r) \/ Release(r)
    BY <2>1 DEF Accept, TakeSlot, Listen, Release
  <2>2. CASE StartJob(r) \/ EndJob(r)
    BY <2>2, Zenon DEF StartJob, EndJob, Publish
  <2>3. CASE TurnAway(r) \/ LoseSlot(r)
    BY <2>3, Zenon DEF TurnAway, LoseSlot, SendError
  <2>4. CASE Break(r)
    BY <2>4, Zenon DEF Break
  <2> QED BY <2>1, <2>2, <2>3, <2>4
<1>5. \A q \in Request : inbox'[q] # <<>> => inbox[q] # <<>> \/ client[q] = "open"
  BY <1>4 DEF Awaited, TypeOK
<1>6. Answered'
  BY <1>1, <1>3, <1>5 DEF Awaited, Answered
<1> QED BY <1>1, <1>3, <1>6, Calm DEF Awaited

LEMMA AwaitedStep ==
    ASSUME Awaited, [Next]_vars
    PROVE  Awaited'
<1>1. TypeOK' /\ MadeFirst'
  BY TypesStep, MadeStep DEF Awaited
<1>2. ASSUME UNCHANGED <<open, visit, request, sse, late, client, call, busy, inbox>>
      PROVE  (Owned /\ Answered /\ OneWaits /\ Held)'
  <2>1. Answered'
    BY <1>2 DEF Awaited, Answered
  <2>2. \A q \in Request : Waits(q)' <=> Waits(q)
    BY <1>2 DEF Waits
  <2> QED BY <1>2, <2>1, <2>2, Calm DEF Awaited
<1>3. CASE UNCHANGED vars \/ SaveDraft \/ Type \/ TakeTemplate \/ Restore
  BY <1>1, <1>2, <1>3 DEF vars, panel, SaveDraft, Type, TakeTemplate, Restore,
                          Awaited
<1>4. ASSUME NEW k \in Kind, Expire(k) PROVE Awaited'
  BY <1>1, <1>2, <1>4 DEF Expire, panel, Awaited
<1> QED BY <1>1, <1>3, <1>4, EnterAwaited, LeaveAwaited, ClickAwaited,
           AnswerAwaited, EndsWait, ServesAwaited
        DEF Awaited, Next, Page, Exchange, Submit, RunCode, Kind

LEMMA AwaitedStart == Init => Awaited
BY TypesStart, SlotsStart
DEF Init, Awaited, Owned, Answered, OneWaits, Held, Waits, Request

LEMMA AlwaysAwaited == Spec => []Awaited
BY AwaitedStart, AwaitedStep, PTL DEF Spec

\* An open stream is the latest of its visit and the page waits for it; one
\* that is open without its page was opened late (useExecutionEngine.js:41).
THEOREM StreamsFollow == Spec => []StreamsFollowPage
<1>1. Awaited => StreamsFollowPage
  BY DEF Awaited, OneWaits, Held, Waits, StreamsFollowPage
<1> QED BY <1>1, AlwaysAwaited, PTL

-----------------------------------------------------------------------------
(* What becomes of the draft. *)

LEMMA RestStep ==
    ASSUME AtRestIsSaved, [Next]_vars
    PROVE  AtRestIsSaved'
<1> USE DEF AtRestIsSaved
<1>1. ASSUME UNCHANGED <<open, timer, code, draft, cleared>> PROVE AtRestIsSaved'
  BY <1>1
<1>2. CASE UNCHANGED vars
  BY <1>1, <1>2 DEF vars, editor
<1>3. CASE SaveDraft
  BY <1>3 DEF SaveDraft
<1>4. CASE Type \/ TakeTemplate \/ Restore \/ Enter
  <2>1. PICK c : Put(c)
    BY <1>4, Zenon DEF Type, TakeTemplate, Restore, Enter
  <2> QED BY <2>1 DEF Put, Arms
<1>5. CASE Leave \/ CloseTab \/ SessionEnds
  BY <1>5 DEF Leave, CloseTab, SessionEnds, Unload, Unmount
<1>6. ASSUME NEW r \in Request, Receive(r) PROVE AtRestIsSaved'
  <2>1. UNCHANGED <<open, timer, code>>
    BY <1>6 DEF Receive
  <2>2. UNCHANGED <<draft, cleared>> \/ cleared' = TRUE
    BY <1>6, Zenon DEF Receive, ShowRunning, ShowResult, ShowError
  <2> QED BY <2>1, <2>2
<1>7. ASSUME NEW r \in Request, NEW k \in Kind, Click(r, k) PROVE AtRestIsSaved'
  BY <1>1, <1>7 DEF Click
<1>8. ASSUME NEW r \in Request,
             \/ Accept(r) \/ Answer(r) \/ Refuse(r) \/ StartJob(r) \/ EndJob(r)
      PROVE  AtRestIsSaved'
  BY <1>1, <1>8 DEF Accept, Answer, Refuse, StartJob, EndJob, Publish, editor
<1>9. ASSUME NEW r \in Request,
             \/ TakeSlot(r) \/ TurnAway(r) \/ LoseSlot(r) \/ Listen(r)
      PROVE  AtRestIsSaved'
  BY <1>1, <1>9 DEF TakeSlot, TurnAway, LoseSlot, Listen, editor
<1>10. ASSUME NEW r \in Request, Release(r) \/ Break(r) PROVE AtRestIsSaved'
  BY <1>1, <1>10 DEF Release, Break, editor
<1>11. ASSUME NEW k \in Kind, Expire(k) PROVE AtRestIsSaved'
  BY <1>1, <1>11 DEF Expire, editor
<1> QED BY <1>2, <1>3, <1>4, <1>5, <1>6, <1>7, <1>8, <1>9, <1>10, <1>11
        DEF Next, Page, Exchange, Submit, RunCode, Kind

\* A text the timer has gone off for is the saved draft, unless an accepted
\* submission has removed it since (useExecutionEngine.js:75).
THEOREM RestIsSaved == Spec => []AtRestIsSaved
<1>1. Init => AtRestIsSaved
  BY DEF Init, AtRestIsSaved
<1> QED BY <1>1, RestStep, PTL DEF Spec

\* While a request waits, the texts are those it was clicked with, unless one
\* is restored; a draft is one of the texts.
TextsKept ==
    /\ draft <= edits /\ code.edit <= edits
    /\ ~restored => \A r \in Request : Waits(r) /\ Here(r) => text[r] = edits

LEMMA KeptCalm ==
    ASSUME Awaited, TextsKept, UNCHANGED <<edits, text, owner, restored>>,
           draft' = draft \/ draft' = 0 \/ draft' = code.edit,
           code' = code \/ code'.edit = 0,
           \A r \in Request : Waits(r)' /\ Here(r)' => Waits(r) /\ Here(r)
    PROVE  TextsKept'
<1>1. /\ edits \in Nat /\ draft <= edits /\ code.edit <= edits
  BY ArenaAssumption DEF Awaited, TypeOK, Text, TextsKept
<1>2. draft' <= edits' /\ code'.edit <= edits'
  BY <1>1
<1> QED BY <1>2 DEF TextsKept

LEMMA KeptStep ==
    ASSUME Awaited, TextsKept, [Next]_vars
    PROVE  TextsKept'
<1>0. edits \in Nat /\ draft \in Nat /\ code.edit \in Nat /\ draft <= edits
      /\ code.edit <= edits
  BY ArenaAssumption DEF Awaited, TypeOK, Text, TextsKept
<1>1. ASSUME UNCHANGED <<open, visit, edits, text, owner, restored, code, draft,
                         call, client>>
      PROVE  TextsKept'
  <2>1. \A r \in Request : Waits(r)' /\ Here(r)' => Waits(r) /\ Here(r)
    BY <1>1 DEF Waits, Here
  <2> QED BY <1>1, <2>1, KeptCalm
<1>2. CASE UNCHANGED vars
  BY <1>1, <1>2 DEF vars, editor, request
<1>3. CASE SaveDraft
  <2>1. \A r \in Request : Waits(r)' /\ Here(r)' => Waits(r) /\ Here(r)
    BY <1>3 DEF SaveDraft, Waits, Here, request
  <2> QED BY <1>3, <2>1, KeptCalm DEF SaveDraft, request
<1>4. CASE TakeTemplate
  <2>1. \A r \in Request : Waits(r)' /\ Here(r)' => Waits(r) /\ Here(r)
    BY <1>4 DEF TakeTemplate, Waits, Here, request
  <2> QED BY <1>4, <2>1, KeptCalm DEF TakeTemplate, Put, request
<1>5. CASE Type
  <2>1. /\ edits' = edits + 1 /\ code'.edit = edits + 1
        /\ UNCHANGED <<draft, open, visit, owner, call, client>> /\ open /\ ~busy
    BY <1>5 DEF Type, CanType, Put, request
  <2>2. \A r \in Request : ~(Waits(r)' /\ Here(r)')
    BY <2>1 DEF Waits, Here, Awaited, OneWaits
  <2>3. draft' <= edits' /\ code'.edit <= edits'
    BY <1>0, <2>1
  <2> QED BY <2>2, <2>3 DEF TextsKept
<1>6. CASE Restore
  <2>1. /\ edits' = edits + 1 /\ code'.edit = edits + 1 /\ open
        /\ UNCHANGED <<draft, open, visit, owner, call, client>>
        /\ restored' = (restored \/ busy)
    BY <1>6 DEF Restore, Put, request
  <2>2. ~restored' => \A r \in Request : ~(Waits(r)' /\ Here(r)')
    BY <2>1 DEF Waits, Here, Awaited, OneWaits
  <2>3. draft' <= edits' /\ code'.edit <= edits'
    BY <1>0, <2>1
  <2> QED BY <2>2, <2>3 DEF TextsKept
<1>7. CASE Enter
  <2>1. /\ visit' = visit + 1 /\ UNCHANGED <<draft, edits, owner>>
        /\ (code'.edit = draft \/ code'.edit = 0)
    BY <1>7 DEF Enter, Put, request
  <2>2. \A r \in Request : owner[r] # visit'
    <3>1. visit \in Nat /\ visit' = visit + 1
      BY <2>1, ArenaAssumption DEF Awaited, TypeOK
    <3>2. \A r \in Request : owner[r] \in Nat /\ owner[r] <= visit
      BY <3>1, ArenaAssumption DEF Awaited, Owned, TypeOK
    <3> QED BY <3>1, <3>2
  <2>3. \A r \in Request : ~Here(r)'
    BY <2>1, <2>2 DEF Here
  <2>4. draft' <= edits' /\ code'.edit <= edits'
    BY <1>0, <2>1
  <2> QED BY <2>3, <2>4 DEF TextsKept
<1>8. CASE Leave \/ CloseTab \/ SessionEnds
  <2>1. /\ open' = FALSE /\ code'.edit = 0 /\ edits' = edits
        /\ (draft' = draft \/ draft' = 0)
    BY <1>8 DEF Leave, CloseTab, SessionEnds, Unload, Unmount
  <2>2. draft' <= edits' /\ code'.edit <= edits'
    BY <1>0, <2>1
  <2> QED BY <2>1, <2>2 DEF TextsKept, Here
<1>9. ASSUME NEW r \in Request, NEW k \in Kind, Click(r, k) PROVE TextsKept'
  <2>1. \A q \in Request : Waits(q)' /\ Here(q)' => q = r
    BY <1>9, ClickAwaited
  <2>2. text'[r] = edits /\ UNCHANGED <<edits, code, draft>>
    BY <1>9 DEF Click, Awaited, TypeOK
  <2> QED BY <1>0, <2>1, <2>2 DEF TextsKept
<1>10. ASSUME NEW r \in Request, Answer(r) PROVE TextsKept'
  <2>1. /\ UNCHANGED <<open, visit, edits, text, owner, restored, code, draft>>
        /\ call[r] = "accepted" /\ call' = [call EXCEPT ![r] = "done"]
        /\ client' = [client EXCEPT ![r] = "open"]
    BY <1>10 DEF Answer, editor, request
  <2>2. \A q \in Request : Waits(q)' /\ Here(q)' => Waits(q) /\ Here(q)
    BY <2>1 DEF Waits, Here, Awaited, TypeOK
  <2> QED BY <2>1, <2>2, KeptCalm
<1>11. ASSUME NEW r \in Request, Accept(r) \/ Refuse(r) PROVE TextsKept'
  <2>1. /\ UNCHANGED <<open, visit, edits, text, owner, restored, code, draft,
                       client>>
        /\ call[r] \in {"sent", "accepted"}
        /\ (call' = [call EXCEPT ![r] = "done"]
             \/ call' = [call EXCEPT ![r] = "accepted"])
    BY <1>11 DEF Accept, Refuse, editor, request
  <2>2. \A q \in Request : Waits(q)' /\ Here(q)' => Waits(q) /\ Here(q)
    BY <2>1 DEF Waits, Here, Awaited, TypeOK
  <2> QED BY <2>1, <2>2, KeptCalm
<1>12. ASSUME NEW r \in Request, Receive(r) PROVE TextsKept'
  <2>1. UNCHANGED <<open, visit, edits, text, owner, restored, code, call>>
    BY <1>12 DEF Receive, request
  <2>2. draft' = draft \/ draft' = 0
    BY <1>12, Zenon DEF Receive, ShowRunning, ShowResult, ShowError
  <2>3. \A q \in Request : client'[q] = "open" => client[q] = "open"
    BY <1>12, CloseTyped DEF Receive, ShowRunning, ShowResult, ShowError, Awaited
  <2>4. \A q \in Request : Waits(q)' /\ Here(q)' => Waits(q) /\ Here(q)
    BY <2>1, <2>3 DEF Waits, Here
  <2> QED BY <2>1, <2>2, <2>4, KeptCalm
<1>13. ASSUME NEW r \in Request, StartJob(r) \/ EndJob(r) \/ TakeSlot(r)
       PROVE  TextsKept'
  BY <1>1, <1>13 DEF StartJob, EndJob, Publish, TakeSlot, editor, request
<1>14. ASSUME NEW r \in Request, TurnAway(r) \/ LoseSlot(r) \/ Listen(r)
       PROVE  TextsKept'
  BY <1>1, <1>14 DEF TurnAway, LoseSlot, Listen, editor, request
<1>15. ASSUME NEW r \in Request, Release(r) \/ Break(r) PROVE TextsKept'
  BY <1>1, <1>15 DEF Release, Break, editor, request
<1>16. ASSUME NEW k \in Kind, Expire(k) PROVE TextsKept'
  BY <1>1, <1>16 DEF Expire, editor, request
<1> QED BY <1>2, <1>3, <1>4, <1>5, <1>6, <1>7, <1>8, <1>9, <1>10, <1>11, <1>12,
           <1>13, <1>14, <1>15, <1>16
        DEF Next, Page, Exchange, Submit, RunCode, Kind

\* An accepted submission removes no draft written after its click, as long as
\* its page is there and nothing was restored (useExecutionEngine.js:139).
THEOREM DraftSurvives == Spec => NewerDraftSurvives
<1>1. Init => TextsKept
  BY AwaitedStart, ArenaAssumption DEF Init, TextsKept, Waits, Request
<1>2. Spec => []TextsKept
  BY <1>1, KeptStep, AlwaysAwaited, PTL DEF Spec
<1>3. ASSUME Awaited, TextsKept, NEW r \in Request, Incoming(r) = "AC", Here(r),
             ~restored
      PROVE  draft <= text[r]
  <2>1. inbox[r] # <<>>
    BY <1>3 DEF Incoming
  <2>2. Waits(r)
    BY <1>3, <2>1 DEF Awaited, Answered, Waits
  <2> QED BY <1>3, <2>2 DEF TextsKept
<1>4. Awaited /\ TextsKept =>
        [\A r \in Request :
           Incoming(r) = "AC" /\ ShowResult(r) /\ Here(r) /\ ~restored
             => draft <= text[r]]_vars
  BY <1>3
<1> QED BY <1>2, <1>4, AlwaysAwaited, PTL DEF NewerDraftSurvives

-----------------------------------------------------------------------------
(* What the page shows. *)

LEMMA LatestIs ==
    ASSUME NEW k, NEW r \in Mine(k), \A q \in Mine(k) : q <= r
    PROVE  Latest(k) = r
<1>1. \A p \in Mine(k) : (\A q \in Mine(k) : q <= p) => p = r
  BY Typed DEF Mine
<1> QED BY <1>1 DEF Latest

LEMMA SameLatest ==
    ASSUME NEW k, Mine(k)' = Mine(k)
    PROVE  Latest(k)' = Latest(k)
BY DEF Latest

\* The request the page waits for is the latest of its kind, and of all.
LEMMA WaitsIsLatest ==
    ASSUME Awaited, NEW r \in Request, Waits(r), Here(r)
    PROVE  /\ Latest(kind[r]) = r /\ kind[r] \in Kind /\ open
           /\ \A q \in Request : Waits(q) /\ Here(q) => q = r
<1>1. owner[r] = visit /\ open /\ kind[r] \in Kind
  BY DEF Here, Awaited, MadeFirst, TypeOK, Waits
<1>2. \A q \in Request : owner[q] = visit => q <= r
  BY DEF Awaited, OneWaits
<1>3. Latest(kind[r]) = r
  BY <1>1, <1>2, LatestIs DEF Mine
<1> QED BY <1>1, <1>3 DEF Awaited, OneWaits, Here

\* Among the requests of a kind made in the present visit one is the latest.
HasLatest(k) ==
    Mine(k) # {} => \E r \in Mine(k) : \A q \in Mine(k) : q <= r

Shown ==
    /\ ShownIsLatest
    /\ ~open => status.says = "nothing" /\ output.says = "nothing" /\ ~busy
    /\ \A k \in Kind : HasLatest(k)

\* A step that shows nothing new.
LEMMA ShownAsBefore ==
    ASSUME Shown, UNCHANGED <<open, visit, panel, kind, owner>>
    PROVE  Shown'
<1>1. \A k : Mine(k)' = Mine(k)
  BY DEF Mine
<1>2. \A k : Latest(k)' = Latest(k) /\ (HasLatest(k)' <=> HasLatest(k))
  BY <1>1, SameLatest DEF HasLatest
<1> QED BY <1>2 DEF Shown, ShownIsLatest, panel

\* A step that speaks of the request the page waits for.
LEMMA ShownOf ==
    ASSUME Awaited, Shown, NEW r \in Request, Waits(r), Here(r),
           UNCHANGED <<open, visit, kind, owner>>,
           status' = status \/ (status'.of = r /\ kind[r] = "submit"),
           \/ output' = output
           \/ output'.of = r /\ kind[r] = "run"
           \/ output'.says \notin {"waiting", "running"} /\ ~busy',
           busy' => busy
    PROVE  Shown'
<1>1. \A k : Mine(k)' = Mine(k)
  BY DEF Mine
<1>2. \A k : Latest(k)' = Latest(k) /\ (HasLatest(k)' <=> HasLatest(k))
  BY <1>1, SameLatest DEF HasLatest
<1>3. Latest(kind[r]) = r /\ open
  BY WaitsIsLatest
<1>4. status'.says # "nothing" => status'.of = Latest("submit")
  BY <1>3 DEF Shown, ShownIsLatest
<1>5. output'.says \in {"waiting", "running"}
        \/ (busy' /\ Latest("run") > Latest("submit"))
      => output'.of = Latest("run")
  BY <1>3 DEF Shown, ShownIsLatest
<1> QED BY <1>2, <1>3, <1>4, <1>5 DEF Shown, ShownIsLatest

LEMMA ShownClick ==
    ASSUME Awaited, Shown, NEW r \in Request, NEW k \in Kind, Click(r, k)
    PROVE  Shown'
<1>1. /\ kind'[r] = k /\ owner'[r] = visit /\ kind[r] = "none"
      /\ \A q \in Request : q # r => kind'[q] = kind[q] /\ owner'[q] = owner[q]
      /\ open' /\ visit' = visit
  BY DEF Click, CanClick, Awaited, TypeOK
<1>2. \A q \in Request : kind[q] # "none" => q < r
  BY ClickAwaited
<1>3. /\ Request \subseteq Nat /\ r \in Nat /\ r > 0
      /\ k \in {"submit", "run"} /\ "none" \notin Kind
  BY Typed DEF Kind
<1>4. Mine(k)' = Mine(k) \cup {r} /\ \A q \in Mine(k) : q < r /\ q \in Nat
  BY <1>1, <1>2, <1>3 DEF Mine
<1>5. \A j \in Kind \ {k} : Mine(j)' = Mine(j)
  BY <1>1, <1>3 DEF Mine
<1>6. r \in Mine(k)' /\ \A q \in Mine(k)' : q <= r
  BY <1>3, <1>4
<1>7. Latest(k)' = r
  <2>1. \A p \in Mine(k)' : (\A q \in Mine(k)' : q <= p) => p = r
    BY <1>3, <1>4, <1>6
  <2> QED BY <1>6, <2>1 DEF Latest
<1>8. \A j \in Kind \ {k} : Latest(j)' = Latest(j)
  BY <1>5, SameLatest
<1>9. \A j \in Kind : HasLatest(j)'
  BY <1>5, <1>6 DEF HasLatest, Shown
<1>10. \A j \in Kind : Latest(j) < r
  <2> SUFFICES ASSUME NEW j \in Kind PROVE Latest(j) < r
    OBVIOUS
  <2>1. CASE Mine(j) = {}
    BY <1>3, <2>1 DEF Latest
  <2>2. CASE Mine(j) # {}
    <3>1. Latest(j) \in Mine(j)
      BY <2>2, LatestIs DEF Shown, HasLatest
    <3> QED BY <1>2, <1>3, <3>1 DEF Mine
  <2> QED BY <2>1, <2>2
<1>11. CASE k = "submit"
  <2>1. status' = About(r, "waiting") /\ output' = output
    BY <1>11 DEF Click
  <2>2. Latest("submit")' = r /\ Latest("run")' = Latest("run") /\ Latest("run") < r
    BY <1>7, <1>8, <1>10, <1>11 DEF Kind
  <2>3. status'.of = r /\ r \in Nat
    BY <2>1, <1>3 DEF About
  <2>4. ~(Latest("run")' > Latest("submit")')
    <3>1. Latest("run") \in Nat
      <4>1. CASE Mine("run") = {}
        BY <4>1 DEF Latest
      <4>2. CASE Mine("run") # {}
        <5>1. Latest("run") \in Mine("run")
          BY <4>2, LatestIs DEF Shown, HasLatest, Kind
        <5> QED BY <1>3, <5>1 DEF Mine
      <4> QED BY <4>1, <4>2
    <3> QED BY <1>3, <2>2, <3>1
  <2> QED BY <1>1, <1>9, <2>1, <2>2, <2>3, <2>4 DEF Shown, ShownIsLatest
<1>12. CASE k = "run"
  <2>1. output' = About(r, "waiting") /\ status' = status
    BY <1>12 DEF Click
  <2>2. Latest("run")' = r /\ Latest("submit")' = Latest("submit")
    BY <1>7, <1>8, <1>12 DEF Kind
  <2>3. output'.of = r
    BY <2>1 DEF About
  <2> QED BY <1>1, <1>9, <2>1, <2>2, <2>3 DEF Shown, ShownIsLatest
<1> QED BY <1>3, <1>11, <1>12

LEMMA ShownReceive ==
    ASSUME Awaited, Shown, NEW r \in Request, Receive(r) \/ Refuse(r)
    PROVE  Shown'
<1>1. UNCHANGED <<open, visit, kind, owner>> /\ Waits(r)
  BY DEF Receive, Refuse, request, Waits
<1>2. CASE ~Here(r)
  <2>1. UNCHANGED panel
    BY <1>2, Zenon DEF Receive, Refuse, ShowRunning, ShowResult, ShowError
  <2> QED BY <1>1, <2>1, ShownAsBefore
<1>3. CASE Here(r)
  <2>1. busy /\ kind[r] \in {"submit", "run"}
    BY <1>1, <1>3, WaitsIsLatest DEF Awaited, OneWaits, Kind
  <2>2. CASE Refuse(r)
    <3>1. /\ busy' = FALSE /\ output' = About(r, "error")
          /\ status' = IF kind[r] = "submit" THEN About(r, "error") ELSE status
      BY <1>3, <2>2 DEF Refuse
    <3> QED BY <1>1, <1>3, <3>1, ShownOf DEF About
  <2>3. CASE ShowResult(r)
    <3>1. /\ busy' = FALSE /\ output' = About(r, "result")
          /\ status' = IF kind[r] = "submit" THEN About(r, "result") ELSE status
      BY <1>3, <2>3 DEF ShowResult
    <3> QED BY <1>1, <1>3, <3>1, ShownOf DEF About
  <2>4. CASE ShowError(r)
    <3>1. /\ busy' = FALSE /\ status' = status
          /\ output' = IF kind[r] = "run" THEN About(r, "error") ELSE output
      BY <1>3, <2>4 DEF ShowError
    <3> QED BY <1>1, <1>3, <3>1, ShownOf DEF About
  <2>5. CASE ShowRunning(r)
    <3>1. /\ busy' = busy
          /\ \/ kind[r] = "submit" /\ status' = About(r, "running")
                /\ output' = output
             \/ kind[r] # "submit" /\ output' = About(r, "running")
                /\ status' = status
      BY <1>3, <2>5 DEF ShowRunning
    <3> QED BY <1>1, <1>3, <2>1, <3>1, ShownOf DEF About
  <2> QED BY <2>2, <2>3, <2>4, <2>5 DEF Receive
<1> QED BY <1>2, <1>3

LEMMA ShownStep ==
    ASSUME Awaited, Shown, [Next]_vars
    PROVE  Shown'
<1>1. CASE UNCHANGED vars
  BY <1>1, ShownAsBefore DEF vars, request
<1>2. CASE SaveDraft \/ Type \/ TakeTemplate \/ Restore
  BY <1>2, ShownAsBefore DEF SaveDraft, Type, TakeTemplate, Restore, request
<1>3. CASE Enter
  <2>1. /\ ~open /\ open' /\ visit' = visit + 1 /\ UNCHANGED <<panel, kind, owner>>
    BY <1>3 DEF Enter, request
  <2>2. \A r \in Request : owner[r] # visit'
    <3>1. visit \in Nat
      BY ArenaAssumption DEF Awaited, TypeOK
    <3>2. \A r \in Request : owner[r] \in Nat /\ owner[r] <= visit
      BY <3>1, ArenaAssumption DEF Awaited, Owned, TypeOK
    <3> QED BY <2>1, <3>1, <3>2
  <2>3. \A k : Mine(k)' = {}
    BY <2>1, <2>2 DEF Mine
  <2>4. /\ status'.says = "nothing" /\ output'.says = "nothing" /\ ~busy'
    BY <2>1 DEF Shown, panel
  <2> QED BY <2>1, <2>3, <2>4 DEF Shown, ShownIsLatest, HasLatest
<1>4. CASE Leave \/ CloseTab \/ SessionEnds
  <2>1. /\ open' = FALSE /\ busy' = FALSE /\ status' = Blank /\ output' = Blank
        /\ UNCHANGED <<visit, kind, owner>>
    BY <1>4 DEF Leave, CloseTab, SessionEnds, Unload, Unmount, request
  <2>2. \A k : Mine(k)' = Mine(k)
    BY <2>1 DEF Mine
  <2>3. \A k \in Kind : HasLatest(k)'
    BY <2>2 DEF HasLatest, Shown
  <2> QED BY <2>1, <2>3 DEF Shown, ShownIsLatest, Blank
<1>5. ASSUME NEW r \in Request,
             \/ Accept(r) \/ Answer(r) \/ StartJob(r) \/ EndJob(r)
      PROVE  Shown'
  BY <1>5, ShownAsBefore DEF Accept, Answer, StartJob, EndJob, Publish, request
<1>6. ASSUME NEW r \in Request,
             \/ TakeSlot(r) \/ TurnAway(r) \/ LoseSlot(r) \/ Listen(r)
      PROVE  Shown'
  BY <1>6, ShownAsBefore DEF TakeSlot, TurnAway, LoseSlot, Listen, request
<1>7. ASSUME NEW r \in Request, Release(r) \/ Break(r) PROVE Shown'
  BY <1>7, ShownAsBefore DEF Release, Break, request
<1>8. ASSUME NEW k \in Kind, Expire(k) PROVE Shown'
  BY <1>8, ShownAsBefore DEF Expire, request
<1> QED BY <1>1, <1>2, <1>3, <1>4, <1>5, <1>6, <1>7, <1>8, ShownClick,
           ShownReceive
        DEF Next, Page, Exchange, Submit, RunCode, Kind

\* No late answer or event of an earlier request overwrites what the page says
\* of the latest one (useExecutionEngine.js).
THEOREM LatestIsShown == Spec => []ShownIsLatest
<1>1. Init => Shown
  BY Typed DEF Init, Shown, ShownIsLatest, HasLatest, Mine, Kind, Blank
<1>2. Spec => []Shown
  BY <1>1, ShownStep, AlwaysAwaited, PTL DEF Spec
<1>3. Shown => ShownIsLatest
  BY DEF Shown
<1> QED BY <1>2, <1>3, PTL

=============================================================================
