--------------------------- MODULE PipelineProofs ---------------------------
(****************************************************************************)
(* Theorems about the parts beside the worker, for any clients, messages,   *)
(* jobs, programs, failures, requests and cooldowns: the hub sends on no    *)
(* closed channel, leaks no subscription, and loses and reorders nothing;   *)
(* the runner tells no verdict that is not deserved and leaves nothing      *)
(* behind; the cooldown is neither shorter nor longer than told.            *)
(****************************************************************************)
EXTENDS Pipeline, SequenceTheorems, WellFoundedInduction, TLAPS

\* A step of the pipeline is a step or a stutter of each part.
LEMMA PartsStep ==
    ASSUME [PipelineNext]_partVars
    PROVE  /\ [hub!Next]_hubVars
           /\ [runner!Next]_runnerVars
           /\ [cooldown!Next]_cooldownVars
BY DEF PipelineNext, Rests, partVars

-----------------------------------------------------------------------------
(* The hub: types *)

LEMMA HubSteps ==
    ASSUME [hub!Next]_hubVars
    PROVE  \/ UNCHANGED hubVars
           \/ hub!Publish
           \/ \E c \in Client :
                \/ hub!Subscribe(c) \/ hub!Read(c) \/ hub!Unsubscribe(c)
                \/ hub!Close(c) \/ hub!Confirm(c) \/ hub!Break(c)
                \/ hub!Take(c) \/ hub!Served(c)
                \/ \E d \in Client : hub!Deliver(c, d)
BY DEF hub!Next, hub!Handler, hub!Broadcast

LEMMA ClientsOK ==
    /\ Nobody \notin Client /\ Buffer \in Nat \ {0} /\ MaxMessages \in Nat
    /\ MaxBreaks \in Nat
BY PipelineAssumption DEF hub!HubAssumption

\* Who listens, whose channel is closed, and whom a goroutine still has to
\* serve; a handler that has not come yet has nothing.
MembersOK ==
    /\ \A c \in Client : c \in subs <=> stage[c] = "in"
    /\ \A c \in shut : stage[c] \in {"closing", "gone"}
    /\ \A p \in Client : left[p] \subseteq subs /\ (hand[p] = 0 => left[p] = {})
    /\ \A c \in Client : stage[c] = "out" =>
         /\ got[c] = <<>> /\ chan[c] = <<>> /\ due[c] = {}
         /\ link[c] = "none" /\ pipe[c] = <<>> /\ hand[c] = 0

\* Which Redis subscriptions are open: that of the listeners, and those their
\* last one has still to close, each its own.
LinksOK ==
    /\ reg # Nobody <=> subs # {}
    /\ reg \in Client => link[reg] \in {"asked", "live"}
    /\ \A c \in Client : stage[c] # "closing" <=> closing[c] = Nobody
    /\ \A c \in Client : stage[c] = "closing" =>
         closing[c] # reg /\ link[closing[c]] \in {"asked", "live"}
    /\ \A c, d \in Client : stage[c] = "closing" /\ closing[c] = closing[d] => c = d
    /\ \A p \in Client : link[p] \in {"asked", "live"} =>
         p = reg \/ \E c \in Client : stage[c] = "closing" /\ closing[c] = p

\* What a connection hands over is the beginning of what it held.
LEMMA RestTyped ==
    ASSUME hub!TypeOK, NEW p \in Client, NEW rest \in hub!Rest(p)
    PROVE  /\ rest \in Seq(hub!Message) /\ Len(rest) \in 0..Len(pipe[p])
           /\ \A i \in 1..Len(rest) : rest[i] = pipe[p][i]
<1>1. PICK n \in 0..Len(pipe[p]) : rest = SubSeq(pipe[p], 1, n)
  BY DEF hub!Rest
<1>2. pipe[p] \in Seq(hub!Message)
  BY DEF hub!TypeOK
<1>3. n \in Int /\ n <= Len(pipe[p]) /\ 1 \in 1..(Len(pipe[p]) + 1) /\ n \in (1-1)..Len(pipe[p])
  BY <1>2
<1>4. /\ SubSeq(pipe[p], 1, n) \in Seq(hub!Message)
      /\ Len(SubSeq(pipe[p], 1, n)) = n
      /\ \A i \in 1..n : SubSeq(pipe[p], 1, n)[i] = pipe[p][i]
  BY <1>2, <1>3
<1> QED BY <1>1, <1>4

LEMMA HubInitTyped == hub!Init => hub!TypeOK
BY ClientsOK DEF hub!Init, hub!TypeOK, hub!Message

LEMMA HubTyped ==
    ASSUME hub!TypeOK, MembersOK, [hub!Next]_hubVars
    PROVE  hub!TypeOK'
<1> USE ClientsOK
<1>1. CASE UNCHANGED hubVars
  BY <1>1 DEF hubVars, hub!TypeOK
<1>2. CASE hub!Publish
  <2>1. sent' \in 0..MaxMessages /\ sent + 1 \in hub!Message
    BY <1>2 DEF hub!Publish, hub!TypeOK, hub!Message
  <2>2. pipe' \in [Client -> Seq(hub!Message)] /\ due' \in [Client -> SUBSET hub!Message]
    BY <1>2, <2>1 DEF hub!Publish, hub!TypeOK
  <2> QED BY <1>2, <2>1, <2>2 DEF hub!Publish, hub!TypeOK
<1>3. ASSUME NEW c \in Client, hub!Subscribe(c) PROVE hub!TypeOK'
  BY <1>3 DEF hub!Subscribe, hub!Opens, hub!TypeOK
<1>4. ASSUME NEW c \in Client, hub!Read(c) PROVE hub!TypeOK'
  <2>1. chan[c] \in Seq(hub!Message) /\ got[c] \in Seq(hub!Message) /\ chan[c] # <<>>
    BY <1>4 DEF hub!Read, hub!TypeOK
  <2>2. Append(got[c], Head(chan[c])) \in Seq(hub!Message) /\ Tail(chan[c]) \in Seq(hub!Message)
    BY <2>1
  <2> QED BY <1>4, <2>2 DEF hub!Read, hub!TypeOK, hub!feed
<1>5. ASSUME NEW c \in Client, hub!Unsubscribe(c) PROVE hub!TypeOK'
  <2>1. /\ subs' \subseteq Client /\ shut' \subseteq Client /\ clean' \subseteq Client
        /\ chan' \in [Client -> Seq(hub!Message)] /\ got' \in [Client -> Seq(hub!Message)]
        /\ dropped' \in [Client -> SUBSET hub!Message]
        /\ due' \in [Client -> SUBSET hub!Message]
    BY <1>5 DEF hub!Unsubscribe, hub!Forgets, hub!TypeOK
  <2>2. /\ stage' \in [Client -> {"out", "in", "closing", "gone"}]
        /\ closing' \in [Client -> Client \cup {Nobody}]
        /\ reg' \in Client \cup {Nobody}
    <3>1. /\ stage \in [Client -> {"out", "in", "closing", "gone"}]
          /\ closing \in [Client -> Client \cup {Nobody}]
          /\ reg \in Client \cup {Nobody}
      BY DEF hub!TypeOK
    <3>2. CASE subs' = {}
      BY <1>5, <3>1, <3>2 DEF hub!Unsubscribe
    <3>3. CASE subs' # {}
      BY <1>5, <3>1, <3>3 DEF hub!Unsubscribe
    <3> QED BY <3>2, <3>3
  <2> QED BY <1>5, <2>1, <2>2 DEF hub!Unsubscribe, hub!TypeOK, hub!feed
<1>6. ASSUME NEW c \in Client, hub!Close(c) PROVE hub!TypeOK'
  <2>1. PICK rest \in hub!Rest(closing[c]) : pipe' = [pipe EXCEPT ![closing[c]] = rest]
    BY <1>6 DEF hub!Close
  <2>2. pipe' \in [Client -> Seq(hub!Message)]
    BY <2>1, RestTyped DEF hub!TypeOK
  <2> QED BY <1>6, <2>2 DEF hub!Close, hub!TypeOK, hub!ends
<1>7. ASSUME NEW c \in Client, hub!Confirm(c) PROVE hub!TypeOK'
  BY <1>7 DEF hub!Confirm, hub!TypeOK, hub!ends
<1>8. ASSUME NEW c \in Client, hub!Break(c) PROVE hub!TypeOK'
  <2>1. PICK rest \in hub!Rest(c) :
          /\ pipe' = [pipe EXCEPT ![c] = rest]
          /\ due' = [d \in Client |-> IF d \in subs /\ c = reg
                       THEN due[d] \ {pipe[c][i] : i \in Len(rest) + 1 .. Len(pipe[c])}
                       ELSE due[d]]
    BY <1>8 DEF hub!Break
  <2>2. pipe' \in [Client -> Seq(hub!Message)] /\ due' \in [Client -> SUBSET hub!Message]
    BY <2>1, RestTyped DEF hub!TypeOK
  <2>3. breaks' \in 0..MaxBreaks
    BY <1>8 DEF hub!Break, hub!TypeOK
  <2> QED BY <1>8, <2>2, <2>3 DEF hub!Break, hub!TypeOK
<1>9. ASSUME NEW c \in Client, hub!Take(c) PROVE hub!TypeOK'
  <2>1. pipe[c] \in Seq(hub!Message) /\ pipe[c] # <<>>
    BY <1>9 DEF hub!Take, hub!TypeOK
  <2>2. Head(pipe[c]) \in hub!Message /\ Tail(pipe[c]) \in Seq(hub!Message)
    BY <2>1
  <2> QED BY <1>9, <2>2 DEF hub!Take, hub!TypeOK, hub!ends
<1>10. ASSUME NEW c \in Client, hub!Served(c) PROVE hub!TypeOK'
  BY <1>10 DEF hub!Served, hub!TypeOK, hub!ends
<1>11. ASSUME NEW p \in Client, NEW c \in Client, hub!Deliver(p, c)
       PROVE  hub!TypeOK'
  <2>1. hand[p] \in hub!Message
    BY <1>11 DEF hub!Deliver, hub!TypeOK, MembersOK
  <2>2. /\ chan' \in [Client -> Seq(hub!Message)]
        /\ dropped' \in [Client -> SUBSET hub!Message]
    <3>1. /\ chan \in [Client -> Seq(hub!Message)]
          /\ dropped \in [Client -> SUBSET hub!Message]
      BY DEF hub!TypeOK
    <3>2. Append(chan[c], hand[p]) \in Seq(hub!Message)
      BY <2>1, <3>1
    <3> QED BY <1>11, <2>1, <3>1, <3>2 DEF hub!Deliver
  <2>3. left' \in [Client -> SUBSET Client]
    BY <1>11 DEF hub!Deliver, hub!TypeOK
  <2> QED BY <1>11, <2>2, <2>3 DEF hub!Deliver, hub!TypeOK
<1> QED BY <1>1, <1>2, <1>3, <1>4, <1>5, <1>6, <1>7, <1>8, <1>9, <1>10, <1>11,
           HubSteps
-----------------------------------------------------------------------------
(* The hub: subscribers and subscriptions *)

LEMMA HubMembers ==
    ASSUME hub!TypeOK, MembersOK, LinksOK, [hub!Next]_hubVars
    PROVE  MembersOK'
<1>1. CASE UNCHANGED hubVars
  BY <1>1 DEF hubVars, MembersOK
<1>2. CASE hub!Publish
  BY <1>2 DEF hub!Publish, hub!TypeOK, MembersOK
<1>3. ASSUME NEW c \in Client, hub!Subscribe(c) PROVE MembersOK'
  BY <1>3 DEF hub!Subscribe, hub!Opens, hub!TypeOK, MembersOK
<1>4. ASSUME NEW c \in Client, hub!Read(c) PROVE MembersOK'
  BY <1>4 DEF hub!Read, hub!TypeOK, hub!feed, MembersOK
<1>5. ASSUME NEW c \in Client, hub!Unsubscribe(c) PROVE MembersOK'
  <2>1. \A p \in Client : hand[p] = 0 /\ left[p] = {}
    BY <1>5 DEF hub!Unsubscribe, hub!Locks, MembersOK
  <2>2. \A d \in Client : stage'[d] = IF d = c THEN stage'[c] ELSE stage[d]
    BY <1>5 DEF hub!Unsubscribe, hub!TypeOK
  <2>3. stage'[c] \in {"closing", "gone"}
    BY <1>5 DEF hub!Unsubscribe, hub!TypeOK
  <2> QED BY <1>5, <2>1, <2>2, <2>3
          DEF hub!Unsubscribe, hub!Forgets, hub!TypeOK, hub!feed, MembersOK
<1>6. ASSUME NEW c \in Client, hub!Close(c) PROVE MembersOK'
  <2>1. /\ stage[c] = "closing" /\ stage' = [stage EXCEPT ![c] = "gone"]
        /\ UNCHANGED <<subs, reg, shut, hand, left, chan, got, due>>
    BY <1>6 DEF hub!Close, hub!ends
  <2>2. /\ closing[c] \in Client /\ stage[closing[c]] # "out"
        /\ \A p \in Client \ {closing[c]} : link'[p] = link[p] /\ pipe'[p] = pipe[p]
    <3>1. /\ closing \in [Client -> Client \cup {Nobody}]
          /\ link \in [Client -> {"none", "asked", "live", "closed"}]
          /\ DOMAIN pipe = Client
      BY DEF hub!TypeOK
    <3>2. closing[c] \in Client /\ link[closing[c]] \in {"asked", "live"}
      BY <2>1, <3>1 DEF LinksOK
    <3>3. stage[closing[c]] # "out"
      BY <3>2 DEF MembersOK
    <3> QED BY <1>6, <3>1, <3>2, <3>3 DEF hub!Close
  <2> QED BY <2>1, <2>2 DEF hub!TypeOK, MembersOK
<1>7. ASSUME NEW c \in Client, hub!Confirm(c) PROVE MembersOK'
  BY <1>7 DEF hub!Confirm, hub!TypeOK, hub!ends, MembersOK
<1>8. ASSUME NEW c \in Client, hub!Break(c) PROVE MembersOK'
  BY <1>8 DEF hub!Break, hub!TypeOK, MembersOK
<1>9. ASSUME NEW c \in Client, hub!Take(c) PROVE MembersOK'
  <2>1. /\ UNCHANGED <<stage, subs, shut, link, chan, got, due>> /\ stage[c] # "out"
    BY <1>9 DEF hub!Take, hub!ends, MembersOK
  <2>2. \A p \in Client : /\ left'[p] = IF p = c THEN subs ELSE left[p]
                          /\ p # c => hand'[p] = hand[p] /\ pipe'[p] = pipe[p]
    <3>1. /\ left \in [Client -> SUBSET Client]
          /\ hand \in [Client -> hub!Message \cup {0}]
          /\ pipe \in [Client -> Seq(hub!Message)]
      BY DEF hub!TypeOK
    <3> QED BY <1>9, <3>1 DEF hub!Take
  <2>3. hand'[c] # 0
    <3>1. pipe[c] \in Seq(hub!Message) /\ pipe[c] # <<>>
      BY <1>9 DEF hub!Take, hub!TypeOK
    <3>2. Head(pipe[c]) \in hub!Message
      BY <3>1
    <3> QED BY <1>9, <3>2 DEF hub!Take, hub!TypeOK, hub!Message
  <2> QED BY <2>1, <2>2, <2>3 DEF hub!TypeOK, MembersOK
<1>10. ASSUME NEW c \in Client, hub!Served(c) PROVE MembersOK'
  BY <1>10 DEF hub!Served, hub!TypeOK, hub!ends, MembersOK
<1>11. ASSUME NEW p \in Client, NEW c \in Client, hub!Deliver(p, c)
       PROVE  MembersOK'
  BY <1>11 DEF hub!Deliver, hub!TypeOK, MembersOK
<1> QED BY <1>1, <1>2, <1>3, <1>4, <1>5, <1>6, <1>7, <1>8, <1>9, <1>10, <1>11,
           HubSteps

LEMMA HubLinks ==
    ASSUME hub!TypeOK, MembersOK, LinksOK, [hub!Next]_hubVars
    PROVE  LinksOK'
<1> USE ClientsOK
<1>1. CASE UNCHANGED hubVars
  BY <1>1 DEF hubVars, LinksOK
<1>2. CASE hub!Publish
  BY <1>2 DEF hub!Publish, hub!TypeOK, LinksOK
<1>3. ASSUME NEW c \in Client, hub!Subscribe(c) PROVE LinksOK'
  <2>1. stage' = [stage EXCEPT ![c] = "in"] /\ stage[c] = "out"
        /\ UNCHANGED closing /\ subs' # {} /\ link[c] = "none"
    BY <1>3 DEF hub!Subscribe, MembersOK
  <2>2. CASE subs = {}
    <3>1. reg = Nobody /\ reg' = c /\ link' = [link EXCEPT ![c] = "asked"]
      BY <1>3, <2>2 DEF hub!Subscribe, hub!Opens, hub!TypeOK, LinksOK
    <3>2. \A d \in Client : /\ stage'[d] = IF d = c THEN "in" ELSE stage[d]
                            /\ link'[d] = IF d = c THEN "asked" ELSE link[d]
      <4>1. DOMAIN stage = Client /\ DOMAIN link = Client
        BY DEF hub!TypeOK
      <4> QED BY <2>1, <3>1, <4>1
    <3>3. \A d \in Client : stage[d] = "closing" => closing[d] # c
      BY <2>1 DEF LinksOK
    <3>4. closing' = closing /\ subs' # {} /\ reg' = c /\ reg = Nobody
      BY <2>1, <3>1
    <3>5. \A d \in Client : stage'[d] # "closing" <=> stage[d] # "closing"
      BY <2>1, <3>2
    <3>6. \A p \in Client : link'[p] \in {"asked", "live"} =>
            p = reg' \/ \E d \in Client : stage'[d] = "closing" /\ closing'[d] = p
      BY <3>2, <3>4, <3>5 DEF LinksOK
    <3>7. \A d \in Client : stage'[d] = "closing" =>
            closing'[d] # reg' /\ link'[closing'[d]] \in {"asked", "live"}
      BY <2>1, <3>1, <3>2, <3>3, <3>4, <3>5 DEF LinksOK
    <3> QED BY <3>2, <3>4, <3>5, <3>6, <3>7 DEF LinksOK
  <2>3. CASE subs # {}
    <3>1. UNCHANGED <<reg, link>>
      BY <1>3, <2>3 DEF hub!Subscribe
    <3>2. \A d \in Client : stage'[d] = IF d = c THEN "in" ELSE stage[d]
      BY <2>1 DEF hub!TypeOK
    <3> QED BY <2>1, <2>3, <3>1, <3>2 DEF hub!TypeOK, LinksOK
  <2> QED BY <2>2, <2>3
<1>4. ASSUME NEW c \in Client, hub!Read(c) PROVE LinksOK'
  BY <1>4 DEF hub!Read, hub!TypeOK, hub!feed, LinksOK
<1>5. ASSUME NEW c \in Client, hub!Unsubscribe(c) PROVE LinksOK'
  <2>1. /\ stage[c] = "in" /\ c \in subs /\ subs' = subs \ {c} /\ UNCHANGED link
        /\ reg \in Client
    BY <1>5 DEF hub!Unsubscribe, hub!feed, MembersOK, LinksOK, hub!TypeOK
  <2>2. CASE subs' = {}
    <3>1. /\ closing' = [closing EXCEPT ![c] = reg] /\ reg' = Nobody
          /\ stage' = [stage EXCEPT ![c] = "closing"]
      BY <1>5, <2>2 DEF hub!Unsubscribe
    <3> QED BY <2>1, <2>2, <3>1 DEF hub!TypeOK, LinksOK
  <2>3. CASE subs' # {}
    <3>1. stage' = [stage EXCEPT ![c] = "gone"] /\ UNCHANGED <<closing, reg>>
      BY <1>5, <2>3 DEF hub!Unsubscribe
    <3> QED BY <2>1, <2>3, <3>1 DEF hub!TypeOK, LinksOK
  <2> QED BY <2>2, <2>3
<1>6. ASSUME NEW c \in Client, hub!Close(c) PROVE LinksOK'
  <2>1. /\ stage[c] = "closing" /\ stage' = [stage EXCEPT ![c] = "gone"]
        /\ link' = [link EXCEPT ![closing[c]] = "closed"]
        /\ closing' = [closing EXCEPT ![c] = Nobody] /\ UNCHANGED <<subs, reg>>
    BY <1>6 DEF hub!Close
  <2>2. closing[c] \in Client
    BY <2>1 DEF hub!TypeOK, LinksOK
  <2> QED BY <2>1, <2>2 DEF hub!TypeOK, LinksOK
<1>7. ASSUME NEW c \in Client, hub!Confirm(c) PROVE LinksOK'
  BY <1>7 DEF hub!Confirm, hub!TypeOK, hub!ends, LinksOK
<1>8. ASSUME NEW c \in Client, hub!Break(c) PROVE LinksOK'
  BY <1>8 DEF hub!Break, hub!TypeOK, LinksOK
<1>9. ASSUME NEW c \in Client, hub!Take(c) PROVE LinksOK'
  BY <1>9 DEF hub!Take, hub!TypeOK, hub!ends, LinksOK
<1>10. ASSUME NEW c \in Client, hub!Served(c) PROVE LinksOK'
  BY <1>10 DEF hub!Served, hub!TypeOK, hub!ends, LinksOK
<1>11. ASSUME NEW p \in Client, NEW c \in Client, hub!Deliver(p, c)
       PROVE  LinksOK'
  BY <1>11 DEF hub!Deliver, hub!TypeOK, LinksOK
<1> QED BY <1>1, <1>2, <1>3, <1>4, <1>5, <1>6, <1>7, <1>8, <1>9, <1>10, <1>11,
           HubSteps
-----------------------------------------------------------------------------
(* The hub: messages *)

\* Sequences of messages: what they hold, and that they rise.
LEMMA ItemsAppended ==
    ASSUME NEW s \in Seq(hub!Message), NEW m \in hub!Message
    PROVE  hub!Items(Append(s, m)) = hub!Items(s) \cup {m}
<1>1. /\ Len(Append(s, m)) = Len(s) + 1 /\ Append(s, m)[Len(s) + 1] = m
      /\ \A i \in 1..Len(s) : Append(s, m)[i] = s[i]
  BY AppendProperties
<1>2. Len(s) \in Nat /\ 1..(Len(s) + 1) = 1..Len(s) \cup {Len(s) + 1}
  OBVIOUS
<1> QED BY <1>1, <1>2, Zenon DEF hub!Items

LEMMA ItemsTaken ==
    ASSUME NEW s \in Seq(hub!Message), s # <<>>
    PROVE  hub!Items(s) = {Head(s)} \cup hub!Items(Tail(s))
<1>1. /\ Len(Tail(s)) = Len(s) - 1 /\ Len(s) \in Nat \ {0} /\ Head(s) = s[1]
      /\ \A i \in 1..Len(Tail(s)) : Tail(s)[i] = s[i + 1]
  BY HeadTailProperties, EmptySeq
<1>2. ASSUME NEW i \in 1..Len(s) PROVE s[i] \in {Head(s)} \cup hub!Items(Tail(s))
  <2>1. CASE i = 1
    BY <1>1, <2>1
  <2>2. CASE i # 1
    <3>1. i - 1 \in 1..Len(Tail(s)) /\ Tail(s)[i - 1] = s[i]
      BY <1>1, <2>2
    <3> QED BY <3>1, Zenon DEF hub!Items
  <2> QED BY <2>1, <2>2
<1>3. ASSUME NEW i \in 1..Len(Tail(s)) PROVE Tail(s)[i] \in hub!Items(s)
  <2>1. i + 1 \in 1..Len(s) /\ Tail(s)[i] = s[i + 1]
    BY <1>1
  <2> QED BY <2>1, Zenon DEF hub!Items
<1>4. Head(s) \in hub!Items(s)
  <2>1. 1 \in 1..Len(s)
    BY <1>1
  <2> QED BY <1>1, <2>1, Zenon DEF hub!Items
<1> QED BY <1>2, <1>3, <1>4, Zenon DEF hub!Items

\* To read a message moves it from the channel to what was received.
LEMMA ReadMoves ==
    ASSUME NEW g \in Seq(hub!Message), NEW s \in Seq(hub!Message), s # <<>>
    PROVE  Append(g, Head(s)) \o Tail(s) = g \o s
<1>1. /\ Head(s) \in hub!Message /\ Tail(s) \in Seq(hub!Message)
      /\ Len(Tail(s)) = Len(s) - 1 /\ Len(s) \in Nat \ {0} /\ Head(s) = s[1]
      /\ \A i \in 1..Len(Tail(s)) : Tail(s)[i] = s[i + 1]
  BY HeadTailProperties, EmptySeq
<1>2. <<Head(s)>> \in Seq(hub!Message)
  BY <1>1
<1>3. <<Head(s)>> \o Tail(s) = s
  <2>1. /\ <<Head(s)>> \o Tail(s) \in Seq(hub!Message)
        /\ Len(<<Head(s)>> \o Tail(s)) = Len(s)
        /\ \A i \in 1..Len(s) : (<<Head(s)>> \o Tail(s))[i] = s[i]
    BY <1>1, <1>2, ConcatProperties
  <2> QED BY <2>1, SeqEqual
<1>4. Append(g, Head(s)) = g \o <<Head(s)>>
  BY <1>1, AppendIsConcat
<1> QED BY <1>1, <1>2, <1>3, <1>4, ConcatAssociative

LEMMA DeliveryMoves ==
    ASSUME NEW g \in Seq(hub!Message), NEW s \in Seq(hub!Message),
           NEW m \in hub!Message
    PROVE  g \o Append(s, m) = Append(g \o s, m)
<1>1. g \o s \in Seq(hub!Message) /\ <<m>> \in Seq(hub!Message)
  BY ConcatProperties
<1> QED BY <1>1, AppendIsConcat, ConcatAssociative

Rising(s) == \A i, j \in 1..Len(s) : i < j => s[i] < s[j]

LEMMA RisingAppended ==
    ASSUME NEW s \in Seq(hub!Message), NEW m \in hub!Message, Rising(s),
           \A i \in 1..Len(s) : s[i] < m
    PROVE  Rising(Append(s, m))
<1>1. /\ Len(Append(s, m)) = Len(s) + 1 /\ Append(s, m)[Len(s) + 1] = m
      /\ \A i \in 1..Len(s) : Append(s, m)[i] = s[i]
  BY AppendProperties
<1> QED BY <1>1 DEF Rising

\* What a handler missed is on its way only while it is on the way to the
\* subscription of the listeners.
LEMMA HubMissed ==
    ASSUME hub!TypeOK, MembersOK, LinksOK, hub!NothingMissed, [hub!Next]_hubVars
    PROVE  hub!NothingMissed'
<1> DEFINE Seen(c) == hub!Items(got[c]) \cup hub!Items(chan[c]) \cup dropped[c]
           Coming(c) == hub!Items(pipe[reg]) \cup (IF c \in left[reg] THEN {hand[reg]} ELSE {})
<1>0. \A c \in subs : due[c] \subseteq Seen(c) \cup Coming(c)
  BY DEF hub!NothingMissed
<1>a. (\A c \in subs' : due'[c] \subseteq Seen(c)' \cup Coming(c)') => hub!NothingMissed'
  BY DEF hub!NothingMissed
<1>t. /\ subs \subseteq Client /\ reg \in Client \cup {Nobody}
      /\ subs # {} => reg \in Client
      /\ pipe \in [Client -> Seq(hub!Message)] /\ hand \in [Client -> hub!Message \cup {0}]
      /\ left \in [Client -> SUBSET Client]
      /\ chan \in [Client -> Seq(hub!Message)] /\ got \in [Client -> Seq(hub!Message)]
      /\ dropped \in [Client -> SUBSET hub!Message] /\ due \in [Client -> SUBSET hub!Message]
  BY ClientsOK DEF hub!TypeOK, LinksOK
<1> HIDE DEF Seen, Coming
<1>1. CASE UNCHANGED hubVars
  BY <1>1 DEF hubVars, hub!NothingMissed, hub!Items
<1>2. CASE hub!Publish
  <2>1. /\ UNCHANGED <<subs, reg, left, hand, got, chan, dropped, link>>
        /\ sent + 1 \in hub!Message
        /\ pipe' = [p \in Client |-> IF link[p] = "live" THEN Append(pipe[p], sent + 1)
                                                         ELSE pipe[p]]
        /\ due' = [c \in Client |-> IF c \in subs /\ link[reg] = "live"
                                    THEN due[c] \cup {sent + 1} ELSE due[c]]
    BY <1>2, ClientsOK DEF hub!Publish, hub!TypeOK, hub!Message
  <2>2. ASSUME NEW c \in subs PROVE due'[c] \subseteq Seen(c)' \cup Coming(c)'
    <3>1. c \in Client /\ reg \in Client
      BY <1>t
    <3>2. Seen(c)' = Seen(c)
      BY <2>1 DEF Seen
    <3>3. CASE link[reg] = "live"
      <4>1. hub!Items(pipe'[reg]) = hub!Items(pipe[reg]) \cup {sent + 1}
        BY <1>t, <2>1, <3>1, <3>3, ItemsAppended
      <4>2. Coming(c)' = Coming(c) \cup {sent + 1}
        BY <2>1, <4>1 DEF Coming
      <4> QED BY <1>0, <2>1, <3>1, <3>2, <3>3, <4>2
    <3>4. CASE link[reg] # "live"
      <4>1. Coming(c)' = Coming(c)
        BY <2>1, <3>1, <3>4 DEF Coming
      <4> QED BY <1>0, <2>1, <3>1, <3>2, <3>4, <4>1
    <3> QED BY <3>3, <3>4
  <2> QED BY <1>a, <2>1, <2>2
<1>3. ASSUME NEW c \in Client, hub!Subscribe(c) PROVE hub!NothingMissed'
  <2>1. /\ subs' = subs \cup {c} /\ due[c] = {} /\ (subs # {} => reg' = reg)
        /\ UNCHANGED <<pipe, hand, left, got, chan, dropped, due>>
    BY <1>3 DEF hub!Subscribe, MembersOK
  <2>2. ASSUME NEW d \in subs PROVE Seen(d)' = Seen(d) /\ Coming(d)' = Coming(d)
    BY <2>1 DEF Seen, Coming
  <2> QED BY <1>0, <1>a, <2>1, <2>2
<1>4. ASSUME NEW c \in Client, hub!Read(c) PROVE hub!NothingMissed'
  <2>1. /\ chan[c] # <<>> /\ got' = [got EXCEPT ![c] = Append(@, Head(chan[c]))]
        /\ chan' = [chan EXCEPT ![c] = Tail(@)]
        /\ UNCHANGED <<subs, reg, pipe, hand, left, dropped, due>>
    BY <1>4 DEF hub!Read, hub!feed
  <2>2. Seen(c)' = Seen(c)
    <3>1. hub!Items(chan[c]) = {Head(chan[c])} \cup hub!Items(chan'[c])
      BY <1>t, <2>1, ItemsTaken
    <3>2. hub!Items(got'[c]) = hub!Items(got[c]) \cup {Head(chan[c])}
      <4>1. Head(chan[c]) \in hub!Message
        BY <1>t, <2>1, HeadTailProperties
      <4> QED BY <1>t, <2>1, <4>1, ItemsAppended
    <3> QED BY <2>1, <3>1, <3>2 DEF Seen
  <2>3. \A d \in Client : d # c => Seen(d)' = Seen(d)
    BY <1>t, <2>1 DEF Seen
  <2>4. \A d \in Client : Coming(d)' = Coming(d)
    BY <2>1 DEF Coming
  <2> QED BY <1>0, <1>a, <1>t, <2>1, <2>2, <2>3, <2>4
<1>5. ASSUME NEW c \in Client, hub!Unsubscribe(c) PROVE hub!NothingMissed'
  <2>1. /\ subs' = subs \ {c} /\ (subs' # {} => reg' = reg)
        /\ UNCHANGED <<pipe, hand, left>>
    BY <1>5 DEF hub!Unsubscribe, hub!feed
  <2>2. \A d \in Client : d # c => /\ got'[d] = got[d] /\ chan'[d] = chan[d]
                                   /\ dropped'[d] = dropped[d] /\ due'[d] = due[d]
    BY <1>5, <1>t DEF hub!Unsubscribe, hub!Forgets
  <2>3. ASSUME NEW d \in subs' PROVE due'[d] \subseteq Seen(d)' \cup Coming(d)'
    <3>1. d \in Client /\ d \in subs /\ d # c /\ reg' = reg
      BY <1>t, <2>1, <2>3
    <3>2. Seen(d)' = Seen(d) /\ Coming(d)' = Coming(d)
      BY <2>1, <2>2, <3>1 DEF Seen, Coming
    <3> QED BY <1>0, <2>2, <3>1, <3>2
  <2> QED BY <1>a, <2>3
<1>6. ASSUME NEW c \in Client, hub!Close(c) PROVE hub!NothingMissed'
  <2>1. /\ UNCHANGED <<subs, reg, hand, left, got, chan, dropped, due>>
        /\ closing[c] # reg
        /\ \E rest \in hub!Rest(closing[c]) : pipe' = [pipe EXCEPT ![closing[c]] = rest]
    BY <1>6 DEF hub!Close, hub!ends, LinksOK
  <2>2. \A d \in subs : Seen(d)' = Seen(d) /\ Coming(d)' = Coming(d)
    BY <1>t, <2>1 DEF Seen, Coming
  <2> QED BY <1>0, <1>a, <2>1, <2>2
<1>7. ASSUME NEW c \in Client, hub!Confirm(c) PROVE hub!NothingMissed'
  BY <1>7 DEF hub!Confirm, hub!ends, hub!NothingMissed, hub!Items
<1>8. ASSUME NEW p \in Client, hub!Break(p) PROVE hub!NothingMissed'
  <2>1. PICK rest \in hub!Rest(p) :
          /\ pipe' = [pipe EXCEPT ![p] = rest]
          /\ due' = [d \in Client |-> IF d \in subs /\ p = reg
                       THEN due[d] \ {pipe[p][i] : i \in Len(rest) + 1 .. Len(pipe[p])}
                       ELSE due[d]]
    BY <1>8 DEF hub!Break
  <2>2. UNCHANGED <<subs, reg, hand, left, got, chan, dropped>>
    BY <1>8 DEF hub!Break
  <2>3. hub!Items(pipe[p]) \subseteq
          hub!Items(rest) \cup {pipe[p][i] : i \in Len(rest) + 1 .. Len(pipe[p])}
    <3>1. /\ Len(rest) \in 0..Len(pipe[p]) /\ Len(pipe[p]) \in Nat
          /\ \A i \in 1..Len(rest) : rest[i] = pipe[p][i]
      BY <1>t, RestTyped
    <3>2. \A i \in 1..Len(pipe[p]) : i \in 1..Len(rest) \/ i \in Len(rest) + 1 .. Len(pipe[p])
      BY <3>1
    <3> QED BY <3>1, <3>2, Zenon DEF hub!Items
  <2>4. ASSUME NEW d \in subs PROVE due'[d] \subseteq Seen(d)' \cup Coming(d)'
    <3>1. d \in Client /\ Seen(d)' = Seen(d)
      BY <1>t, <2>2 DEF Seen
    <3>2. CASE p = reg
      <4>1. Coming(d) \subseteq Coming(d)' \cup {pipe[p][i] : i \in Len(rest) + 1 .. Len(pipe[p])}
        BY <1>t, <2>1, <2>2, <2>3, <3>2 DEF Coming
      <4> QED BY <1>0, <2>1, <3>1, <3>2, <4>1
    <3>3. CASE p # reg
      <4>1. Coming(d)' = Coming(d)
        BY <1>t, <2>1, <2>2, <3>3 DEF Coming
      <4> QED BY <1>0, <2>1, <3>1, <3>3, <4>1
    <3> QED BY <3>2, <3>3
  <2> QED BY <1>a, <2>2, <2>4
<1>9. ASSUME NEW p \in Client, hub!Take(p) PROVE hub!NothingMissed'
  <2>1. /\ hand[p] = 0 /\ pipe[p] # <<>> /\ hand' = [hand EXCEPT ![p] = Head(pipe[p])]
        /\ pipe' = [pipe EXCEPT ![p] = Tail(@)] /\ left' = [left EXCEPT ![p] = subs]
        /\ UNCHANGED <<subs, reg, got, chan, dropped, due>> /\ left[p] = {}
    BY <1>9 DEF hub!Take, hub!ends, MembersOK
  <2>2. ASSUME NEW d \in subs PROVE Seen(d)' = Seen(d) /\ Coming(d)' = Coming(d)
    <3>1. Seen(d)' = Seen(d)
      BY <2>1 DEF Seen
    <3>2. CASE p = reg
      <4>1. hub!Items(pipe[p]) = {Head(pipe[p])} \cup hub!Items(pipe'[p])
        BY <1>t, <2>1, ItemsTaken
      <4>2. d \in left'[p] /\ hand'[p] = Head(pipe[p]) /\ d \notin left[p]
        BY <1>t, <2>1
      <4> QED BY <2>1, <3>1, <3>2, <4>1, <4>2 DEF Coming
    <3>3. CASE p # reg
      BY <1>t, <2>1, <3>1, <3>3 DEF Coming
    <3> QED BY <3>2, <3>3
  <2> QED BY <1>0, <1>a, <2>1, <2>2
<1>10. ASSUME NEW p \in Client, hub!Served(p) PROVE hub!NothingMissed'
  <2>1. /\ left[p] = {} /\ hand' = [hand EXCEPT ![p] = 0]
        /\ UNCHANGED <<subs, reg, got, chan, dropped, due, pipe, left>>
    BY <1>10 DEF hub!Served, hub!ends
  <2>2. ASSUME NEW d \in subs PROVE Seen(d)' = Seen(d) /\ Coming(d)' = Coming(d)
    BY <1>t, <2>1 DEF Seen, Coming
  <2> QED BY <1>0, <1>a, <2>1, <2>2
<1>11. ASSUME NEW p \in Client, NEW c \in Client, hub!Deliver(p, c)
       PROVE  hub!NothingMissed'
  <2>1. /\ c \in left[p] /\ left' = [left EXCEPT ![p] = @ \ {c}]
        /\ UNCHANGED <<subs, reg, got, due, pipe, hand>>
        /\ hand[p] \in hub!Message
    BY <1>11 DEF hub!Deliver, MembersOK, hub!TypeOK
  <2>2. Seen(c)' = Seen(c) \cup {hand[p]}
    <3>1. CASE Len(chan[c]) < Buffer
      <4>1. chan'[c] = Append(chan[c], hand[p]) /\ UNCHANGED dropped
        BY <1>11, <1>t, <3>1 DEF hub!Deliver
      <4>2. hub!Items(chan'[c]) = hub!Items(chan[c]) \cup {hand[p]}
        BY <1>t, <2>1, <4>1, ItemsAppended
      <4> QED BY <2>1, <4>1, <4>2 DEF Seen
    <3>2. CASE ~(Len(chan[c]) < Buffer)
      <4>1. dropped'[c] = dropped[c] \cup {hand[p]} /\ UNCHANGED chan
        BY <1>11, <1>t, <3>2 DEF hub!Deliver
      <4> QED BY <2>1, <4>1 DEF Seen
    <3> QED BY <3>1, <3>2
  <2>3. ASSUME NEW d \in Client, d # c PROVE Seen(d)' = Seen(d) /\ Coming(d)' = Coming(d)
    <3>1. chan'[d] = chan[d] /\ dropped'[d] = dropped[d]
      BY <1>11, <1>t, <2>3 DEF hub!Deliver
    <3>2. d \in left'[reg] <=> d \in left[reg]
      BY <1>t, <2>1, <2>3
    <3> QED BY <2>1, <3>1, <3>2 DEF Seen, Coming
  <2>4. Coming(c) \subseteq Coming(c)' \cup {hand[p]}
    BY <1>t, <2>1 DEF Coming
  <2> QED BY <1>0, <1>a, <1>t, <2>1, <2>2, <2>3, <2>4
<1> QED BY <1>1, <1>2, <1>3, <1>4, <1>5, <1>6, <1>7, <1>8, <1>9, <1>10, <1>11,
           HubSteps

-----------------------------------------------------------------------------
(* The hub: order *)

\* While a clean handler listens, nothing comes but from the subscription of
\* the listeners.
OnlyOne ==
    /\ clean \subseteq subs
    /\ clean # {} => \A p \in Client : p = reg \/ hub!Drained(p)

\* What a subscription still has to hand out rises, and is later than what it
\* hands out now.
PipesRise ==
    \A p \in Client :
      /\ Rising(pipe[p]) /\ hand[p] <= sent
      /\ \A i \in 1..Len(pipe[p]) : hand[p] < pipe[p][i] /\ pipe[p][i] <= sent

\* What a clean handler has rises, and is earlier than what is still to come.
Comes(c) == got[c] \o chan[c]

CleanRise ==
    \A c \in clean :
      /\ Rising(Comes(c))
      /\ \A i \in 1..Len(Comes(c)) :
           /\ Comes(c)[i] <= sent /\ (c \in left[reg] => Comes(c)[i] < hand[reg])
           /\ \A k \in 1..Len(pipe[reg]) : Comes(c)[i] < pipe[reg][k]

LEMMA HubOnlyOne ==
    ASSUME hub!TypeOK, MembersOK, LinksOK, OnlyOne, [hub!Next]_hubVars
    PROVE  OnlyOne'
<1>t. /\ subs \subseteq Client /\ reg \in Client \cup {Nobody}
      /\ link \in [Client -> {"none", "asked", "live", "closed"}]
      /\ pipe \in [Client -> Seq(hub!Message)] /\ hand \in [Client -> hub!Message \cup {0}]
      /\ \A p \in Client : hand[p] = 0 => left[p] = {}
  BY DEF hub!TypeOK, MembersOK
<1>1. CASE UNCHANGED hubVars
  BY <1>1 DEF hubVars, OnlyOne, hub!Drained
<1>2. CASE hub!Publish
  BY <1>2, <1>t DEF hub!Publish, OnlyOne, hub!Drained
<1>3. ASSUME NEW c \in Client, hub!Subscribe(c) PROVE OnlyOne'
  <2>1. /\ subs' = subs \cup {c} /\ UNCHANGED <<pipe, hand>>
        /\ clean' = IF \A p \in Client : p = reg \/ hub!Drained(p) THEN clean \cup {c}
                                                                  ELSE clean
    BY <1>3 DEF hub!Subscribe
  <2>2. CASE subs = {}
    <3>1. /\ reg = Nobody /\ reg' = c /\ link' = [link EXCEPT ![c] = "asked"]
          /\ clean = {}
      BY <1>3, <1>t, <2>2, ClientsOK DEF hub!Subscribe, hub!Opens, LinksOK, OnlyOne
    <3> QED BY <1>t, <2>1, <3>1, ClientsOK DEF OnlyOne, hub!Drained
  <2>3. CASE subs # {}
    <3>1. UNCHANGED <<reg, link>>
      BY <1>3, <2>3 DEF hub!Subscribe
    <3> QED BY <2>1, <3>1 DEF OnlyOne, hub!Drained
  <2> QED BY <2>2, <2>3
<1>4. ASSUME NEW c \in Client, hub!Read(c) PROVE OnlyOne'
  BY <1>4 DEF hub!Read, hub!feed, OnlyOne, hub!Drained
<1>5. ASSUME NEW c \in Client, hub!Unsubscribe(c) PROVE OnlyOne'
  <2>1. /\ subs' = subs \ {c} /\ clean' = clean \ {c}
        /\ UNCHANGED <<link, pipe, hand>>
        /\ (subs' # {} => reg' = reg)
    BY <1>5 DEF hub!Unsubscribe, hub!Forgets, hub!feed
  <2> QED BY <2>1 DEF OnlyOne, hub!Drained
<1>6. ASSUME NEW c \in Client, hub!Close(c) PROVE OnlyOne'
  <2>1. UNCHANGED <<subs, reg, hand, clean>> /\ stage[c] = "closing"
    BY <1>6 DEF hub!Close, hub!ends
  <2>2. /\ closing[c] \in Client /\ closing[c] # reg
        /\ link[closing[c]] \in {"asked", "live"}
    BY <2>1 DEF LinksOK, hub!TypeOK
  <2>3. clean = {}
    BY <2>2 DEF OnlyOne, hub!Drained
  <2> QED BY <2>1, <2>3 DEF OnlyOne
<1>7. ASSUME NEW c \in Client, hub!Confirm(c) PROVE OnlyOne'
  BY <1>7, <1>t DEF hub!Confirm, hub!ends, OnlyOne, hub!Drained
<1>8. ASSUME NEW c \in Client, hub!Break(c) PROVE OnlyOne'
  BY <1>8, <1>t DEF hub!Break, OnlyOne, hub!Drained
<1>9. ASSUME NEW c \in Client, hub!Take(c) PROVE OnlyOne'
  <2>1. /\ pipe[c] # <<>> /\ UNCHANGED <<subs, reg, clean, link>>
        /\ \A p \in Client \ {c} : pipe'[p] = pipe[p] /\ hand'[p] = hand[p]
    BY <1>9, <1>t DEF hub!Take, hub!ends
  <2> QED BY <2>1 DEF OnlyOne, hub!Drained
<1>10. ASSUME NEW c \in Client, hub!Served(c) PROVE OnlyOne'
  BY <1>10, <1>t DEF hub!Served, hub!ends, OnlyOne, hub!Drained
<1>11. ASSUME NEW p \in Client, NEW c \in Client, hub!Deliver(p, c)
       PROVE  OnlyOne'
  BY <1>11 DEF hub!Deliver, OnlyOne, hub!Drained
<1> QED BY <1>1, <1>2, <1>3, <1>4, <1>5, <1>6, <1>7, <1>8, <1>9, <1>10, <1>11,
           HubSteps

LEMMA HubPipesRise ==
    ASSUME hub!TypeOK, MembersOK, LinksOK, PipesRise, [hub!Next]_hubVars
    PROVE  PipesRise'
<1>t. /\ pipe \in [Client -> Seq(hub!Message)] /\ hand \in [Client -> hub!Message \cup {0}]
      /\ closing \in [Client -> Client \cup {Nobody}] /\ sent \in Nat
      /\ link \in [Client -> {"none", "asked", "live", "closed"}]
  BY DEF hub!TypeOK
<1> DEFINE Fine(p) == /\ Rising(pipe[p]) /\ hand[p] <= sent
                      /\ \A i \in 1..Len(pipe[p]) : hand[p] < pipe[p][i] /\ pipe[p][i] <= sent
\* A connection that ends hands over the beginning of what it had.
<1>r. ASSUME NEW p \in Client, NEW rest \in hub!Rest(p),
             pipe' = [pipe EXCEPT ![p] = rest], UNCHANGED <<hand, sent>>
      PROVE  PipesRise'
  <2>1. /\ Len(rest) \in 0..Len(pipe[p])
        /\ \A i \in 1..Len(rest) : rest[i] = pipe[p][i]
    BY RestTyped
  <2>2. \A q \in Client : q # p => Fine(q)'
    BY <1>r, <1>t DEF PipesRise
  <2>3. 1..Len(rest) \subseteq 1..Len(pipe[p]) /\ pipe'[p] = rest
    BY <1>r, <1>t, <2>1
  <2>4. Fine(p)'
    BY <1>r, <1>t, <2>1, <2>3 DEF PipesRise, Rising
  <2> QED BY <2>2, <2>4 DEF PipesRise
<1>1. CASE UNCHANGED hubVars
  BY <1>1 DEF hubVars, PipesRise, Rising
<1>2. CASE hub!Publish
  <2>1. /\ UNCHANGED hand /\ sent' = sent + 1 /\ sent + 1 \in hub!Message
        /\ pipe' = [p \in Client |-> IF link[p] = "live" THEN Append(pipe[p], sent + 1)
                                                         ELSE pipe[p]]
    BY <1>2, ClientsOK DEF hub!Publish, hub!TypeOK, hub!Message
  <2>2. ASSUME NEW p \in Client PROVE Fine(p)'
    <3>1. Fine(p) /\ hand[p] \in Nat /\ \A i \in 1..Len(pipe[p]) : pipe[p][i] \in Nat
      <4>1. \A i \in 1..Len(pipe[p]) : pipe[p][i] \in hub!Message
        BY <1>t, ElementOfSeq
      <4>2. Fine(p) /\ hand[p] \in hub!Message \cup {0}
        BY <1>t DEF PipesRise
      <4> QED BY <4>1, <4>2, ClientsOK DEF hub!Message
    <3>2. CASE link[p] = "live"
      <4>1. pipe'[p] = Append(pipe[p], sent + 1)
        BY <2>1, <3>2
      <4>2. /\ Len(pipe'[p]) = Len(pipe[p]) + 1 /\ pipe'[p][Len(pipe[p]) + 1] = sent + 1
            /\ \A i \in 1..Len(pipe[p]) : pipe'[p][i] = pipe[p][i]
            /\ Len(pipe[p]) \in Nat
        BY <1>t, <2>1, <4>1, AppendProperties
      <4>3. Rising(pipe'[p])
        BY <1>t, <2>1, <3>1, <4>1, RisingAppended
      <4>4. \A i \in 1..Len(pipe'[p]) : hand[p] < pipe'[p][i] /\ pipe'[p][i] <= sent + 1
        BY <1>t, <3>1, <4>2
      <4> QED BY <1>t, <2>1, <3>1, <4>3, <4>4
    <3>3. CASE link[p] # "live"
      BY <1>t, <2>1, <3>1, <3>3 DEF Rising
    <3> QED BY <3>2, <3>3
  <2> QED BY <2>2 DEF PipesRise
<1>3. ASSUME NEW c \in Client, hub!Subscribe(c) PROVE PipesRise'
  BY <1>3 DEF hub!Subscribe, PipesRise, Rising
<1>4. ASSUME NEW c \in Client, hub!Read(c) PROVE PipesRise'
  BY <1>4 DEF hub!Read, hub!feed, PipesRise, Rising
<1>5. ASSUME NEW c \in Client, hub!Unsubscribe(c) PROVE PipesRise'
  BY <1>5 DEF hub!Unsubscribe, hub!feed, PipesRise, Rising
<1>6. ASSUME NEW c \in Client, hub!Close(c) PROVE PipesRise'
  <2>1. PICK rest \in hub!Rest(closing[c]) : pipe' = [pipe EXCEPT ![closing[c]] = rest]
    BY <1>6 DEF hub!Close
  <2>2. UNCHANGED <<hand, sent>> /\ closing[c] \in Client
    BY <1>6, <1>t DEF hub!Close, LinksOK
  <2> QED BY <1>r, <2>1, <2>2
<1>7. ASSUME NEW c \in Client, hub!Confirm(c) PROVE PipesRise'
  BY <1>7 DEF hub!Confirm, PipesRise, Rising
<1>8. ASSUME NEW c \in Client, hub!Break(c) PROVE PipesRise'
  <2>1. PICK rest \in hub!Rest(c) : pipe' = [pipe EXCEPT ![c] = rest]
    BY <1>8 DEF hub!Break
  <2>2. UNCHANGED <<hand, sent>>
    BY <1>8 DEF hub!Break
  <2> QED BY <1>r, <2>1, <2>2
<1>9. ASSUME NEW p \in Client, hub!Take(p) PROVE PipesRise'
  <2>1. /\ pipe[p] # <<>> /\ UNCHANGED sent
        /\ hand' = [hand EXCEPT ![p] = Head(pipe[p])]
        /\ pipe' = [pipe EXCEPT ![p] = Tail(@)]
    BY <1>9 DEF hub!Take
  <2>2. \A q \in Client : q # p => Fine(q)'
    BY <1>t, <2>1 DEF PipesRise
  <2>3. /\ Len(Tail(pipe[p])) = Len(pipe[p]) - 1 /\ Len(pipe[p]) \in Nat \ {0}
        /\ Head(pipe[p]) = pipe[p][1]
        /\ \A i \in 1..Len(Tail(pipe[p])) : Tail(pipe[p])[i] = pipe[p][i + 1]
    BY <1>t, <2>1, HeadTailProperties, EmptySeq
  <2>4. Fine(p) /\ pipe'[p] = Tail(pipe[p]) /\ hand'[p] = Head(pipe[p])
    BY <1>t, <2>1 DEF PipesRise
  <2>5. \A i \in 1..Len(Tail(pipe[p])) : i + 1 \in 1..Len(pipe[p]) /\ 1 < i + 1
    BY <2>3
  <2>6. 1 \in 1..Len(pipe[p])
    BY <2>3
  <2>7. Fine(p)'
    <3>1. Rising(pipe'[p])
      <4> SUFFICES ASSUME NEW i \in 1..Len(Tail(pipe[p])), NEW k \in 1..Len(Tail(pipe[p])), i < k
                   PROVE  pipe[p][i + 1] < pipe[p][k + 1]
        BY <2>3, <2>4 DEF Rising
      <4>1. i + 1 < k + 1
        BY <2>3
      <4> QED BY <2>4, <2>5, <4>1 DEF Rising
    <3>2. hand'[p] <= sent
      BY <2>3, <2>4, <2>6
    <3>3. ASSUME NEW i \in 1..Len(pipe'[p])
          PROVE  hand'[p] < pipe'[p][i] /\ pipe'[p][i] <= sent
      BY <2>3, <2>4, <2>5, <2>6, <3>3 DEF Rising
    <3> QED BY <2>1, <3>1, <3>2, <3>3
  <2> QED BY <2>2, <2>7 DEF PipesRise
<1>10. ASSUME NEW p \in Client, hub!Served(p) PROVE PipesRise'
  <2>1. /\ hand' = [hand EXCEPT ![p] = 0] /\ UNCHANGED <<pipe, sent>>
    BY <1>10 DEF hub!Served
  <2>2. \A q \in Client : \A i \in 1..Len(pipe[q]) : 0 < pipe[q][i]
    <3>1. \A q \in Client : \A i \in 1..Len(pipe[q]) : pipe[q][i] \in hub!Message
      BY <1>t, ElementOfSeq
    <3> QED BY <3>1, ClientsOK DEF hub!Message
  <2> QED BY <1>t, <2>1, <2>2 DEF PipesRise, Rising
<1>11. ASSUME NEW p \in Client, NEW c \in Client, hub!Deliver(p, c)
       PROVE  PipesRise'
  BY <1>11 DEF hub!Deliver, PipesRise, Rising
<1> QED BY <1>1, <1>2, <1>3, <1>4, <1>5, <1>6, <1>7, <1>8, <1>9, <1>10, <1>11,
           HubSteps

LEMMA HubCleanRise ==
    ASSUME hub!TypeOK, MembersOK, LinksOK, OnlyOne, PipesRise, CleanRise,
           [hub!Next]_hubVars
    PROVE  CleanRise'
<1>t. /\ subs \subseteq Client /\ reg \in Client \cup {Nobody} /\ sent \in Nat
      /\ pipe \in [Client -> Seq(hub!Message)] /\ hand \in [Client -> hub!Message \cup {0}]
      /\ left \in [Client -> SUBSET Client]
      /\ chan \in [Client -> Seq(hub!Message)] /\ got \in [Client -> Seq(hub!Message)]
      /\ clean \subseteq Client /\ hub!Message \subseteq Nat
      /\ closing \in [Client -> Client \cup {Nobody}]
  BY ClientsOK DEF hub!TypeOK, hub!Message
<1>u. ASSUME NEW c \in clean
      PROVE  c \in Client /\ c \in subs /\ reg \in Client
  BY <1>t, <1>u DEF OnlyOne, LinksOK
<1>v. ASSUME NEW c \in Client
      PROVE  /\ Comes(c) \in Seq(hub!Message) /\ Len(Comes(c)) \in Nat
             /\ \A i \in 1..Len(Comes(c)) : Comes(c)[i] \in Nat
  <2>1. Comes(c) \in Seq(hub!Message)
    BY <1>t, ConcatProperties DEF Comes
  <2>2. \A i \in 1..Len(Comes(c)) : Comes(c)[i] \in hub!Message
    BY <2>1, ElementOfSeq
  <2>3. Len(Comes(c)) \in Nat
    BY <2>1, LenProperties
  <2> QED BY <1>t, <2>1, <2>2, <2>3
<1> DEFINE Fine(c) ==
             /\ Rising(Comes(c))
             /\ \A i \in 1..Len(Comes(c)) :
                  /\ Comes(c)[i] <= sent /\ (c \in left[reg] => Comes(c)[i] < hand[reg])
                  /\ \A k \in 1..Len(pipe[reg]) : Comes(c)[i] < pipe[reg][k]
<1>f. \A c \in clean : Fine(c)
  BY DEF CleanRise
<1>g. (\A c \in clean' : Fine(c)') => CleanRise'
  BY DEF CleanRise
<1>1. CASE UNCHANGED hubVars
  BY <1>1 DEF hubVars, CleanRise, Rising, Comes
<1>2. CASE hub!Publish
  <2>1. /\ UNCHANGED <<reg, left, hand, got, chan, clean>> /\ sent' = sent + 1
        /\ sent + 1 \in hub!Message
        /\ pipe' = [p \in Client |-> IF link[p] = "live" THEN Append(pipe[p], sent + 1)
                                                         ELSE pipe[p]]
    BY <1>2, ClientsOK DEF hub!Publish, hub!TypeOK, hub!Message
  <2>2. ASSUME NEW c \in clean PROVE Fine(c)'
    <3>1. Fine(c) /\ Comes(c)' = Comes(c) /\ c \in Client /\ reg \in Client
      BY <1>f, <1>u, <2>1 DEF Comes
    <3>2. \A k \in 1..Len(pipe'[reg]) :
            \/ k \in 1..Len(pipe[reg]) /\ pipe'[reg][k] = pipe[reg][k]
            \/ pipe'[reg][k] = sent + 1
      <4>1. CASE link[reg] = "live"
        <5>1. pipe'[reg] = Append(pipe[reg], sent + 1) /\ pipe[reg] \in Seq(hub!Message)
          BY <1>t, <2>1, <3>1, <4>1
        <5>2. /\ Len(pipe'[reg]) = Len(pipe[reg]) + 1 /\ Len(pipe[reg]) \in Nat
              /\ pipe'[reg][Len(pipe[reg]) + 1] = sent + 1
              /\ \A i \in 1..Len(pipe[reg]) : pipe'[reg][i] = pipe[reg][i]
          BY <1>t, <2>1, <3>1, <5>1, AppendProperties
        <5> QED BY <5>2
      <4>2. CASE link[reg] # "live"
        BY <2>1, <3>1, <4>2
      <4> QED BY <4>1, <4>2
    <3>3. ASSUME NEW i \in 1..Len(Comes(c))
          PROVE  /\ Comes(c)[i] <= sent + 1 /\ Comes(c)[i] < sent + 1
                 /\ \A k \in 1..Len(pipe'[reg]) : Comes(c)[i] < pipe'[reg][k]
      <4>1. Comes(c)[i] \in Nat
        BY <1>v, <3>1
      <4>2. Comes(c)[i] <= sent /\ \A k \in 1..Len(pipe[reg]) : Comes(c)[i] < pipe[reg][k]
        BY <3>1
      <4>3. Comes(c)[i] < sent + 1 /\ Comes(c)[i] <= sent + 1
        BY <1>t, <4>1, <4>2
      <4> QED BY <3>2, <4>2, <4>3
    <3> QED BY <2>1, <3>1, <3>3
  <2> QED BY <1>g, <2>1, <2>2
<1>3. ASSUME NEW c \in Client, hub!Subscribe(c) PROVE CleanRise'
  <2>1. /\ clean' \subseteq clean \cup {c} /\ UNCHANGED <<pipe, hand, left, got, chan, sent>>
        /\ (subs # {} => reg' = reg)
        /\ got[c] = <<>> /\ chan[c] = <<>>
    BY <1>3 DEF hub!Subscribe, MembersOK
  <2>2. Fine(c)'
    <3>1. Comes(c)' = <<>>
      BY <1>t, <2>1, ConcatEmptySeq DEF Comes
    <3>2. Len(<<>>) = 0
      BY EmptySeq
    <3> QED BY <3>1, <3>2 DEF Rising
  <2>3. ASSUME NEW d \in clean PROVE Fine(d)'
    <3>1. Fine(d) /\ reg' = reg /\ Comes(d)' = Comes(d)
      BY <1>f, <1>u, <2>1 DEF Comes
    <3> QED BY <2>1, <3>1
  <2> QED BY <1>g, <2>1, <2>2, <2>3
<1>4. ASSUME NEW c \in Client, hub!Read(c) PROVE CleanRise'
  <2>1. /\ chan[c] # <<>> /\ got' = [got EXCEPT ![c] = Append(@, Head(chan[c]))]
        /\ chan' = [chan EXCEPT ![c] = Tail(@)]
        /\ UNCHANGED <<reg, pipe, hand, left, clean, sent>>
    BY <1>4 DEF hub!Read, hub!feed
  <2>2. ASSUME NEW d \in clean PROVE Fine(d)'
    <3>1. Comes(d)' = Comes(d)
      BY <1>t, <1>u, <2>1, ReadMoves DEF Comes
    <3> QED BY <1>f, <2>1, <3>1
  <2> QED BY <1>g, <2>1, <2>2
<1>5. ASSUME NEW c \in Client, hub!Unsubscribe(c) PROVE CleanRise'
  <2>1. /\ subs' = subs \ {c} /\ clean' = clean \ {c} /\ (subs' # {} => reg' = reg)
        /\ UNCHANGED <<pipe, hand, left, sent>>
        /\ \A d \in Client : d # c => got'[d] = got[d] /\ chan'[d] = chan[d]
    BY <1>5, <1>t DEF hub!Unsubscribe, hub!Forgets, hub!feed
  <2>2. ASSUME NEW d \in clean' PROVE Fine(d)'
    <3>1. d \in clean /\ d # c
      BY <2>1
    <3>2. Fine(d) /\ reg' = reg /\ Comes(d)' = Comes(d)
      BY <1>f, <1>u, <2>1, <3>1 DEF Comes
    <3> QED BY <2>1, <3>2
  <2> QED BY <1>g, <2>2
<1>6. ASSUME NEW c \in Client, hub!Close(c) PROVE CleanRise'
  <2>1. /\ UNCHANGED <<reg, hand, left, got, chan, clean, sent>>
        /\ \E rest \in hub!Rest(closing[c]) : pipe' = [pipe EXCEPT ![closing[c]] = rest]
    BY <1>6 DEF hub!Close, hub!ends
  <2>2. closing[c] # reg
    BY <1>6 DEF hub!Close, LinksOK
  <2>3. ASSUME NEW d \in clean PROVE Fine(d)'
    <3>1. Fine(d) /\ pipe'[reg] = pipe[reg] /\ Comes(d)' = Comes(d)
      BY <1>t, <1>f, <1>u, <2>1, <2>2 DEF Comes
    <3> QED BY <2>1, <3>1
  <2> QED BY <1>g, <2>1, <2>3
<1>7. ASSUME NEW c \in Client, hub!Confirm(c) PROVE CleanRise'
  BY <1>7 DEF hub!Confirm, hub!ends, CleanRise, Rising, Comes
<1>8. ASSUME NEW p \in Client, hub!Break(p) PROVE CleanRise'
  <2>1. PICK rest \in hub!Rest(p) : pipe' = [pipe EXCEPT ![p] = rest]
    BY <1>8 DEF hub!Break
  <2>2. UNCHANGED <<reg, hand, left, got, chan, clean, sent>>
    BY <1>8 DEF hub!Break
  <2>3. ASSUME NEW d \in clean PROVE Fine(d)'
    <3>1. Fine(d) /\ reg \in Client /\ Comes(d)' = Comes(d)
      BY <1>f, <1>u, <2>2 DEF Comes
    <3>2. \A k \in 1..Len(pipe'[reg]) :
            k \in 1..Len(pipe[reg]) /\ pipe'[reg][k] = pipe[reg][k]
      <4>1. /\ Len(rest) \in 0..Len(pipe[p]) /\ Len(pipe[p]) \in Nat
            /\ \A i \in 1..Len(rest) : rest[i] = pipe[p][i]
        BY <1>t, RestTyped
      <4> QED BY <1>t, <2>1, <3>1, <4>1
    <3> QED BY <2>2, <3>1, <3>2
  <2> QED BY <1>g, <2>2, <2>3
<1>9. ASSUME NEW p \in Client, hub!Take(p) PROVE CleanRise'
  <2>1. /\ pipe[p] # <<>> /\ UNCHANGED <<reg, got, chan, clean, sent>>
        /\ hand' = [hand EXCEPT ![p] = Head(pipe[p])]
        /\ pipe' = [pipe EXCEPT ![p] = Tail(@)]
        /\ left' = [left EXCEPT ![p] = subs]
    BY <1>9 DEF hub!Take, hub!ends
  <2>2. ASSUME NEW d \in clean PROVE Fine(d)'
    <3>1. Fine(d) /\ p = reg /\ Comes(d)' = Comes(d)
      BY <1>f, <2>1 DEF Comes, OnlyOne, hub!Drained
    <3>2. /\ Len(Tail(pipe[p])) = Len(pipe[p]) - 1 /\ Len(pipe[p]) \in Nat \ {0}
          /\ Head(pipe[p]) = pipe[p][1]
          /\ \A i \in 1..Len(Tail(pipe[p])) : Tail(pipe[p])[i] = pipe[p][i + 1]
      BY <1>t, <2>1, HeadTailProperties, EmptySeq
    <3>3. /\ 1 \in 1..Len(pipe[p])
          /\ \A i \in 1..Len(Tail(pipe[p])) : i + 1 \in 1..Len(pipe[p])
      BY <3>2
    <3>4. pipe'[reg] = Tail(pipe[p]) /\ hand'[reg] = pipe[p][1]
      BY <1>t, <2>1, <3>1, <3>2
    <3> QED BY <2>1, <3>1, <3>2, <3>3, <3>4
  <2> QED BY <1>g, <2>1, <2>2
<1>10. ASSUME NEW p \in Client, hub!Served(p) PROVE CleanRise'
  <2>1. /\ left[p] = {} /\ hand' = [hand EXCEPT ![p] = 0]
        /\ UNCHANGED <<reg, pipe, left, got, chan, clean, sent>>
    BY <1>10 DEF hub!Served, hub!ends
  <2>2. ASSUME NEW d \in clean PROVE Fine(d)'
    <3>1. Fine(d) /\ Comes(d)' = Comes(d)
      BY <1>f, <2>1 DEF Comes
    <3>2. d \in left[reg] => hand'[reg] = hand[reg]
      BY <1>t, <1>u, <2>1
    <3> QED BY <2>1, <3>1, <3>2
  <2> QED BY <1>g, <2>1, <2>2
<1>11. ASSUME NEW p \in Client, NEW c \in Client, hub!Deliver(p, c)
       PROVE  CleanRise'
  <2>1. /\ c \in left[p] /\ left' = [left EXCEPT ![p] = @ \ {c}]
        /\ UNCHANGED <<reg, got, pipe, hand, clean, sent>>
        /\ hand[p] \in hub!Message
        /\ \A d \in Client : d # c => chan'[d] = chan[d]
        /\ chan'[c] \in {chan[c], Append(chan[c], hand[p])}
    BY <1>11, <1>t DEF hub!Deliver, MembersOK
  <2>2. ASSUME NEW d \in clean, d # c PROVE Fine(d)'
    <3>1. Fine(d) /\ Comes(d)' = Comes(d) /\ reg \in Client
      BY <1>f, <1>u, <2>1, <2>2 DEF Comes
    <3>2. d \in left'[reg] => d \in left[reg]
      BY <1>t, <2>1, <3>1
    <3> QED BY <2>1, <3>1, <3>2
  <2>3. ASSUME c \in clean PROVE Fine(c)'
    <3>1. p = reg /\ Fine(c) /\ reg \in Client
      <4>1. hand[p] # 0
        BY <2>1, ClientsOK DEF hub!Message
      <4> QED BY <1>f, <1>u, <2>3, <4>1 DEF OnlyOne, hub!Drained
    <3>2. c \notin left'[reg]
      BY <1>t, <2>1, <3>1
    <3>3. CASE chan'[c] = chan[c]
      <4>1. Comes(c)' = Comes(c)
        BY <2>1, <3>3 DEF Comes
      <4> QED BY <2>1, <3>1, <3>2, <4>1
    <3>4. CASE chan'[c] = Append(chan[c], hand[p])
      <4>1. Comes(c)' = Append(Comes(c), hand[p])
        BY <1>t, <2>1, <3>4, DeliveryMoves DEF Comes
      <4>2. /\ Len(Comes(c)') = Len(Comes(c)) + 1
            /\ Comes(c)'[Len(Comes(c)) + 1] = hand[p]
            /\ \A i \in 1..Len(Comes(c)) : Comes(c)'[i] = Comes(c)[i]
        BY <1>v, <2>1, <4>1, AppendProperties
      <4>3. \A i \in 1..Len(Comes(c)) : Comes(c)[i] < hand[p]
        BY <2>1, <3>1
      <4>4. Rising(Comes(c)')
        BY <1>v, <2>1, <3>1, <4>1, <4>3, RisingAppended
      <4>5. hand[p] <= sent /\ \A k \in 1..Len(pipe[reg]) : hand[p] < pipe[reg][k]
        BY <3>1 DEF PipesRise
      <4>6. \A i \in 1..Len(Comes(c)') : i \in 1..Len(Comes(c)) \/ i = Len(Comes(c)) + 1
        BY <1>v, <4>2
      <4> QED BY <2>1, <3>1, <3>2, <4>2, <4>4, <4>5, <4>6
    <3> QED BY <2>1, <3>3, <3>4
  <2> QED BY <1>g, <2>1, <2>2, <2>3
<1> QED BY <1>1, <1>2, <1>3, <1>4, <1>5, <1>6, <1>7, <1>8, <1>9, <1>10, <1>11,
           HubSteps

-----------------------------------------------------------------------------
(* The hub: theorems *)

HubInv ==
    /\ hub!TypeOK /\ MembersOK /\ LinksOK /\ hub!NothingMissed
    /\ OnlyOne /\ PipesRise /\ CleanRise

LEMMA HubInit == PipelineInit => HubInv
<1> SUFFICES ASSUME hub!Init PROVE HubInv
  BY DEF PipelineInit
<1>1. hub!TypeOK
  BY HubInitTyped
<1>2. MembersOK /\ LinksOK
  BY ClientsOK DEF hub!Init, MembersOK, LinksOK
<1>3. hub!NothingMissed /\ OnlyOne /\ CleanRise
  BY DEF hub!Init, hub!NothingMissed, OnlyOne, CleanRise
<1>4. PipesRise
  <2>1. Len(<<>>) = 0
    BY EmptySeq
  <2> QED BY <2>1 DEF hub!Init, PipesRise, Rising
<1> QED BY <1>1, <1>2, <1>3, <1>4 DEF HubInv

LEMMA HubStep == HubInv /\ [PipelineNext]_partVars => HubInv'
BY PartsStep, HubTyped, HubMembers, HubLinks, HubMissed, HubOnlyOne, HubPipesRise,
   HubCleanRise DEF HubInv

\* Unsubscribe closes a channel only when no broadcast has still to send on it
\* (hub.go:59, :84): the handlers left to serve are subscribers, whose channels
\* are open.
THEOREM SendsAreSafe == PipelineSpec => []NoSendToClosed
<1>1. HubInv => NoSendToClosed
  BY DEF HubInv, MembersOK, hub!TypeOK, NoSendToClosed, hub!NoSendToClosed
<1> QED BY <1>1, HubInit, HubStep, PTL DEF PipelineSpec

\* The hub subscribes to Redis while somebody listens, loses nothing for who
\* listens, and hands out in order and once (hub.go:66, :80), however many
\* handlers come and go.
THEOREM HubFansOut == PipelineSpec => []FanOut
<1>1. HubInv => FanOut
  BY DEF HubInv, LinksOK, CleanRise, Rising, Comes, FanOut, hub!FanOut, hub!NoneLeaks,
         hub!InOrder
<1> QED BY <1>1, HubInit, HubStep, PTL DEF PipelineSpec

-----------------------------------------------------------------------------
(* The runner: what holds of each job *)

\* What the container of a job can be doing at each statement of its thread.
StagesOK(j) ==
    /\ place[j] \in {"start", "source", "compile"} => box[j] = "none"
    /\ place[j] \in {"compile", "built", "building"} =>
         prog[j].build \notin {"empty", "none"}
    /\ place[j] \in {"built", "building"} => box[j] \in {"compiling", "ended", "removed"}
    /\ place[j] \in {"cases", "fetch", "run", "ran", "running", "judge"} =>
         prog[j].build \in {"none", "good"}
    /\ place[j] \in {"cases", "fetch", "run"} => box[j] \in {"none", "ended", "removed"}
    /\ place[j] \in {"ran", "running"} => box[j] \in {"running", "ended", "removed"}
    /\ place[j] = "judge" => box[j] \in {"ended", "removed"}
    /\ place[j] \notin {"ran", "running", "judge", "clean", "done", "dead"} => ran[j] = 0
    /\ box[j] = "running" => ran[j] + 1 \in runner!Case(j)

\* What the cases that were run came to: each but the last let the script go
\* on, and a script that has ended was at its end unless its container died.
RunsOK(j) ==
    place[j] \in {"ran", "running", "judge"} =>
      /\ ran[j] = 0 \/ ran[j] \in runner!Case(j)
      /\ \A i \in 1..ran[j] : prog[j].does[i] # "stubborn"
      /\ \A i \in 1..ran[j] - 1 : prog[j].does[i] \in {"right", "wrong"}
      /\ box[j] = "running" => \A i \in 1..ran[j] : prog[j].does[i] \in {"right", "wrong"}
      /\ box[j] # "running" /\ j \notin trouble =>
           \/ ran[j] + 1 \notin runner!Case(j)
           \/ ran[j] # 0 /\ prog[j].does[ran[j]] \in {"crash", "slow"}

\* The expected outputs of the cases passed are on disk.
FilesOK(j) ==
    /\ place[j] \in {"start", "source", "compile", "built", "building"} => at[j][1] = 1
    /\ place[j] \in {"cases", "fetch"} =>
         /\ at[j][1] \in runner!Case(j)
         /\ \A i \in runner!Case(j) : i < at[j][1] =>
              <<i, "expected">> \in files[runner!Place(j)]
    /\ place[j] \in {"run", "ran", "running", "judge"} =>
         \A i \in runner!Case(j) : <<i, "expected">> \in files[runner!Place(j)]

\* A thread on its way out has nothing at work, unless Docker failed it.
LeftOK(j) ==
    /\ place[j] \in {"clean", "done"} => j \in stray \/ ~runner!Up(j)
    /\ place[j] = "done" => j \in stray \/ j \notin workDir

HonestOK(j) ==
    result[j] # "none" =>
      \/ result[j] = runner!Deserved(j)
      \/ j \in trouble /\ result[j] \in {"SE", "CE"}
      \/ /\ j \in trouble /\ result[j] = runner!OfCases(j)
         /\ prog[j].build \in {"none", "good"} /\ runner!Hangs(j)

GradedOK(j) == StagesOK(j) /\ RunsOK(j) /\ FilesOK(j) /\ LeftOK(j) /\ HonestOK(j)

LEMMA JobsOK ==
    /\ Cache \notin Graded /\ Cases \in Nat \ {0}
    /\ Program \subseteq runner!ProgramType /\ MaxBreakdowns \in Nat
BY PipelineAssumption DEF runner!RunnerAssumption

LEMMA CasesTyped ==
    ASSUME runner!TypeOK, NEW j \in Graded
    PROVE  /\ runner!Case(j) \subseteq 1..Cases /\ 1 \in runner!Case(j)
           /\ prog[j].does \in [1..Cases -> {"right", "wrong", "crash", "slow", "stubborn"}]
           /\ prog[j].build \in {"empty", "none", "good", "bad", "slow"}
           /\ prog[j].custom \in BOOLEAN
           /\ runner!Place(j) \in Graded \cup {Cache}
           /\ runner!Place(j) \in Graded => runner!Place(j) = j
           /\ \E n \in 1..Cases : runner!Case(j) = 1..n
<1>1. prog[j] \in runner!ProgramType
  BY JobsOK DEF runner!TypeOK
<1>2. prog[j].custom \in BOOLEAN
  BY <1>1 DEF runner!ProgramType
<1>3. /\ prog[j].does \in [1..Cases -> {"right", "wrong", "crash", "slow", "stubborn"}]
      /\ prog[j].build \in {"empty", "none", "good", "bad", "slow"}
  BY <1>1 DEF runner!ProgramType
<1>4. /\ runner!Case(j) \in {1..1, 1..Cases}
      /\ runner!Place(j) \in {j, Cache}
  BY DEF runner!Case, runner!Place
<1>5. 1..1 \subseteq 1..Cases /\ 1 \in 1..1 /\ 1 \in 1..Cases /\ Cases \in 1..Cases
  BY JobsOK
<1>6. \E n \in 1..Cases : runner!Case(j) = 1..n
  BY <1>4, <1>5
<1> QED BY <1>2, <1>3, <1>4, <1>5, <1>6, JobsOK

\* A step of a job or of its container leaves the other jobs alone; the files
\* they need stay.
Own(j) ==
    /\ prog' = prog
    /\ \A k \in Graded : k # j =>
         /\ place'[k] = place[k] /\ at'[k] = at[k] /\ box'[k] = box[k]
         /\ ran'[k] = ran[k] /\ result'[k] = result[k]
         /\ k \in workDir' <=> k \in workDir
         /\ k \in trouble' <=> k \in trouble
         /\ k \in stray' <=> k \in stray
    /\ \A p \in Graded \cup {Cache} : p # j => files[p] \subseteq files'[p]

\* What a submission deserves is up to its program.
LEMMA DesertFixed ==
    ASSUME NEW j \in Graded, prog' = prog
    PROVE  /\ runner!Deserved(j)' = runner!Deserved(j)
           /\ runner!OfCases(j)' = runner!OfCases(j)
           /\ runner!Hangs(j)' = runner!Hangs(j)
<1>1. runner!Case(j)' = runner!Case(j) /\ prog'[j] = prog[j]
  BY DEF runner!Case
<1>2. runner!OfCases(j)' = runner!OfCases(j)
  <2>1. prog'[j].does = prog[j].does
    BY <1>1
  <2> QED BY <1>1, <2>1, SMT DEF runner!OfCases
<1>3. runner!Hangs(j)' = runner!Hangs(j)
  BY DEF runner!Hangs, runner!Case
<1>4. runner!Deserved(j)' = runner!Deserved(j)
  BY <1>1, <1>2, <1>3 DEF runner!Deserved
<1> QED BY <1>2, <1>3, <1>4

LEMMA OthersKeep ==
    ASSUME runner!TypeOK, NEW j \in Graded, Own(j), NEW k \in Graded, k # j, GradedOK(k)
    PROVE  GradedOK(k)'
<1>1. /\ prog' = prog /\ place'[k] = place[k] /\ at'[k] = at[k] /\ box'[k] = box[k]
      /\ ran'[k] = ran[k] /\ result'[k] = result[k]
      /\ (k \in workDir' <=> k \in workDir) /\ (k \in trouble' <=> k \in trouble)
      /\ (k \in stray' <=> k \in stray)
  BY DEF Own
<1>2. runner!Case(k)' = runner!Case(k) /\ runner!Place(k)' = runner!Place(k)
  BY <1>1 DEF runner!Case, runner!Place
<1>3. files[runner!Place(k)] \subseteq files'[runner!Place(k)]
  <2>1. runner!Place(k) \in Graded \cup {Cache} /\ runner!Place(k) # j
    BY CasesTyped, JobsOK
  <2> QED BY <2>1 DEF Own
<1>4. StagesOK(k)' /\ RunsOK(k)'
  BY <1>1, <1>2, Zenon DEF GradedOK, StagesOK, RunsOK
<1>5. FilesOK(k)'
  BY <1>1, <1>2, <1>3 DEF GradedOK, FilesOK
<1>6. LeftOK(k)'
  BY <1>1 DEF GradedOK, LeftOK, runner!Up
<1>7. HonestOK(k)'
  BY <1>1, DesertFixed DEF GradedOK, HonestOK
<1> QED BY <1>4, <1>5, <1>6, <1>7 DEF GradedOK

\* A verdict stays honest, and one that admits a failure is.
LEMMA HonestKept ==
    ASSUME NEW j \in Graded, HonestOK(j), prog' = prog, result'[j] = result[j],
           trouble \subseteq trouble'
    PROVE  HonestOK(j)'
BY DesertFixed DEF HonestOK

LEMMA HonestFailure ==
    ASSUME NEW j \in Graded, j \in trouble', result'[j] \in {"SE", "CE"}
    PROVE  HonestOK(j)'
BY DEF HonestOK

LEMMA HonestDeserved ==
    ASSUME NEW j \in Graded, prog' = prog, result'[j] = runner!Deserved(j)
    PROVE  HonestOK(j)'
BY DesertFixed DEF HonestOK

\* Every return leads to the finally clause.
LEMMA ToClean ==
    ASSUME NEW j \in Graded, place'[j] = "clean", prog' = prog, HonestOK(j)',
           j \in stray' \/ box'[j] \notin {"compiling", "running"},
           box'[j] = "running" => ran'[j] + 1 \in runner!Case(j)
    PROVE  GradedOK(j)'
<1>1. runner!Case(j)' = runner!Case(j)
  BY DEF runner!Case
<1> QED BY <1>1 DEF GradedOK, StagesOK, RunsOK, FilesOK, LeftOK, runner!Up

-----------------------------------------------------------------------------
(* The runner: its actions *)

Keeps(j) == runner!TypeOK' /\ Own(j) /\ GradedOK(j)'

LEMMA StartKeeps ==
    ASSUME runner!TypeOK, NEW j \in Graded, GradedOK(j), runner!Start(j)
    PROVE  Keeps(j)
<1>1. /\ place[j] = "start" /\ place' = [place EXCEPT ![j] = "source"]
      /\ workDir' = workDir \cup {j}
      /\ UNCHANGED <<prog, at, files, box, ran, stray, result, trouble, breakdowns>>
  BY DEF runner!Start, runner!Proceeds, runner!Goes, runner!Works
<1>2. runner!TypeOK'
  BY <1>1 DEF runner!TypeOK
<1>3. Own(j)
  BY <1>1 DEF Own, runner!TypeOK
<1>4. place'[j] = "source"
  BY <1>1 DEF runner!TypeOK
<1>5. HonestOK(j)'
  BY <1>1, HonestKept DEF GradedOK
<1>6. StagesOK(j)' /\ RunsOK(j)' /\ FilesOK(j)' /\ LeftOK(j)'
  BY <1>1, <1>4 DEF GradedOK, StagesOK, RunsOK, FilesOK, LeftOK, runner!Case
<1> QED BY <1>2, <1>3, <1>5, <1>6 DEF Keeps, GradedOK

LEMMA SourceKeeps ==
    ASSUME runner!TypeOK, NEW j \in Graded, GradedOK(j), runner!Source(j)
    PROVE  Keeps(j)
<1>1. /\ place[j] = "source" /\ UNCHANGED <<prog, at, files, workDir, box, ran, stray>>
      /\ box[j] = "none" /\ ran[j] = 0 /\ at[j][1] = 1
  BY DEF runner!Source, runner!Proceeds, runner!Returns, runner!Goes, GradedOK, StagesOK,
         FilesOK
<1>2. CASE /\ prog[j].build = "empty" /\ runner!Returns(j, "source", "SE")
           /\ runner!Works
  <2>1. /\ place' = [place EXCEPT ![j] = "clean"] /\ result' = [result EXCEPT ![j] = "SE"]
        /\ UNCHANGED <<trouble, breakdowns>>
    BY <1>2 DEF runner!Returns, runner!Goes, runner!Works
  <2>2. place'[j] = "clean" /\ result'[j] = "SE"
    BY <2>1 DEF runner!TypeOK
  <2>3. HonestOK(j)'
    BY <1>1, <1>2, <2>2, HonestDeserved DEF runner!Deserved
  <2>4. GradedOK(j)'
    BY <1>1, <2>2, <2>3, ToClean
  <2>5. runner!TypeOK' /\ Own(j)
    BY <1>1, <2>1 DEF Own, runner!TypeOK
  <2> QED BY <2>4, <2>5 DEF Keeps
<1>3. CASE /\ ~prog[j].custom /\ runner!Returns(j, "source", "SE")
           /\ runner!Fails(j, "store")
  <2>1. /\ place' = [place EXCEPT ![j] = "clean"] /\ result' = [result EXCEPT ![j] = "SE"]
        /\ trouble' = trouble \cup {j} /\ breakdowns > 0 /\ breakdowns' = breakdowns - 1
    BY <1>3 DEF runner!Returns, runner!Goes, runner!Fails
  <2>2. place'[j] = "clean" /\ result'[j] = "SE"
    BY <2>1 DEF runner!TypeOK
  <2>3. HonestOK(j)'
    BY <2>1, <2>2, HonestFailure
  <2>4. GradedOK(j)'
    BY <1>1, <2>2, <2>3, ToClean
  <2>5. runner!TypeOK' /\ Own(j)
    BY <1>1, <2>1, JobsOK DEF Own, runner!TypeOK
  <2> QED BY <2>4, <2>5 DEF Keeps
<1>4. ASSUME NEW to \in {"cases", "compile"}, runner!Proceeds(j, "source", to),
             runner!Works,
             to = "cases" => prog[j].build = "none",
             to = "compile" => prog[j].build \notin {"empty", "none"}
      PROVE  Keeps(j)
  <2>1. /\ place' = [place EXCEPT ![j] = to] /\ UNCHANGED <<result, trouble, breakdowns>>
    BY <1>4 DEF runner!Proceeds, runner!Goes, runner!Works
  <2>2. place'[j] = to
    BY <2>1 DEF runner!TypeOK
  <2>3. HonestOK(j)'
    BY <1>1, <2>1, HonestKept DEF GradedOK
  <2>4. 1 \in runner!Case(j) /\ \A i \in runner!Case(j) : ~(i < 1)
    BY CasesTyped, JobsOK
  <2>5. StagesOK(j)' /\ RunsOK(j)' /\ FilesOK(j)' /\ LeftOK(j)'
    BY <1>1, <1>4, <2>1, <2>2, <2>4
       DEF StagesOK, RunsOK, FilesOK, LeftOK, runner!Case
  <2>6. runner!TypeOK' /\ Own(j)
    BY <1>1, <1>4, <2>1 DEF Own, runner!TypeOK
  <2> QED BY <2>3, <2>5, <2>6 DEF Keeps, GradedOK
<1> QED BY <1>2, <1>3, <1>4 DEF runner!Source

\* compile_code and run_all_cases start a container.
LEMMA LaunchKeeps ==
    ASSUME runner!TypeOK, NEW j \in Graded, GradedOK(j), NEW from, NEW to, NEW work,
           <<from, to, work>> \in {<<"compile", "built", "compiling">>,
                                   <<"run", "ran", "running">>},
           runner!Launch(j, from, to, work)
    PROVE  Keeps(j)
<1>1. /\ place[j] = from /\ UNCHANGED <<prog, at, files, workDir, ran>>
      /\ box[j] \in {"none", "ended", "removed"} /\ ran[j] = 0
  BY DEF runner!Launch, runner!Proceeds, runner!Returns, runner!Goes, GradedOK, StagesOK
<1>2. 1 \in runner!Case(j) /\ ran'[j] + 1 \in runner!Case(j)
  BY <1>1, CasesTyped
<1>3. CASE /\ runner!Proceeds(j, from, to) /\ box' = [box EXCEPT ![j] = work]
           /\ runner!Works /\ UNCHANGED stray
  <2>1. /\ place' = [place EXCEPT ![j] = to] /\ UNCHANGED <<result, trouble, breakdowns>>
    BY <1>3 DEF runner!Proceeds, runner!Goes, runner!Works
  <2>2. place'[j] = to /\ box'[j] = work
    BY <1>3, <2>1 DEF runner!TypeOK
  <2>3. HonestOK(j)'
    BY <1>1, <2>1, HonestKept DEF GradedOK
  <2>4. StagesOK(j)' /\ RunsOK(j)' /\ FilesOK(j)' /\ LeftOK(j)'
    BY <1>1, <1>2, <2>1, <2>2
       DEF GradedOK, StagesOK, RunsOK, FilesOK, LeftOK, runner!Case, runner!Place
  <2>5. runner!TypeOK' /\ Own(j)
    BY <1>1, <1>3, <2>1 DEF Own, runner!TypeOK
  <2> QED BY <2>3, <2>4, <2>5 DEF Keeps, GradedOK
<1>4. CASE /\ runner!Returns(j, from, runner!Failed(from)) /\ runner!Fails(j, "docker")
           /\ \/ UNCHANGED <<box, stray>>
              \/ box' = [box EXCEPT ![j] = work] /\ stray' = stray \cup {j}
  <2>1. /\ place' = [place EXCEPT ![j] = "clean"]
        /\ result' = [result EXCEPT ![j] = runner!Failed(from)]
        /\ trouble' = trouble \cup {j} /\ breakdowns > 0 /\ breakdowns' = breakdowns - 1
        /\ runner!Failed(from) \in {"SE", "CE"}
    BY <1>4 DEF runner!Returns, runner!Goes, runner!Fails, runner!Failed
  <2>2. place'[j] = "clean" /\ result'[j] \in {"SE", "CE"}
    BY <2>1 DEF runner!TypeOK
  <2>3. HonestOK(j)'
    BY <2>1, <2>2, HonestFailure
  <2>4. j \in stray' \/ box'[j] \notin {"compiling", "running"}
    BY <1>1, <1>4
  <2>5. GradedOK(j)'
    BY <1>1, <1>2, <2>2, <2>3, <2>4, ToClean
  <2>6. runner!TypeOK' /\ Own(j)
    BY <1>1, <1>4, <2>1, JobsOK DEF Own, runner!TypeOK
  <2> QED BY <2>5, <2>6 DEF Keeps
<1> QED BY <1>3, <1>4 DEF runner!Launch

LEMMA AttachKeeps ==
    ASSUME runner!TypeOK, NEW j \in Graded, GradedOK(j), NEW from, NEW to,
           <<from, to>> \in {<<"built", "building">>, <<"ran", "running">>},
           runner!Attach(j, from, to)
    PROVE  Keeps(j)
<1>1. /\ place[j] = from /\ UNCHANGED <<prog, at, files, workDir, box, ran, stray>>
      /\ UNCHANGED breakdowns
  BY DEF runner!Attach, runner!Proceeds, runner!Returns, runner!Goes, runner!Works
<1>2. CASE runner!Proceeds(j, from, to) /\ runner!Works
  <2>1. /\ place' = [place EXCEPT ![j] = to] /\ UNCHANGED <<result, trouble>>
    BY <1>2 DEF runner!Proceeds, runner!Goes, runner!Works
  <2>2. place'[j] = to
    BY <2>1 DEF runner!TypeOK
  <2>3. HonestOK(j)'
    BY <1>1, <2>1, HonestKept DEF GradedOK
  <2>4. StagesOK(j)' /\ FilesOK(j)' /\ LeftOK(j)'
    BY <1>1, <2>1, <2>2
       DEF GradedOK, StagesOK, FilesOK, LeftOK, runner!Case, runner!Place
  <2>5. RunsOK(j)'
    BY <1>1, <2>1, <2>2 DEF GradedOK, RunsOK, runner!Case
  <2>6. runner!TypeOK' /\ Own(j)
    BY <1>1, <2>1 DEF Own, runner!TypeOK
  <2> QED BY <2>3, <2>4, <2>5, <2>6 DEF Keeps, GradedOK
<1>3. CASE /\ box[j] = "removed" /\ runner!Returns(j, from, runner!Failed(from))
           /\ trouble' = trouble \cup {j}
  <2>1. /\ place' = [place EXCEPT ![j] = "clean"]
        /\ result' = [result EXCEPT ![j] = runner!Failed(from)]
        /\ runner!Failed(from) \in {"SE", "CE"}
    BY <1>3 DEF runner!Returns, runner!Goes, runner!Failed
  <2>2. place'[j] = "clean" /\ result'[j] \in {"SE", "CE"}
    BY <2>1 DEF runner!TypeOK
  <2>3. HonestOK(j)'
    BY <1>3, <2>2, HonestFailure
  <2>4. GradedOK(j)'
    BY <1>1, <1>3, <2>2, <2>3, ToClean
  <2>5. runner!TypeOK' /\ Own(j)
    BY <1>1, <1>3, <2>1 DEF Own, runner!TypeOK
  <2> QED BY <2>4, <2>5 DEF Keeps
<1> QED BY <1>2, <1>3 DEF runner!Attach

LEMMA BuiltKeeps ==
    ASSUME runner!TypeOK, NEW j \in Graded, GradedOK(j), runner!Built(j)
    PROVE  Keeps(j)
<1>1. /\ place[j] = "building" /\ box[j] \in {"ended", "removed"} /\ ran[j] = 0
      /\ UNCHANGED <<prog, at, files, workDir, box, ran, stray, trouble, breakdowns>>
      /\ prog[j].build \notin {"empty", "none"} /\ at[j][1] = 1
  BY DEF runner!Built, runner!Proceeds, runner!Returns, runner!Goes, runner!Works,
         runner!Over, GradedOK, StagesOK, FilesOK
<1>2. CASE prog[j].build = "good" /\ j \notin trouble
  <2>1. place' = [place EXCEPT ![j] = "cases"] /\ UNCHANGED result
    BY <1>2 DEF runner!Built, runner!Proceeds, runner!Goes
  <2>2. place'[j] = "cases"
    BY <2>1 DEF runner!TypeOK
  <2>3. HonestOK(j)'
    BY <1>1, <2>1, HonestKept DEF GradedOK
  <2>4. 1 \in runner!Case(j) /\ \A i \in runner!Case(j) : ~(i < 1)
    BY CasesTyped, JobsOK
  <2>5. StagesOK(j)' /\ RunsOK(j)' /\ FilesOK(j)' /\ LeftOK(j)'
    BY <1>1, <1>2, <2>1, <2>2, <2>4 DEF StagesOK, RunsOK, FilesOK, LeftOK, runner!Case
  <2>6. runner!TypeOK' /\ Own(j)
    BY <1>1, <2>1 DEF Own, runner!TypeOK
  <2> QED BY <2>3, <2>5, <2>6 DEF Keeps, GradedOK
<1>3. CASE ~(prog[j].build = "good" /\ j \notin trouble)
  <2>1. place' = [place EXCEPT ![j] = "clean"] /\ result' = [result EXCEPT ![j] = "CE"]
    BY <1>3 DEF runner!Built, runner!Returns, runner!Goes
  <2>2. place'[j] = "clean" /\ result'[j] = "CE"
    BY <2>1 DEF runner!TypeOK
  <2>3. HonestOK(j)'
    <3>1. CASE j \in trouble
      BY <1>1, <2>2, <3>1, HonestFailure
    <3>2. CASE j \notin trouble
      <4>1. prog[j].build \in {"bad", "slow"}
        BY <1>1, <1>3, <3>2, CasesTyped
      <4> QED BY <1>1, <2>2, <4>1, HonestDeserved DEF runner!Deserved
    <3> QED BY <3>1, <3>2
  <2>4. GradedOK(j)'
    BY <1>1, <2>2, <2>3, ToClean
  <2>5. runner!TypeOK' /\ Own(j)
    BY <1>1, <2>1 DEF Own, runner!TypeOK
  <2> QED BY <2>4, <2>5 DEF Keeps
<1> QED BY <1>2, <1>3

LEMMA RanKeeps ==
    ASSUME runner!TypeOK, NEW j \in Graded, GradedOK(j), runner!Ran(j)
    PROVE  Keeps(j)
<1>1. /\ place[j] = "running" /\ box[j] \in {"ended", "removed"}
      /\ place' = [place EXCEPT ![j] = "judge"]
      /\ UNCHANGED <<prog, at, files, workDir, box, ran, stray, trouble, breakdowns, result>>
  BY DEF runner!Ran, runner!Proceeds, runner!Goes, runner!Works, runner!Over
<1>2. place'[j] = "judge"
  BY <1>1 DEF runner!TypeOK
<1>3. HonestOK(j)'
  BY <1>1, HonestKept DEF GradedOK
<1>4. StagesOK(j)' /\ FilesOK(j)' /\ LeftOK(j)'
  BY <1>1, <1>2 DEF GradedOK, StagesOK, FilesOK, LeftOK, runner!Case, runner!Place
<1>5. RunsOK(j)'
  BY <1>1, <1>2 DEF GradedOK, RunsOK, runner!Case
<1>6. runner!TypeOK' /\ Own(j)
  BY <1>1 DEF Own, runner!TypeOK
<1> QED BY <1>3, <1>4, <1>5, <1>6 DEF Keeps, GradedOK

\* wait raises: the container is killed, or that fails too.
LEMMA WaitRaisesKeeps ==
    ASSUME runner!TypeOK, NEW j \in Graded, GradedOK(j),
           NEW from \in {"building", "running"}, runner!WaitRaises(j, from)
    PROVE  Keeps(j)
<1>1. /\ place[j] = from /\ UNCHANGED <<prog, at, files, workDir, ran>>
      /\ place' = [place EXCEPT ![j] = "clean"]
      /\ result' = [result EXCEPT ![j] = runner!Failed(from)]
      /\ runner!Failed(from) \in {"SE", "CE"}
  BY DEF runner!WaitRaises, runner!Returns, runner!Goes, runner!Failed
<1>2. place'[j] = "clean" /\ result'[j] = runner!Failed(from)
  BY <1>1 DEF runner!TypeOK
<1>3. /\ runner!Kill(j) \/ runner!KillFails(j)
      /\ \/ runner!Endless(j) /\ UNCHANGED <<trouble, breakdowns>>
         \/ /\ trouble' = trouble \cup {j} /\ breakdowns > 0
            /\ breakdowns' = breakdowns - 1
  BY DEF runner!WaitRaises, runner!Works, runner!Fails
<1>4. HonestOK(j)'
  <2>1. CASE j \in trouble'
    BY <1>1, <1>2, <2>1, HonestFailure
  <2>2. CASE runner!Endless(j) /\ from = "building"
    <3>1. prog[j].build = "slow" /\ runner!Failed(from) = "CE"
      BY <1>1, <2>2 DEF runner!Endless, runner!Failed, GradedOK, StagesOK
    <3> QED BY <1>1, <1>2, <3>1, HonestDeserved DEF runner!Deserved
  <2>3. CASE runner!Endless(j) /\ from = "running"
    <3>1. /\ prog[j].build \in {"none", "good"} /\ box[j] = "running"
          /\ prog[j].does[ran[j] + 1] = "stubborn" /\ runner!Failed(from) = "SE"
      BY <1>1, <2>3 DEF runner!Endless, runner!Failed, GradedOK, StagesOK
    <3>2. /\ ran[j] + 1 \in runner!Case(j) /\ ran[j] \in Nat
          /\ \A i \in 1..ran[j] : prog[j].does[i] \in {"right", "wrong"}
      BY <1>1, <2>3, <3>1 DEF GradedOK, StagesOK, RunsOK, runner!TypeOK
    <3>3. runner!Hangs(j)
      <4>1. 1..(ran[j] + 1) - 1 = 1..ran[j]
        BY <3>2
      <4> QED BY <3>1, <3>2, <4>1 DEF runner!Hangs
    <3> QED BY <1>1, <1>2, <3>1, <3>3, HonestDeserved DEF runner!Deserved
  <2> QED BY <1>3, <2>1, <2>2, <2>3
<1>5. /\ j \in stray' \/ box'[j] \notin {"compiling", "running"}
      /\ box'[j] = "running" => box[j] = "running"
  BY <1>3 DEF runner!Kill, runner!KillFails, runner!Up, runner!TypeOK
<1>6. GradedOK(j)'
  BY <1>1, <1>2, <1>4, <1>5, ToClean DEF GradedOK, StagesOK
<1>7. /\ box' \in [Graded -> {"none", "compiling", "running", "ended", "removed"}]
      /\ stray' \subseteq Graded /\ \A k \in Graded : k # j => box'[k] = box[k]
      /\ \A k \in Graded : k # j => (k \in stray' <=> k \in stray)
  BY <1>3 DEF runner!Kill, runner!KillFails, runner!TypeOK
<1>8. runner!TypeOK'
  <2>1. trouble' \subseteq Graded /\ breakdowns' \in 0..MaxBreakdowns
    BY <1>3, JobsOK DEF runner!TypeOK
  <2> QED BY <1>1, <1>7, <2>1 DEF runner!TypeOK
<1>9. Own(j)
  BY <1>1, <1>3, <1>7 DEF Own, runner!TypeOK
<1> QED BY <1>6, <1>8, <1>9 DEF Keeps

\* The thread passes a half that is on disk.
LEMMA AdvanceKeeps ==
    ASSUME runner!TypeOK, NEW j \in Graded, GradedOK(j), NEW from \in {"cases", "fetch"},
           runner!Advance(j, from), runner!Works,
           UNCHANGED <<prog, workDir, box, ran, stray>>,
           files' \in [Graded \cup {Cache} -> SUBSET ((1..Cases) \X runner!Half)],
           \A p \in Graded \cup {Cache} : files[p] \subseteq files'[p],
           at[j] \in files'[runner!Place(j)]
    PROVE  Keeps(j)
<1>t. /\ at[j][1] \in 1..Cases /\ at[j][2] \in {"input", "expected"}
      /\ at[j] = <<at[j][1], at[j][2]>>
      /\ at \in [Graded -> (1..Cases) \X {"input", "expected"}]
      /\ place \in [Graded -> {"start", "source", "compile", "built", "building", "cases",
                               "fetch", "run", "ran", "running", "judge", "clean", "done",
                               "dead"}]
  BY DEF runner!TypeOK, runner!Half
<1>c. /\ runner!Case(j)' = runner!Case(j) /\ runner!Place(j)' = runner!Place(j)
      /\ runner!Place(j) \in Graded \cup {Cache} /\ runner!Case(j) \subseteq 1..Cases
      /\ \E n \in 1..Cases : runner!Case(j) = 1..n
  BY CasesTyped DEF runner!Case, runner!Place
<1>1. /\ place[j] = from /\ UNCHANGED <<result, trouble, breakdowns>>
      /\ place'[j] \in {"cases", "run"} /\ place' = [place EXCEPT ![j] = place'[j]]
      /\ at' = [at EXCEPT ![j] = at'[j]]
  <2>1. UNCHANGED <<result, trouble, breakdowns>> /\ place[j] = from
    BY DEF runner!Advance, runner!Proceeds, runner!Goes, runner!Works
  <2>2. \E to \in {"cases", "run"} : place' = [place EXCEPT ![j] = to]
    BY DEF runner!Advance, runner!Proceeds, runner!Goes
  <2>3. \E to : at' = [at EXCEPT ![j] = to]
    <3>1. UNCHANGED at => at' = [at EXCEPT ![j] = at[j]]
      BY <1>t
    <3> QED BY <3>1 DEF runner!Advance
  <2> QED BY <1>t, <2>1, <2>2, <2>3
<1>2. \/ /\ at[j][2] = "input" /\ place'[j] = "cases"
         /\ at'[j] = <<at[j][1], "expected">>
      \/ /\ at[j][2] = "expected" /\ at[j][1] + 1 \in runner!Case(j) /\ place'[j] = "cases"
         /\ at'[j] = <<at[j][1] + 1, "input">>
      \/ /\ at[j][2] = "expected" /\ at[j][1] + 1 \notin runner!Case(j) /\ place'[j] = "run"
         /\ at'[j] = at[j]
  BY <1>t DEF runner!Advance, runner!Proceeds, runner!Goes
<1>3. /\ at[j][1] \in runner!Case(j)
      /\ \A i \in runner!Case(j) : i < at[j][1] =>
           <<i, "expected">> \in files'[runner!Place(j)]
  BY <1>1, <1>c DEF GradedOK, FilesOK
<1>4. HonestOK(j)'
  BY <1>1, HonestKept DEF GradedOK
<1>5. StagesOK(j)' /\ RunsOK(j)' /\ LeftOK(j)'
  BY <1>1, <1>c DEF GradedOK, StagesOK, RunsOK, LeftOK
<1>6. FilesOK(j)'
  <2>1. CASE at[j][2] = "input"
    BY <1>c, <1>1, <1>2, <1>3, <2>1 DEF FilesOK
  <2>2. CASE at[j][2] = "expected"
    <3>1. <<at[j][1], "expected">> \in files'[runner!Place(j)]
      BY <1>t, <2>2
    <3>2. \A i \in runner!Case(j) : i < at[j][1] + 1 => i < at[j][1] \/ i = at[j][1]
      BY <1>t, <1>c
    <3>3. \A i \in runner!Case(j) : i < at[j][1] + 1 =>
            <<i, "expected">> \in files'[runner!Place(j)]
      BY <1>3, <3>1, <3>2
    <3>4. at[j][1] + 1 \notin runner!Case(j) => \A i \in runner!Case(j) : i < at[j][1] + 1
      BY <1>t, <1>c, <1>3
    <3>5. CASE at[j][1] + 1 \in runner!Case(j)
      BY <1>c, <1>1, <1>2, <2>2, <3>3, <3>5 DEF FilesOK
    <3>6. CASE at[j][1] + 1 \notin runner!Case(j)
      BY <1>c, <1>1, <1>2, <2>2, <3>3, <3>4, <3>6 DEF FilesOK
    <3> QED BY <3>5, <3>6
  <2> QED BY <1>t, <2>1, <2>2
<1>7. at' \in [Graded -> (1..Cases) \X {"input", "expected"}]
  <2>1. at'[j] \in (1..Cases) \X {"input", "expected"}
    BY <1>t, <1>c, <1>2
  <2> QED BY <1>t, <1>1, <2>1
<1>8. runner!TypeOK'
  <2>1. place' \in [Graded -> {"start", "source", "compile", "built", "building", "cases",
                               "fetch", "run", "ran", "running", "judge", "clean", "done",
                               "dead"}]
    BY <1>t, <1>1
  <2> QED BY <1>1, <1>7, <2>1 DEF runner!TypeOK, runner!Half
<1>9. Own(j)
  <2>1. \A k \in Graded : k # j => place'[k] = place[k] /\ at'[k] = at[k]
    BY <1>t, <1>1
  <2> QED BY <1>1, <2>1 DEF Own
<1> QED BY <1>4, <1>5, <1>6, <1>8, <1>9 DEF Keeps, GradedOK

LEMMA LookKeeps ==
    ASSUME runner!TypeOK, NEW j \in Graded, GradedOK(j), runner!Look(j)
    PROVE  Keeps(j)
<1>1. UNCHANGED <<prog, files, workDir, box, ran, stray, trouble, breakdowns>>
      /\ runner!Works
  BY DEF runner!Look, runner!Works
<1>2. CASE runner!Present(j)
  <2>1. runner!Advance(j, "cases")
    BY <1>2 DEF runner!Look
  <2>2. at[j] \in files'[runner!Place(j)]
    BY <1>1, <1>2 DEF runner!Present, runner!Place
  <2>3. files' \in [Graded \cup {Cache} -> SUBSET ((1..Cases) \X runner!Half)]
    BY <1>1 DEF runner!TypeOK
  <2> QED BY <1>1, <2>1, <2>2, <2>3, AdvanceKeeps
<1>3. CASE ~runner!Present(j)
  <2>1. /\ place[j] = "cases" /\ place' = [place EXCEPT ![j] = "fetch"]
        /\ UNCHANGED <<at, result>>
    BY <1>3 DEF runner!Look, runner!Proceeds, runner!Goes
  <2>2. place'[j] = "fetch"
    BY <2>1 DEF runner!TypeOK
  <2>3. HonestOK(j)'
    BY <1>1, <2>1, HonestKept DEF GradedOK
  <2>4. StagesOK(j)' /\ RunsOK(j)' /\ FilesOK(j)' /\ LeftOK(j)'
    BY <1>1, <2>1, <2>2
       DEF GradedOK, StagesOK, RunsOK, FilesOK, LeftOK, runner!Case, runner!Place
  <2>5. runner!TypeOK' /\ Own(j)
    BY <1>1, <2>1 DEF Own, runner!TypeOK
  <2> QED BY <2>3, <2>4, <2>5 DEF Keeps, GradedOK
<1> QED BY <1>2, <1>3

LEMMA FetchKeeps ==
    ASSUME runner!TypeOK, NEW j \in Graded, GradedOK(j), runner!Fetch(j)
    PROVE  Keeps(j)
<1>1. UNCHANGED <<prog, workDir, box, ran, stray>>
  BY DEF runner!Fetch
<1>2. CASE /\ files' = [files EXCEPT ![runner!Place(j)] = @ \cup {at[j]}]
           /\ runner!Advance(j, "fetch") /\ runner!Works
  <2>1. files' \in [Graded \cup {Cache} -> SUBSET ((1..Cases) \X runner!Half)]
    BY <1>2, CasesTyped DEF runner!TypeOK
  <2>2. /\ at[j] \in files'[runner!Place(j)]
        /\ \A p \in Graded \cup {Cache} : files[p] \subseteq files'[p]
    BY <1>2, CasesTyped DEF runner!TypeOK
  <2> QED BY <1>1, <1>2, <2>1, <2>2, AdvanceKeeps
<1>3. CASE /\ ~prog[j].custom /\ runner!Returns(j, "fetch", "SE")
           /\ runner!Fails(j, "store") /\ UNCHANGED <<files, at>>
  <2>1. /\ place[j] = "fetch" /\ place' = [place EXCEPT ![j] = "clean"]
        /\ result' = [result EXCEPT ![j] = "SE"]
        /\ trouble' = trouble \cup {j} /\ breakdowns > 0 /\ breakdowns' = breakdowns - 1
    BY <1>3 DEF runner!Returns, runner!Goes, runner!Fails
  <2>2. place'[j] = "clean" /\ result'[j] = "SE"
    BY <2>1 DEF runner!TypeOK
  <2>3. HonestOK(j)'
    BY <2>1, <2>2, HonestFailure
  <2>4. GradedOK(j)'
    BY <1>1, <2>1, <2>2, <2>3, ToClean DEF GradedOK, StagesOK
  <2>5. runner!TypeOK' /\ Own(j)
    BY <1>1, <1>3, <2>1, JobsOK DEF Own, runner!TypeOK
  <2> QED BY <2>4, <2>5 DEF Keeps
<1> QED BY <1>2, <1>3 DEF runner!Fetch

LEMMA CleanKeeps ==
    ASSUME runner!TypeOK, NEW j \in Graded, GradedOK(j), runner!Clean(j)
    PROVE  Keeps(j)
<1>1. /\ place[j] = "clean" /\ place' = [place EXCEPT ![j] = "done"]
      /\ UNCHANGED <<prog, at, box, ran, stray, result, trouble, breakdowns>>
      /\ files' = [p \in DOMAIN files |-> IF p = j THEN {} ELSE files[p]]
      /\ workDir' = workDir \ {j} \/ (j \in stray /\ UNCHANGED workDir)
  BY DEF runner!Clean, runner!Proceeds, runner!Goes, runner!Works
<1>2. place'[j] = "done"
  BY <1>1 DEF runner!TypeOK
<1>3. HonestOK(j)'
  BY <1>1, HonestKept DEF GradedOK
<1>4. StagesOK(j)' /\ RunsOK(j)' /\ FilesOK(j)'
  BY <1>1, <1>2 DEF GradedOK, StagesOK, RunsOK, FilesOK, runner!Case
<1>5. LeftOK(j)'
  BY <1>1, <1>2 DEF GradedOK, LeftOK, runner!Up
<1>6. runner!TypeOK'
  BY <1>1 DEF runner!TypeOK
<1>7. Own(j)
  BY <1>1 DEF Own, runner!TypeOK
<1> QED BY <1>3, <1>4, <1>5, <1>6, <1>7 DEF Keeps, GradedOK

-----------------------------------------------------------------------------
(* The runner: containers *)

LEMMA BoxKeeps ==
    ASSUME runner!TypeOK, NEW j \in Graded, GradedOK(j), runner!BoxWorks(j)
    PROVE  Keeps(j)
<1>1. UNCHANGED <<prog, place, at, files, workDir, result, trouble, stray, breakdowns>>
  BY DEF runner!BoxWorks
<1>c. runner!Case(j)' = runner!Case(j) /\ runner!Place(j)' = runner!Place(j)
  BY <1>1 DEF runner!Case, runner!Place
<1>2. HonestOK(j)' /\ FilesOK(j)'
  BY <1>1, <1>c, HonestKept DEF GradedOK, FilesOK
<1>3. CASE runner!EndBuild(j) \/ runner!AutoRemove(j)
  <2>1. /\ UNCHANGED ran
        /\ \/ box[j] = "compiling" /\ box' = [box EXCEPT ![j] = "ended"]
           \/ box[j] = "ended" /\ box' = [box EXCEPT ![j] = "removed"]
    BY <1>3 DEF runner!EndBuild, runner!AutoRemove, runner!Ends
  <2>2. \/ box[j] = "compiling" /\ box'[j] = "ended"
        \/ box[j] = "ended" /\ box'[j] = "removed"
    BY <2>1 DEF runner!TypeOK
  <2>3. StagesOK(j)' /\ RunsOK(j)' /\ LeftOK(j)'
    BY <1>1, <1>c, <2>1, <2>2 DEF GradedOK, StagesOK, RunsOK, LeftOK, runner!Up
  <2>4. runner!TypeOK' /\ Own(j)
    BY <1>1, <2>1 DEF Own, runner!TypeOK
  <2> QED BY <1>2, <2>3, <2>4 DEF Keeps, GradedOK
<1>4. CASE runner!RunCase(j)
  <2> DEFINE n == ran[j] + 1
  <2>1. /\ box[j] = "running" /\ prog[j].does[n] # "stubborn"
        /\ ran' = [ran EXCEPT ![j] = n]
        /\ box' = IF prog[j].does[n] \in {"right", "wrong"} /\ ran[j] + 2 \in runner!Case(j)
                  THEN box ELSE [box EXCEPT ![j] = "ended"]
    BY <1>4 DEF runner!RunCase, runner!Endless, runner!Ends, runner!TypeOK
  <2>2. /\ n \in runner!Case(j) /\ runner!Case(j) \subseteq 1..Cases /\ ran[j] \in Nat
        /\ n \in Nat /\ n # 0 /\ n - 1 = ran[j] /\ ran[j] + 2 = n + 1
        /\ \A i \in 1..n : i \in 1..ran[j] \/ i = n
        /\ prog[j].does[n] \in {"right", "wrong", "crash", "slow", "stubborn"}
    <3>1. ran[j] \in Nat
      BY JobsOK DEF runner!TypeOK
    <3>2. n \in runner!Case(j)
      BY <2>1 DEF GradedOK, StagesOK
    <3>3. runner!Case(j) \subseteq 1..Cases
      BY CasesTyped
    <3>4. prog[j].does \in [1..Cases -> {"right", "wrong", "crash", "slow", "stubborn"}]
      BY CasesTyped
    <3>5. prog[j].does[n] \in {"right", "wrong", "crash", "slow", "stubborn"}
      BY <3>2, <3>3, <3>4
    <3>6. n \in Nat /\ n # 0 /\ n - 1 = ran[j] /\ ran[j] + 2 = n + 1
      BY <3>1
    <3>7. \A i \in 1..n : i \in 1..ran[j] \/ i = n
      BY <3>1
    <3> QED BY <3>1, <3>2, <3>3, <3>5, <3>6, <3>7
  <2>3. /\ ran'[j] = n
        /\ \/ /\ box'[j] = "running" /\ prog[j].does[n] \in {"right", "wrong"}
              /\ n + 1 \in runner!Case(j)
           \/ /\ box'[j] = "ended"
              /\ n + 1 \notin runner!Case(j) \/ prog[j].does[n] \in {"crash", "slow"}
    <3>1. DOMAIN ran = Graded /\ DOMAIN box = Graded
      BY DEF runner!TypeOK
    <3>2. ran'[j] = n
      BY <2>1, <3>1
    <3>3. CASE prog[j].does[n] \in {"right", "wrong"} /\ n + 1 \in runner!Case(j)
      BY <2>1, <2>2, <3>2, <3>3
    <3>4. CASE ~(prog[j].does[n] \in {"right", "wrong"} /\ n + 1 \in runner!Case(j))
      <4>1. box'[j] = "ended"
        BY <2>1, <2>2, <3>1, <3>4
      <4> QED BY <2>1, <2>2, <3>2, <3>4, <4>1
    <3> QED BY <3>3, <3>4
  <2>4. StagesOK(j)'
    <3>1. /\ place[j] \in {"ran", "running"} \/ place[j] \in {"clean", "done", "dead"}
          /\ place[j] \in {"ran", "running"} => prog[j].build \in {"none", "good"}
      BY <2>1, JobsOK DEF GradedOK, StagesOK, runner!TypeOK
    <3>2. place'[j] = place[j] /\ prog' = prog
      BY <1>1
    <3>3. box'[j] \in {"running", "ended"}
      BY <2>3
    <3>4. box'[j] = "running" => ran'[j] + 1 \in runner!Case(j)'
      BY <1>c, <2>3
    <3> QED BY <3>1, <3>2, <3>3, <3>4 DEF StagesOK
  <2>5. RunsOK(j)'
    <3> SUFFICES ASSUME place[j] \in {"ran", "running", "judge"}
                 PROVE  /\ n = 0 \/ n \in runner!Case(j)
                        /\ \A i \in 1..n : prog[j].does[i] # "stubborn"
                        /\ \A i \in 1..n - 1 : prog[j].does[i] \in {"right", "wrong"}
                        /\ box'[j] = "running" =>
                             \A i \in 1..n : prog[j].does[i] \in {"right", "wrong"}
                        /\ box'[j] # "running" /\ j \notin trouble =>
                             \/ n + 1 \notin runner!Case(j)
                             \/ n # 0 /\ prog[j].does[n] \in {"crash", "slow"}
      BY <1>1, <1>c, <2>3 DEF RunsOK
    <3>1. /\ \A i \in 1..ran[j] : prog[j].does[i] # "stubborn"
          /\ \A i \in 1..ran[j] : prog[j].does[i] \in {"right", "wrong"}
      BY <2>1 DEF GradedOK, RunsOK
    <3> QED BY <2>1, <2>2, <2>3, <3>1
  <2>6. LeftOK(j)'
    BY <1>1, <2>1, <2>3 DEF GradedOK, LeftOK, runner!Up
  <2>7. ran' \in [Graded -> 0..Cases]
        /\ box' \in [Graded -> {"none", "compiling", "running", "ended", "removed"}]
        /\ \A k \in Graded : k # j => ran'[k] = ran[k] /\ box'[k] = box[k]
    BY <2>1, <2>2 DEF runner!TypeOK
  <2>8. runner!TypeOK' /\ Own(j)
    BY <1>1, <2>7 DEF Own, runner!TypeOK
  <2> QED BY <1>2, <2>4, <2>5, <2>6, <2>8 DEF Keeps, GradedOK
<1> QED BY <1>3, <1>4 DEF runner!BoxWorks

LEMMA BoxDiesKeeps ==
    ASSUME runner!TypeOK, NEW j \in Graded, GradedOK(j), runner!BoxDies(j)
    PROVE  Keeps(j)
<1>1. /\ box[j] \in {"compiling", "running"} /\ box' = [box EXCEPT ![j] = "ended"]
      /\ trouble' = trouble \cup {j} /\ breakdowns > 0 /\ breakdowns' = breakdowns - 1
      /\ UNCHANGED <<prog, place, at, files, workDir, ran, result, stray>>
  BY DEF runner!BoxDies, runner!Up, runner!Fails, runner!Ends
<1>2. box'[j] = "ended" /\ j \in trouble'
  BY <1>1 DEF runner!TypeOK
<1>c. runner!Case(j)' = runner!Case(j) /\ runner!Place(j)' = runner!Place(j)
  BY <1>1 DEF runner!Case, runner!Place
<1>3. HonestOK(j)' /\ FilesOK(j)'
  BY <1>1, <1>c, HonestKept DEF GradedOK, FilesOK
<1>4. StagesOK(j)' /\ RunsOK(j)' /\ LeftOK(j)'
  BY <1>1, <1>2, <1>c DEF GradedOK, StagesOK, RunsOK, LeftOK, runner!Up
<1>5. runner!TypeOK' /\ Own(j)
  BY <1>1, JobsOK DEF Own, runner!TypeOK
<1> QED BY <1>3, <1>4, <1>5 DEF Keeps, GradedOK

LEMMA CrashKeeps ==
    ASSUME runner!TypeOK, runner!Crash, NEW j \in Graded, GradedOK(j)
    PROVE  runner!TypeOK' /\ GradedOK(j)'
<1>1. /\ place' = [k \in Graded |-> IF place[k] \in {"start", "done"} THEN place[k] ELSE "dead"]
      /\ UNCHANGED <<prog, at, files, workDir, box, ran, result, trouble, stray>>
      /\ breakdowns > 0 /\ breakdowns' = breakdowns - 1
  BY DEF runner!Crash
<1>2. place'[j] \in {place[j], "dead"}
  BY <1>1
<1>3. HonestOK(j)'
  BY <1>1, HonestKept DEF GradedOK
<1>4. StagesOK(j)' /\ RunsOK(j)' /\ FilesOK(j)' /\ LeftOK(j)'
  BY <1>1, <1>2 DEF GradedOK, StagesOK, RunsOK, FilesOK, LeftOK, runner!Up, runner!Case,
                    runner!Place
<1>5. runner!TypeOK'
  BY <1>1, JobsOK DEF runner!TypeOK
<1> QED BY <1>3, <1>4, <1>5 DEF GradedOK

-----------------------------------------------------------------------------
(* The runner: its verdict *)

\* A set of natural numbers that is not empty has a least element.
LEMMA LeastElement ==
    ASSUME NEW S \in SUBSET Nat, S # {}
    PROVE  \E m \in S : \A k \in S : m <= k
<1> DEFINE R == {ss \in Nat \X Nat : ss[1] < ss[2]}
<1>1. IsWellFoundedOn(R, Nat)
  BY NatLessThanWellFounded DEF OpToRel
<1> HIDE DEF R
<1>2. PICK m \in S : \A k \in S : ~(<<k, m>> \in R)
  BY <1>1, WFMin, Zenon
<1>3. ASSUME NEW k \in S PROVE m <= k
  <2>1. m \in Nat /\ k \in Nat /\ ~(<<k, m>> \in R)
    BY <1>2
  <2>2. <<k, m>> \in Nat \X Nat /\ <<k, m>>[1] = k /\ <<k, m>>[2] = m
    BY <2>1
  <2>3. ~(k < m)
    BY <2>1, <2>2 DEF R
  <2> QED BY <2>1, <2>3
<1> QED BY <1>3

Earliest(S) == CHOOSE i \in S : \A k \in S : i <= k

LEMMA EarliestIs ==
    ASSUME NEW S \in SUBSET Nat, NEW m \in S, \A k \in S : m <= k
    PROVE  Earliest(S) = m
<1>1. \A n \in S : (\A k \in S : n <= k) => n = m
  OBVIOUS
<1> QED BY <1>1 DEF Earliest

LEMMA EarliestFirst ==
    ASSUME NEW S \in SUBSET Nat, S # {}
    PROVE  Earliest(S) \in S /\ \A k \in S : Earliest(S) <= k
BY LeastElement, Zenon DEF Earliest

\* The verdict over the cases of a container that has ended: that of the
\* submission's cases, or SE at the first case that was not run.
LEMMA VerdictOfRun ==
    ASSUME runner!TypeOK, NEW j \in Graded,
           ran[j] = 0 \/ ran[j] \in runner!Case(j),
           \A i \in 1..ran[j] : prog[j].does[i] # "stubborn",
           \A i \in runner!Case(j) : <<i, "expected">> \in files[runner!Place(j)]
    PROVE  \/ /\ runner!Verdict(j) = runner!OfCases(j)
              /\ \/ ran[j] + 1 \notin runner!Case(j)
                 \/ \E i \in 1..ran[j] : prog[j].does[i] # "right"
           \/ /\ runner!Verdict(j) = "SE" /\ ran[j] + 1 \in runner!Case(j)
              /\ \A i \in 1..ran[j] : prog[j].does[i] = "right"
<1> DEFINE does == prog[j].does
           F == {i \in runner!Case(j) : does[i] # "right"}
           M == {i \in runner!Case(j) : runner!Mark(j, i) # "AC"}
<1>1. PICK n \in 1..Cases : runner!Case(j) = 1..n
  BY CasesTyped
<1>2. /\ n \in Nat /\ n # 0 /\ ran[j] \in Nat /\ ran[j] <= n
      /\ runner!Case(j) \subseteq Nat /\ 1..ran[j] \subseteq runner!Case(j)
      /\ \A i \in runner!Case(j) : i \in 1..ran[j] <=> ~(i > ran[j])
      /\ \A i \in runner!Case(j) : does[i] \in {"right", "wrong", "crash", "slow", "stubborn"}
  <2>1. n \in Nat /\ n # 0 /\ n <= Cases
    BY JobsOK
  <2>2. ran[j] \in Nat /\ ran[j] <= n
    BY <1>1, <2>1, JobsOK DEF runner!TypeOK
  <2>3. \A i \in 1..n : does[i] \in {"right", "wrong", "crash", "slow", "stubborn"}
    BY <1>1, CasesTyped
  <2> QED BY <1>1, <2>1, <2>2, <2>3
<1>3. ASSUME NEW i \in runner!Case(j)
      PROVE  /\ i > ran[j] => runner!Mark(j, i) = "SE"
             /\ ~(i > ran[j]) =>
                  /\ does[i] = "right" => runner!Mark(j, i) = "AC"
                  /\ does[i] = "wrong" => runner!Mark(j, i) = "WA"
                  /\ does[i] = "crash" => runner!Mark(j, i) = "RE"
                  /\ does[i] = "slow" => runner!Mark(j, i) = "TLE"
  <2>1. <<i, "expected">> \in files[runner!Place(j)]
    OBVIOUS
  <2>2. runner!Mark(j, i) =
          IF i > ran[j] THEN "SE"
          ELSE CASE does[i] = "slow"  -> "TLE"
                 [] does[i] = "crash" -> "RE"
                 [] OTHER -> IF does[i] = "wrong" THEN "WA" ELSE "AC"
    BY <2>1 DEF runner!Mark
  <2> HIDE DEF does
  <2> QED BY <2>2
<1>4. /\ F \in SUBSET Nat /\ M \in SUBSET Nat
      /\ runner!Verdict(j) = IF M = {} THEN "AC" ELSE runner!Mark(j, Earliest(M))
  <2>1. runner!Case(j) \subseteq Nat
    BY <1>2
  <2>2. runner!Verdict(j) = IF M = {} THEN "AC" ELSE runner!Mark(j, Earliest(M))
    BY DEF runner!Verdict, Earliest
  <2> QED BY <2>1, <2>2
<1>5. runner!OfCases(j) =
        IF F = {} THEN "AC"
        ELSE CASE does[Earliest(F)] = "wrong"    -> "WA"
               [] does[Earliest(F)] = "crash"    -> "RE"
               [] does[Earliest(F)] = "slow"     -> "TLE"
               [] does[Earliest(F)] = "stubborn" -> "SE"
  BY DEF runner!OfCases, Earliest
<1>6. CASE \E i \in 1..ran[j] : does[i] # "right"
  <2>1. F # {}
    BY <1>2, <1>6
  <2> DEFINE e == Earliest(F)
  <2>2. e \in F /\ \A k \in F : e <= k
    BY <1>4, <2>1, EarliestFirst
  <2> HIDE DEF e
  <2>3. e \in 1..ran[j]
    BY <1>2, <1>6, <2>2
  <2>4. does[e] \in {"wrong", "crash", "slow"}
    BY <1>2, <2>2, <2>3
  <2>5. e \in M
    BY <1>2, <1>3, <2>2, <2>3, <2>4
  <2>6. ASSUME NEW k \in M PROVE e <= k
    <3>1. CASE k > ran[j]
      BY <1>2, <2>3, <3>1
    <3>2. CASE ~(k > ran[j])
      BY <1>2, <1>3, <2>2, <3>2
    <3> QED BY <3>1, <3>2
  <2>7. Earliest(M) = e
    BY <1>4, <2>5, <2>6, EarliestIs
  <2>8. runner!Verdict(j) = runner!Mark(j, e)
    BY <1>4, <2>5, <2>7
  <2>9. runner!OfCases(j) = runner!Mark(j, e)
    BY <1>2, <1>3, <1>5, <2>1, <2>2, <2>3, <2>4 DEF e
  <2> QED BY <1>6, <2>8, <2>9
<1>7. CASE \A i \in 1..ran[j] : does[i] = "right"
  <2>1. CASE ran[j] + 1 \in runner!Case(j)
    <3>1. ran[j] + 1 \in M
      BY <1>2, <1>3, <2>1
    <3>2. ASSUME NEW k \in M PROVE ran[j] + 1 <= k
      <4>1. k \in runner!Case(j) /\ runner!Mark(j, k) # "AC" /\ k \in Nat
        BY <1>2
      <4>2. k > ran[j]
        BY <1>2, <1>3, <1>7, <4>1
      <4> QED BY <1>2, <4>1, <4>2
    <3>3. Earliest(M) = ran[j] + 1
      BY <1>4, <3>1, <3>2, EarliestIs
    <3> QED BY <1>2, <1>3, <1>4, <1>7, <2>1, <3>1, <3>3
  <2>2. CASE ran[j] + 1 \notin runner!Case(j)
    <3>1. \A i \in runner!Case(j) : i \in 1..ran[j]
      BY <1>1, <1>2, <2>2
    <3>2. F = {} /\ M = {}
      BY <1>2, <1>3, <1>7, <3>1
    <3> QED BY <1>4, <1>5, <2>2, <3>2
  <2> QED BY <2>1, <2>2
<1> QED BY <1>6, <1>7

LEMMA JudgeKeeps ==
    ASSUME runner!TypeOK, NEW j \in Graded, GradedOK(j), runner!Judge(j)
    PROVE  Keeps(j)
<1>1. /\ place[j] = "judge" /\ place' = [place EXCEPT ![j] = "clean"]
      /\ result' = [result EXCEPT ![j] = runner!Verdict(j)]
      /\ UNCHANGED <<prog, at, files, workDir, box, ran, stray, trouble, breakdowns>>
  BY DEF runner!Judge, runner!Returns, runner!Goes, runner!Works
<1>2. place'[j] = "clean" /\ result'[j] = runner!Verdict(j)
  BY <1>1 DEF runner!TypeOK
<1>3. /\ prog[j].build \in {"none", "good"} /\ box[j] \in {"ended", "removed"}
      /\ ran[j] = 0 \/ ran[j] \in runner!Case(j)
      /\ \A i \in 1..ran[j] : prog[j].does[i] # "stubborn"
      /\ \A i \in runner!Case(j) : <<i, "expected">> \in files[runner!Place(j)]
      /\ j \notin trouble =>
           \/ ran[j] + 1 \notin runner!Case(j)
           \/ ran[j] # 0 /\ prog[j].does[ran[j]] \in {"crash", "slow"}
  BY <1>1 DEF GradedOK, StagesOK, RunsOK, FilesOK
<1>4. ran[j] \in Nat
  BY JobsOK DEF runner!TypeOK
<1>5. HonestOK(j)'
  <2>1. CASE j \notin trouble
    <3>1. ~runner!Hangs(j)
      <4> SUFFICES ASSUME NEW i \in runner!Case(j), prog[j].does[i] = "stubborn",
                          \A k \in 1..i - 1 : prog[j].does[k] \in {"right", "wrong"}
                   PROVE  FALSE
        BY DEF runner!Hangs
      <4>1. PICK n \in 1..Cases : runner!Case(j) = 1..n
        BY CasesTyped
      <4>2. i \in Nat /\ i > ran[j] /\ n \in Nat /\ i <= n
        BY <1>3, <1>4, <4>1, JobsOK
      <4>3. ran[j] + 1 \in runner!Case(j)
        BY <1>4, <4>1, <4>2
      <4>4. ran[j] # 0 /\ prog[j].does[ran[j]] \in {"crash", "slow"}
        BY <1>3, <2>1, <4>3
      <4>5. ran[j] \in 1..i - 1
        BY <1>4, <4>2, <4>4
      <4> QED BY <4>4, <4>5
    <3>2. runner!Verdict(j) = runner!OfCases(j)
      <4>1. CASE ran[j] + 1 \notin runner!Case(j)
        BY <1>3, <4>1, VerdictOfRun
      <4>2. CASE ran[j] # 0 /\ prog[j].does[ran[j]] \in {"crash", "slow"}
        <5>1. ran[j] \in 1..ran[j]
          BY <1>4, <4>2
        <5> QED BY <1>3, <4>2, <5>1, VerdictOfRun
      <4> QED BY <1>3, <2>1, <4>1, <4>2
    <3>3. runner!Verdict(j) = runner!Deserved(j)
      BY <1>3, <3>1, <3>2 DEF runner!Deserved
    <3> QED BY <1>1, <1>2, <3>3, HonestDeserved
  <2>2. CASE j \in trouble
    <3>1. CASE runner!Verdict(j) = "SE"
      BY <1>1, <1>2, <2>2, <3>1, HonestFailure
    <3>2. CASE runner!Verdict(j) = runner!OfCases(j) /\ runner!Hangs(j)
      BY <1>1, <1>2, <1>3, <2>2, <3>2, DesertFixed DEF HonestOK
    <3>3. CASE runner!Verdict(j) = runner!OfCases(j) /\ ~runner!Hangs(j)
      <4>1. runner!Verdict(j) = runner!Deserved(j)
        BY <1>3, <3>3 DEF runner!Deserved
      <4> QED BY <1>1, <1>2, <4>1, HonestDeserved
    <3> QED BY <1>3, <3>1, <3>2, <3>3, VerdictOfRun
  <2> QED BY <2>1, <2>2
<1>6. GradedOK(j)'
  BY <1>1, <1>2, <1>3, <1>5, ToClean
<1>7. runner!Verdict(j) \in {"none", "AC", "WA", "RE", "TLE", "CE", "SE"}
  <2>1. ASSUME NEW i PROVE runner!Mark(j, i) \in {"AC", "WA", "RE", "TLE", "SE"}
    BY DEF runner!Mark
  <2> QED BY <2>1 DEF runner!Verdict
<1>8. runner!TypeOK' /\ Own(j)
  BY <1>1, <1>7 DEF Own, runner!TypeOK
<1> QED BY <1>6, <1>8 DEF Keeps

-----------------------------------------------------------------------------
(* The runner: theorems *)

RunnerInv == runner!TypeOK /\ \A j \in Graded : GradedOK(j)

LEMMA RunnerInit == PipelineInit => RunnerInv
<1> SUFFICES ASSUME runner!Init PROVE RunnerInv
  BY DEF PipelineInit
<1>1. runner!TypeOK
  <2>1. <<1, "input">> \in (1..Cases) \X runner!Half
    BY JobsOK DEF runner!Half
  <2>2. 0 \in 0..Cases /\ MaxBreakdowns \in 0..MaxBreakdowns
    BY JobsOK
  <2> QED BY <2>1, <2>2 DEF runner!Init, runner!TypeOK
<1>2. ASSUME NEW j \in Graded PROVE GradedOK(j)
  <2>1. /\ place[j] = "start" /\ at[j][1] = 1 /\ box[j] = "none" /\ ran[j] = 0
        /\ result[j] = "none"
    BY DEF runner!Init
  <2> QED BY <2>1 DEF GradedOK, StagesOK, RunsOK, FilesOK, LeftOK, HonestOK, runner!Up
<1> QED BY <1>1, <1>2 DEF RunnerInv

LEMMA RunnerStep == RunnerInv /\ [PipelineNext]_partVars => RunnerInv'
<1> SUFFICES ASSUME RunnerInv, [runner!Next]_runnerVars PROVE RunnerInv'
  BY PartsStep
<1>1. ASSUME NEW j \in Graded, Keeps(j) PROVE RunnerInv'
  <2>1. \A k \in Graded : k # j => GradedOK(k)'
    BY <1>1, OthersKeep DEF Keeps, RunnerInv
  <2> QED BY <1>1, <2>1 DEF Keeps, RunnerInv
<1>2. ASSUME NEW j \in Graded, runner!Thread(j) PROVE Keeps(j)
  <2>0. runner!TypeOK /\ GradedOK(j)
    BY DEF RunnerInv
  <2>1. CASE runner!Start(j) \/ runner!Source(j) \/ runner!Look(j) \/ runner!Fetch(j)
             \/ runner!Judge(j) \/ runner!Clean(j)
    BY <2>0, <2>1, StartKeeps, SourceKeeps, LookKeeps, FetchKeeps, JudgeKeeps, CleanKeeps
  <2>2. CASE runner!Compile(j) \/ runner!RunAll(j)
    BY <2>0, <2>2, LaunchKeeps DEF runner!Compile, runner!RunAll
  <2>3. CASE runner!AttachCompiler(j) \/ runner!AttachRun(j)
    BY <2>0, <2>3, AttachKeeps DEF runner!AttachCompiler, runner!AttachRun
  <2>4. CASE runner!Built(j) \/ runner!Ran(j)
    BY <2>0, <2>4, BuiltKeeps, RanKeeps
  <2>5. CASE runner!WaitRaises(j, "building") \/ runner!WaitRaises(j, "running")
    BY <2>0, <2>5, WaitRaisesKeeps
  <2> QED BY <1>2, <2>1, <2>2, <2>3, <2>4, <2>5 DEF runner!Thread
<1>3. ASSUME NEW j \in Graded, runner!BoxWorks(j) \/ runner!BoxDies(j) PROVE Keeps(j)
  BY <1>3, BoxKeeps, BoxDiesKeeps DEF RunnerInv
<1>4. CASE runner!Crash
  <2>1. \A j \in Graded : GradedOK(j)'
    BY <1>4, CrashKeeps DEF RunnerInv
  <2>2. runner!TypeOK'
    BY <1>4, JobsOK DEF runner!Crash, RunnerInv, runner!TypeOK
  <2> QED BY <2>1, <2>2 DEF RunnerInv
<1>5. CASE UNCHANGED runnerVars
  <2>1. runner!TypeOK'
    BY <1>5 DEF runnerVars, RunnerInv, runner!TypeOK
  <2>2. ASSUME NEW j \in Graded PROVE GradedOK(j)'
    <3>1. GradedOK(j) /\ prog' = prog
      BY <1>5 DEF runnerVars, RunnerInv
    <3>2. HonestOK(j)'
      BY <1>5, <3>1, HonestKept DEF runnerVars, GradedOK
    <3>3. StagesOK(j)' /\ RunsOK(j)' /\ FilesOK(j)' /\ LeftOK(j)'
      BY <1>5, <3>1 DEF runnerVars, GradedOK, StagesOK, RunsOK, FilesOK, LeftOK,
                        runner!Up, runner!Case, runner!Place
    <3> QED BY <3>2, <3>3 DEF GradedOK
  <2> QED BY <2>1, <2>2 DEF RunnerInv
<1> QED BY <1>1, <1>2, <1>3, <1>4, <1>5 DEF runner!Next, runner!vars, runnerVars

\* Whatever a submission does, whatever other threads do to the shared cache
\* and whenever a container ends or dies, the verdict of grade_submission is
\* the one the submission deserves or tells of a failure (runner.py:36, :132,
\* :237).
THEOREM VerdictsAreHonest == PipelineSpec => []HonestVerdict
<1>1. RunnerInv => HonestVerdict
  BY DEF RunnerInv, GradedOK, HonestOK, HonestVerdict, runner!HonestVerdict
<1> QED BY <1>1, RunnerInit, RunnerStep, PTL DEF PipelineSpec

\* A thread that has returned leaves no directory and no container at work,
\* unless Docker refused to start or stop one properly (runner.py:84, :137,
\* :274).
THEOREM ThreadsTidyUp == PipelineSpec => []NothingLeftBehind
<1>1. RunnerInv => NothingLeftBehind
  BY DEF RunnerInv, GradedOK, LeftOK, NothingLeftBehind, runner!NothingLeftBehind
<1> QED BY <1>1, RunnerInit, RunnerStep, PTL DEF PipelineSpec

-----------------------------------------------------------------------------
(* The cooldown *)

LEMMA CooldownOK ==
    /\ Duration \in [Request -> Nat \ {0}] /\ Second \in Nat \ {0}
BY PipelineAssumption DEF cooldown!CooldownAssumption

\* Retry-After, rounded up to whole seconds, is never too short.
LEMMA RetryCovers ==
    ASSUME NEW p \in Nat
    PROVE  cooldown!Retry(p) \in Nat /\ Second * cooldown!Retry(p) >= p
<1> DEFINE q == (p + Second - 1) \div Second
<1>1. Second \in Nat \ {0}
  BY CooldownOK
<1>2. q \in Nat /\ Second * q >= p
  BY <1>1
<1> HIDE DEF q
<1>3. \E x \in {1, q} : \A y \in {1, q} : x >= y
  BY <1>2
<1>4. cooldown!Max({1, q}) \in {1, q} /\ cooldown!Max({1, q}) >= q
  BY <1>3, Zenon DEF cooldown!Max
<1>5. cooldown!Retry(p) = cooldown!Max({1, q})
  BY DEF cooldown!Retry, q
<1>6. ASSUME NEW m \in Nat, m >= q PROVE Second * m >= Second * q
  BY <1>1, <1>2, <1>6
<1> QED BY <1>1, <1>2, <1>4, <1>5, <1>6

\* The key outlasts the cooldown of the last request that knows it has set it.
\* Who was told to wait was told to wait for the key to expire, and who has
\* come again has waited.
CooldownInv ==
    /\ now \in Nat /\ until \in Nat /\ owed \in Nat
    /\ step \in [Request -> {"away", "set", "look", "allowed", "refused", "failed"}]
    /\ hint \in [Request -> Nat] /\ patient \subseteq Request
    /\ owed <= until
    /\ \A r \in patient : /\ until <= hint[r] /\ step[r] # "away"
                          /\ step[r] # "refused" => until <= now

LEMMA CooldownInit == PipelineInit => CooldownInv
BY DEF PipelineInit, cooldown!Init, CooldownInv

LEMMA CooldownStep == CooldownInv /\ [PipelineNext]_partVars => CooldownInv'
<1> SUFFICES ASSUME CooldownInv, [cooldown!Next]_cooldownVars PROVE CooldownInv'
  BY PartsStep
<1> USE DEF CooldownInv, cooldown!Goes
<1>1. CASE cooldown!Tick
  BY <1>1 DEF cooldown!Tick
<1>2. ASSUME NEW r \in Request, cooldown!Submit(r) PROVE CooldownInv'
  BY <1>2 DEF cooldown!Submit
<1>3. ASSUME NEW r \in Request, cooldown!Return(r) PROVE CooldownInv'
  BY <1>3 DEF cooldown!Return
<1>4. ASSUME NEW r \in Request, cooldown!Set(r) PROVE CooldownInv'
  BY <1>4, CooldownOK DEF cooldown!Set, cooldown!Locks, cooldown!Held
<1>5. ASSUME NEW r \in Request, cooldown!SetUnanswered(r) PROVE CooldownInv'
  BY <1>5, CooldownOK DEF cooldown!SetUnanswered, cooldown!Locks, cooldown!Held
<1>6. ASSUME NEW r \in Request, cooldown!Look(r) PROVE CooldownInv'
  BY <1>6, CooldownOK, RetryCovers
     DEF cooldown!Look, cooldown!Held, cooldown!Pttl
<1>7. ASSUME NEW r \in Request, cooldown!LookFails(r) PROVE CooldownInv'
  BY <1>7 DEF cooldown!LookFails
<1>8. CASE UNCHANGED cooldownVars
  BY <1>8 DEF cooldownVars
<1> QED BY <1>1, <1>2, <1>3, <1>4, <1>5, <1>6, <1>7, <1>8
        DEF cooldown!Next, cooldown!Step, cooldown!vars, cooldownVars

\* No submission is allowed before the cooldown of the last one that set the
\* key is over, and who waits as told is let in unless the key was set anew
\* (redis_limiter.go:20, :57, submission_controller.go:63), for any durations
\* and any length of a second.
THEOREM CooldownIsAsTold == PipelineSpec => CooldownHolds
<1>1. CooldownInv /\ [PipelineNext]_partVars =>
        [\A r \in Request : step[r] # "allowed" /\ step'[r] = "allowed" => now >= owed]_cooldownVars
  <2> SUFFICES ASSUME CooldownInv, cooldown!Next, NEW r \in Request,
                      step[r] # "allowed", step'[r] = "allowed"
               PROVE  now >= owed
    BY PartsStep DEF cooldown!Next, cooldownVars
  <2>1. PICK s \in Request : cooldown!Set(s) \/ cooldown!Look(s)
    BY DEF cooldown!Next, cooldown!Step, cooldown!Tick, cooldown!Submit, cooldown!Return,
           cooldown!SetUnanswered, cooldown!LookFails, cooldown!Goes, CooldownInv
  <2>2. now >= until
    BY <2>1 DEF cooldown!Set, cooldown!Look, cooldown!Goes, cooldown!Held, cooldown!Pttl,
                CooldownInv
  <2> QED BY <2>2 DEF CooldownInv
<1>2. CooldownInv /\ [PipelineNext]_partVars =>
        [\A r \in patient : step[r] = "look" => step'[r] # "refused"]_cooldownVars
  <2> SUFFICES ASSUME CooldownInv, cooldown!Next, NEW r \in patient, step[r] = "look",
                      step'[r] = "refused"
               PROVE  FALSE
    BY PartsStep DEF cooldown!Next, cooldownVars
  <2>1. until <= now /\ r \in Request
    BY DEF CooldownInv
  <2>2. PICK s \in Request : cooldown!Look(s)
    BY <2>1 DEF cooldown!Next, cooldown!Step, cooldown!Tick, cooldown!Submit, cooldown!Return,
           cooldown!Set, cooldown!SetUnanswered, cooldown!LookFails, cooldown!Goes, CooldownInv
  <2>3. now <= until /\ until - now > 0
    BY <2>1, <2>2 DEF cooldown!Look, cooldown!Goes, cooldown!Held, cooldown!Pttl, CooldownInv
  <2> QED BY <2>1, <2>3 DEF CooldownInv
<1>3. PipelineSpec => cooldown!NoneTooSoon
  BY <1>1, CooldownInit, CooldownStep, PTL DEF PipelineSpec, cooldown!NoneTooSoon, cooldown!vars,
     cooldownVars
<1>4. PipelineSpec => cooldown!WaitingSuffices
  BY <1>2, CooldownInit, CooldownStep, PTL
     DEF PipelineSpec, cooldown!WaitingSuffices, cooldown!vars, cooldownVars
<1> QED BY <1>3, <1>4 DEF CooldownHolds, cooldown!CooldownHolds
=============================================================================
