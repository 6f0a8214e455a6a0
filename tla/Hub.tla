--------------------------------- MODULE Hub ---------------------------------
(****************************************************************************)
(* The hub (hub.go) through which every stream handler of the API listens   *)
(* to Redis: one Redis subscription for all handlers of a topic, opened by  *)
(* the first and closed by the last, and a goroutine that fans its messages *)
(* out to a bounded channel of each.                                        *)
(*                                                                          *)
(* Topics share nothing but the lock, so the module has one.  Subscribe and *)
(* Unsubscribe hold the write lock: they are single steps, possible while   *)
(* nobody holds the read lock.  broadcast holds the read lock from taking a *)
(* message to serving the last subscriber, one step for each; several       *)
(* goroutines can hold it at once.                                          *)
(*                                                                          *)
(* A Redis subscription is named after the handler that opened it, and a    *)
(* message by its place among those published.                              *)
(****************************************************************************)
EXTENDS Naturals, Sequences

CONSTANTS
    Client,       \* stream handlers, each subscribing once
    Prompt,       \* those that write what they receive; the others may be slow
    Nobody,       \* no handler
    Buffer,       \* capacity of a handler's channel
    MaxMessages,  \* bound: messages published on the topic
    MaxBreaks     \* bound: how often a Redis connection breaks

HubAssumption ==
    /\ Prompt \subseteq Client /\ Nobody \notin Client
    /\ Buffer \in Nat \ {0} /\ MaxMessages \in Nat /\ MaxBreaks \in Nat

Message == 1..MaxMessages

VARIABLES
    pc,        \* the handlers: "out", "in", "closing", "gone"
    subs,      \* h.subscribers[topic]
    reg,       \* h.redisSubs[topic]
    closing,   \* pubsubToClose of a handler
    link,      \* the Redis subscriptions
    pipe,      \* what Redis has sent to each and broadcast has not taken
    hand,      \* the message broadcast serves, 0 if none
    left,      \* the subscribers still to be served with it
    chan,      \* the handlers' channels
    shut,      \* the channels that are closed
    got,       \* what each handler has received
    dropped,   \* what each handler missed because its channel was full
    sent,      \* messages published
    due,       \* those published while the handler's topic was subscribed
    clean,     \* handlers that came when no earlier subscription was left
    budget     \* breaks still to come

feed == <<link, pipe, hand, left>>
ends == <<chan, got, dropped, due, clean>>
vars == <<pc, subs, reg, closing, shut, feed, ends, sent, budget>>

TypeOK ==
    /\ pc \in [Client -> {"out", "in", "closing", "gone"}]
    /\ subs \subseteq Client /\ shut \subseteq Client /\ clean \subseteq Client
    /\ reg \in Client \cup {Nobody}
    /\ closing \in [Client -> Client \cup {Nobody}]
    /\ link \in [Client -> {"none", "asked", "live", "closed"}]
    /\ pipe \in [Client -> Seq(Message)]
    /\ hand \in [Client -> Message \cup {0}]
    /\ left \in [Client -> SUBSET Client]
    /\ chan \in [Client -> Seq(Message)] /\ got \in [Client -> Seq(Message)]
    /\ dropped \in [Client -> SUBSET Message] /\ due \in [Client -> SUBSET Message]
    /\ sent \in 0..MaxMessages /\ budget \in 0..MaxBreaks

Init ==
    /\ pc = [c \in Client |-> "out"] /\ subs = {} /\ reg = Nobody
    /\ closing = [c \in Client |-> Nobody]
    /\ link = [p \in Client |-> "none"] /\ pipe = [p \in Client |-> <<>>]
    /\ hand = [p \in Client |-> 0] /\ left = [p \in Client |-> {}]
    /\ chan = [c \in Client |-> <<>>] /\ got = [c \in Client |-> <<>>]
    /\ dropped = [c \in Client |-> {}] /\ due = [c \in Client |-> {}]
    /\ shut = {} /\ sent = 0 /\ clean = {} /\ budget = MaxBreaks

-----------------------------------------------------------------------------
(* The handlers. *)

\* h.Lock(): no broadcast is reading.
Locks == \A p \in Client : hand[p] = 0

\* A subscription from which nothing comes any more.
Drained(p) == link[p] \in {"none", "closed"} /\ pipe[p] = <<>> /\ hand[p] = 0

\* go-redis sends SUBSCRIBE and does not wait for the confirmation.
Opens(c) == link' = [link EXCEPT ![c] = "asked"] /\ reg' = c

\* Subscribe: the first of the topic also opens its Redis subscription.
Subscribe(c) ==
    /\ pc[c] = "out" /\ Locks
    /\ pc' = [pc EXCEPT ![c] = "in"]
    /\ subs' = subs \cup {c}
    /\ IF subs = {} THEN Opens(c) ELSE UNCHANGED <<link, reg>>
    /\ clean' = IF \A p \in Client : p = reg \/ Drained(p) THEN clean \cup {c}
                                                          ELSE clean
    /\ UNCHANGED <<closing, shut, pipe, hand, left, chan, got, dropped, due, sent,
                   budget>>

\* The handler writes a message to its stream.
Read(c) ==
    /\ pc[c] = "in" /\ chan[c] # <<>>
    /\ got' = [got EXCEPT ![c] = Append(@, Head(chan[c]))]
    /\ chan' = [chan EXCEPT ![c] = Tail(@)]
    /\ UNCHANGED <<pc, subs, reg, closing, shut, feed, dropped, sent, due, clean,
                   budget>>

\* What the handler had goes with it.
Forgets(c) ==
    /\ chan' = [chan EXCEPT ![c] = <<>>] /\ got' = [got EXCEPT ![c] = <<>>]
    /\ dropped' = [dropped EXCEPT ![c] = {}] /\ due' = [due EXCEPT ![c] = {}]
    /\ clean' = clean \ {c}

\* A programmer's slip: the channel is closed without the lock.
Unsubscribe_NoLock(c) ==
    /\ pc[c] = "in"
    /\ subs' = subs \ {c} /\ shut' = shut \cup {c} /\ Forgets(c)
    /\ IF subs' = {}
       THEN /\ closing' = [closing EXCEPT ![c] = reg] /\ reg' = Nobody
            /\ pc' = [pc EXCEPT ![c] = "closing"]
       ELSE pc' = [pc EXCEPT ![c] = "gone"] /\ UNCHANGED <<closing, reg>>
    /\ UNCHANGED <<feed, sent, budget>>

\* A programmer's slip: whoever leaves closes the Redis subscription.
Unsubscribe_Anyone(c) ==
    /\ pc[c] = "in" /\ Locks
    /\ subs' = subs \ {c} /\ shut' = shut \cup {c} /\ Forgets(c)
    /\ closing' = [closing EXCEPT ![c] = reg]
    /\ reg' = IF subs' = {} THEN Nobody ELSE reg
    /\ pc' = [pc EXCEPT ![c] = "closing"]
    /\ UNCHANGED <<feed, sent, budget>>

\* Unsubscribe, when the request has ended: the last of the topic takes the
\* Redis subscription with it, to close it after the lock is released.
Unsubscribe(c) ==
    /\ pc[c] = "in" /\ Locks
    /\ subs' = subs \ {c} /\ shut' = shut \cup {c} /\ Forgets(c)
    /\ IF subs' = {}
       THEN /\ closing' = [closing EXCEPT ![c] = reg] /\ reg' = Nobody
            /\ pc' = [pc EXCEPT ![c] = "closing"]
       ELSE pc' = [pc EXCEPT ![c] = "gone"] /\ UNCHANGED <<closing, reg>>
    /\ UNCHANGED <<feed, sent, budget>>

\* What a connection that ends still hands over: the messages already read
\* from it.
Rest(p) == {SubSeq(pipe[p], 1, n) : n \in 0..Len(pipe[p])}

\* pubsubToClose.Close(): nothing new comes, broadcast takes what is there.
Close(c) ==
    /\ pc[c] = "closing" /\ pc' = [pc EXCEPT ![c] = "gone"]
    /\ link' = [link EXCEPT ![closing[c]] = "closed"]
    /\ \E rest \in Rest(closing[c]) : pipe' = [pipe EXCEPT ![closing[c]] = rest]
    /\ closing' = [closing EXCEPT ![c] = Nobody]
    /\ UNCHANGED <<subs, reg, shut, hand, left, ends, sent, budget>>

-----------------------------------------------------------------------------
(* Redis. *)

\* The SUBSCRIBE is confirmed.
Confirm(p) ==
    /\ link[p] = "asked" /\ link' = [link EXCEPT ![p] = "live"]
    /\ UNCHANGED <<pc, subs, reg, closing, shut, pipe, hand, left, ends, sent,
                   budget>>

\* PUBLISH on the topic.
Publish ==
    /\ sent < MaxMessages /\ sent' = sent + 1
    /\ pipe' = [p \in Client |-> IF link[p] = "live" THEN Append(pipe[p], sent + 1)
                                                     ELSE pipe[p]]
    /\ due' = [c \in Client |->
                 IF c \in subs /\ link[reg] = "live" THEN due[c] \cup {sent + 1}
                                                     ELSE due[c]]
    /\ UNCHANGED <<pc, subs, reg, closing, shut, link, hand, left, chan, got,
                   dropped, clean, budget>>

\* A connection breaks; go-redis connects and subscribes again.  What was
\* still on the way is lost.
Break(p) ==
    /\ link[p] = "live" /\ budget > 0 /\ budget' = budget - 1
    /\ link' = [link EXCEPT ![p] = "asked"]
    /\ \E rest \in Rest(p) :
         /\ pipe' = [pipe EXCEPT ![p] = rest]
         /\ LET lost == {pipe[p][i] : i \in Len(rest) + 1 .. Len(pipe[p])}
            IN  due' = [c \in Client |-> IF c \in subs /\ p = reg
                                         THEN due[c] \ lost ELSE due[c]]
    /\ UNCHANGED <<pc, subs, reg, closing, shut, hand, left, chan, got, dropped,
                   sent, clean>>

-----------------------------------------------------------------------------
(* broadcast, one goroutine for each Redis subscription. *)

\* h.RLock(): the subscribers of the moment will be served.
Take(p) ==
    /\ hand[p] = 0 /\ pipe[p] # <<>>
    /\ hand' = [hand EXCEPT ![p] = Head(pipe[p])]
    /\ pipe' = [pipe EXCEPT ![p] = Tail(@)]
    /\ left' = [left EXCEPT ![p] = subs]
    /\ UNCHANGED <<pc, subs, reg, closing, shut, link, ends, sent, budget>>

\* A programmer's slip: a plain send, which waits for room, and those behind
\* the slow one in the map's order wait with it.
Deliver_Blocks(p, c) ==
    /\ c \in left[p] /\ \A d \in left[p] : Len(chan[d]) < Buffer
    /\ left' = [left EXCEPT ![p] = @ \ {c}]
    /\ chan' = [chan EXCEPT ![c] = Append(@, hand[p])] /\ UNCHANGED dropped
    /\ UNCHANGED <<pc, subs, reg, closing, shut, link, pipe, hand, got, sent, due,
                   clean, budget>>

\* select: the message goes into the channel, or is dropped if it is full.
Deliver(p, c) ==
    /\ c \in left[p] /\ left' = [left EXCEPT ![p] = @ \ {c}]
    /\ IF Len(chan[c]) < Buffer
       THEN chan' = [chan EXCEPT ![c] = Append(@, hand[p])] /\ UNCHANGED dropped
       ELSE dropped' = [dropped EXCEPT ![c] = @ \cup {hand[p]}] /\ UNCHANGED chan
    /\ UNCHANGED <<pc, subs, reg, closing, shut, link, pipe, hand, got, sent, due,
                   clean, budget>>

\* h.RUnlock()
Served(p) ==
    /\ hand[p] # 0 /\ left[p] = {}
    /\ hand' = [hand EXCEPT ![p] = 0]
    /\ UNCHANGED <<pc, subs, reg, closing, shut, link, pipe, left, ends, sent,
                   budget>>

-----------------------------------------------------------------------------

Handler(c) == Subscribe(c) \/ Read(c) \/ Unsubscribe(c) \/ Close(c)
Broadcast(p) == Take(p) \/ (\E c \in Client : Deliver(p, c)) \/ Served(p)

Next ==
    \/ \E c \in Client : Handler(c) \/ Broadcast(c) \/ Confirm(c) \/ Break(c)
    \/ Publish

Spec == Init /\ [][Next]_vars

\* Goroutines go on, Redis answers, and a prompt handler writes what it gets.
\* Nobody has to come or to leave, nothing has to be published.
Fairness ==
    \A c \in Client : /\ WF_vars(Broadcast(c)) /\ WF_vars(Close(c))
                      /\ WF_vars(Confirm(c))
                      /\ c \in Prompt => WF_vars(Read(c))

LiveSpec == Spec /\ Fairness

-----------------------------------------------------------------------------
(* Properties. *)

Items(s) == {s[i] : i \in 1..Len(s)}

\* No goroutine sends on a closed channel, which would end the API: a channel
\* is closed when no broadcast holds it (hub.go:59 and :84).
NoSendToClosed == \A p \in Client : left[p] \cap shut = {}

\* Redis is subscribed exactly while somebody listens: a subscription that is
\* open belongs to the listeners or is about to be closed by the handler that
\* took it out of the map (hub.go:66, hub.go:80).
NoneLeaks ==
    /\ reg # Nobody <=> subs # {}
    /\ \A p \in Client : link[p] \in {"asked", "live"} =>
         p = reg \/ \E c \in Client : pc[c] = "closing" /\ closing[c] = p

\* A message published while the topic is subscribed reaches every handler
\* that listens: it is on its way, received, or dropped at a full channel;
\* other handlers that come and go take nothing from it (hub.go:66).
NothingMissed ==
    \A c \in subs :
      due[c] \subseteq Items(got[c]) \cup Items(chan[c]) \cup dropped[c]
                       \cup Items(pipe[reg])
                       \cup (IF c \in left[reg] THEN {hand[reg]} ELSE {})

\* A handler receives messages in the order of their publication and none
\* twice, unless it came while a subscription that the last one before it had
\* left was still open, or had messages over (hub.go:80).
InOrder ==
    \A c \in clean :
      LET all == got[c] \o chan[c]
      IN  \A i, j \in 1..Len(all) : i < j => all[i] < all[j]

\* What the handlers of a topic can rely on, whoever else comes and goes.
FanOut == NoneLeaks /\ NothingMissed /\ InOrder

\* A slow handler holds nobody up: what is due to a prompt one arrives or is
\* dropped, as long as it listens and the connection does not break
\* (hub.go:92).
Delivered ==
    \A c \in Prompt, m \in Message :
      m \in due[c] ~> (m \in Items(got[c]) \cup dropped[c] \/ m \notin due[c]
                       \/ c \notin subs)

=============================================================================
