-------------------------- MODULE OutboundDispatch --------------------------
(***************************************************************************)
(* The outbound side of the channel manager                                *)
(* (src/ruiclaw/channels/manager.py): one dispatcher takes messages off    *)
(* MessageBus.outbound, joins the deltas of a stream, suppresses replies   *)
(* that repeat one, and gives each remaining message a task; the tasks of  *)
(* one chat send one after the other, retries included, those of different *)
(* chats side by side. Channels are stopped and replaced while it runs.    *)
(***************************************************************************)
EXTENDS Naturals, FiniteSets, SequencesExt

CONSTANTS
  Chats, Channels,
  Disabled,     \* channels that are not enabled at start-up
  ChannelOf,    \* [Chats -> Channels]
  Script,       \* [Chats -> Seq(Msg)]: what is published for each chat
  PendingLimit, \* _OUTBOUND_PENDING_LIMIT, 256
  Concurrency,  \* _OUTBOUND_CONCURRENCY, 32
  MaxTries,     \* max(send_max_retries, 1)
  Overlap,      \* may two feature actions be in progress at once?
  MaxActions,   \* bound: feature actions and stop_all
  MaxFails      \* bound: sends that raise

\* A message: its stream (deltas and ends), the message it answers
\* (origin_message_id), its own message_id, and its fingerprint; 0 is none. An
\* "end" carries text, a "bare" end does not; a "streamed" response was shown
\* already; a "muted" one is progress or reasoning the channel does not want.
Kinds == {"delta", "end", "bare", "text", "streamed", "muted"}
Msg   == [kind : Kinds, stream : Nat, origin : Nat, id : Nat, body : Nat]

ASSUME OutboundAssumption ==
  /\ ChannelOf \in [Chats -> Channels] /\ Script \in [Chats -> Seq(Msg)]
  /\ IsFiniteSet(Chats) /\ IsFiniteSet(Channels) /\ Disabled \subseteq Channels
  /\ {PendingLimit, Concurrency, MaxTries} \subseteq Nat \ {0}
  /\ {MaxActions, MaxFails} \subseteq Nat /\ Overlap \in BOOLEAN

VARIABLES
  bus,      \* MessageBus.outbound
  held,     \* the dispatcher's own buffer, ahead of the bus
  hand,     \* the message that waits for a slot, with its channel instance
  on,       \* the dispatcher runs
  tasks,    \* _outbound_tasks
  tails,    \* _outbound_tails: the last task of each chat, 0 for none
  slots,    \* _outbound_slots
  sends,    \* _outbound_sends
  prints,   \* _origin_reply_fingerprints
  chan,     \* channels: the instance of each channel, 0 for none
  live,     \* instances that were started and not stopped
  stopping, \* _stopping_channels
  ops,      \* feature actions in progress, with the tasks they wait for
  down,     \* stop_all has ended
  last,     \* tasks numbered so far
  born,     \* instances of each channel so far
  pc,       \* messages published so far
  got,      \* what each chat has received
  sent, lost, \* history: messages whose task ended well; messages dropped
  fault,    \* history: a send failed, a channel was stopped
  acts, fails \* actions and failed sends so far

vars == <<bus, held, hand, on, tasks, tails, slots, sends, prints, chan, live,
          stopping, ops, down, last, born, pc, got, sent, lost, fault, acts, fails>>
input    == <<bus, held, prints>>
channels == <<chan, live, stopping, ops, born, acts>>
ledger   == <<sent, lost, fault, fails>>

\* A message on its way: the places of its parts in the script of its chat.
None == [chat |-> "none", inst |-> 0]
Fragments(x) == {x.chat} \X ToSet(x.parts)
Ids == {t.id : t \in tasks}

----------------------------------------------------------------------------
(* The dispatcher                                                          *)

Publish(c) ==
  /\ pc[c] < Len(Script[c])
  /\ pc' = [pc EXCEPT ![c] = @ + 1]
  /\ bus' = Append(bus, [chat |-> c, msg |-> Script[c][pc'[c]], parts |-> <<pc'[c]>>])
  /\ UNCHANGED <<held, hand, on, tasks, tails, slots, sends, prints, channels,
                 down, last, got, ledger>>

\* Mutant: deltas of one chat are joined whatever their stream.
SameChat(x, y) ==
  y.chat = x.chat /\ y.msg.kind \in {"delta", "end", "bare"}

SameStream(x, y) ==
  y.chat = x.chat /\ y.msg.kind \in {"delta", "end", "bare"} /\ y.msg.stream = x.msg.stream

\* How many messages of the bus b are joined to the delta x: deltas of its
\* stream that follow each other, and an end that carries text.
Joined(x, b) ==
  Max({k \in 0 .. Len(b) : \A i \in 1 .. k :
         /\ SameStream(x, b[i]) /\ b[i].msg.kind # "bare"
         /\ i < k => b[i].msg.kind = "delta"})

\* _coalesce_stream_deltas: what is still on the bus has a single part.
Coalesced(x, b) ==
  LET k == Joined(x, b) IN
  [x EXCEPT !.parts = @ \o [i \in 1 .. k |-> b[i].parts[1]],
            !.msg.kind = IF k = 0 THEN @ ELSE b[k].msg.kind]

\* Mutant: one message is read beyond the boundary.
BoundaryTwice(x, b) == Min({2, Len(b) - Joined(x, b)})

\* Coalescing stops at an end, or with the first other message in hand.
Boundary(x, b) ==
  LET k == Joined(x, b) IN
  IF k = Len(b) \/ (k > 0 /\ b[k].msg.kind = "end") THEN 0 ELSE 1

\* _remember_origin_reply_fingerprint (its size is not bounded here).
Remember(ps, c, id, body) ==
  IF id = 0 THEN ps ELSE {p \in ps : p[1] # c \/ p[2] # id} \cup {<<c, id, body>>}

\* _should_suppress_outbound
Suppressed(x) ==
  x.msg.kind = "text" /\ x.msg.origin # 0 /\ <<x.chat, x.msg.origin, x.msg.body>> \in prints
Printed(x) ==
  IF x.msg.kind # "text" THEN prints
  ELSE Remember(Remember(prints, x.chat, x.msg.origin, x.msg.body),
                x.chat, x.msg.id, x.msg.body)

Drop(x) == lost' = lost \cup Fragments(x)

\* Mutant: a message is refused rather than given the last slot.
AcceptsIfFree(x) ==
  LET c == ChannelOf[x.chat] IN c \notin stopping /\ chan[c] = x.inst /\ slots > 1

Accepts(x) ==
  LET c == ChannelOf[x.chat] IN c \notin stopping /\ chan[c] = x.inst

\* Mutant: the slot of a refused message is not given back.
SpendSlot(x) == slots' = slots - 1

\* A refused message gives its slot back.
UseSlot(x) == slots' = IF Accepts(x) THEN slots - 1 ELSE slots

\* Mutant: a task does not wait for the one before it.
NoPrevious(c) == 0

Previous(c) == tails[c]

\* _queue_outbound once it has a slot
Enqueue(x) ==
  /\ UseSlot(x)
  /\ IF Accepts(x)
     THEN /\ last' = last + 1
          /\ tasks' = tasks \cup
               {[id |-> last', chat |-> x.chat, msg |-> x.msg, parts |-> x.parts,
                 inst |-> x.inst, prev |-> Previous(x.chat), at |-> "waiting",
                 tries |-> 0, cancelled |-> FALSE]}
          /\ tails' = [tails EXCEPT ![x.chat] = last']
          /\ UNCHANGED lost
     ELSE Drop(x) /\ UNCHANGED <<tasks, tails, last>>

\* One turn of _dispatch_outbound_loop.
Take ==
  /\ on /\ hand = None /\ held \o bus # <<>>
  /\ LET x == Head(held \o bus)
         b == Tail(held \o bus)
         delta == x.msg.kind = "delta"
         y == IF delta THEN Coalesced(x, b) ELSE x
         n == IF delta THEN Joined(x, b) ELSE 0
         m == IF delta THEN n + Boundary(x, b) ELSE 0
         z == [chat |-> x.chat, msg |-> y.msg, parts |-> y.parts,
               inst |-> chan[ChannelOf[x.chat]]] IN
     /\ held' = SubSeq(b, n + 1, m)
     /\ bus' = SubSeq(b, m + 1, Len(b))
     /\ prints' = IF y.msg.kind = "muted" \/ z.inst = 0 \/ Suppressed(y) THEN prints
                  ELSE Printed(y)
     /\ IF y.msg.kind = "muted" \/ z.inst = 0 \/ Suppressed(y)
        THEN Drop(y) /\ UNCHANGED <<hand, tasks, tails, slots, last>>
        ELSE IF slots = 0
        THEN hand' = z /\ UNCHANGED <<tasks, tails, slots, last, lost>>
        ELSE Enqueue(z) /\ UNCHANGED hand
  /\ UNCHANGED <<on, sends, channels, down, pc, got, sent, fault, fails>>

\* A slot becomes free for the message in hand.
Grant ==
  /\ hand # None /\ slots > 0
  /\ Enqueue(hand)
  /\ hand' = None
  /\ UNCHANGED <<input, on, sends, channels, down, pc, got, sent, fault, fails>>

----------------------------------------------------------------------------
(* The tasks                                                               *)

Begin(t) ==
  /\ t.at = "waiting" /\ ~t.cancelled /\ t.prev \notin Ids /\ sends > 0
  /\ tasks' = (tasks \ {t}) \cup {[t EXCEPT !.at = "sending", !.tries = 1]}
  /\ sends' = sends - 1
  /\ UNCHANGED <<input, hand, on, tails, slots, channels, down, last, pc, got, ledger>>

\* Mutant: the send permit is not given back.
FinishKeepsPermit(t) ==
  /\ tasks' = tasks \ {t}
  /\ tails' = [tails EXCEPT ![t.chat] = IF @ = t.id THEN 0 ELSE @]
  /\ slots' = slots + 1 /\ UNCHANGED sends

\* The end of a task and its callback finished.
Finish(t) ==
  /\ tasks' = tasks \ {t}
  /\ tails' = [tails EXCEPT ![t.chat] = IF @ = t.id THEN 0 ELSE @]
  /\ slots' = slots + 1
  /\ sends' = IF t.at = "waiting" THEN sends ELSE sends + 1

Show(t) == got' = IF t.msg.kind = "streamed" THEN got
                  ELSE [got EXCEPT ![t.chat] = Append(@, t.parts)]

SendOk(t) ==
  /\ t.at = "sending" /\ ~t.cancelled
  /\ Show(t) /\ Finish(t)
  /\ sent' = sent \cup Fragments(t)
  /\ UNCHANGED <<input, hand, on, channels, down, last, pc, lost, fault, fails>>

\* Mutant: a send that has to be tried again goes to the end of its chat.
RetryLast(t) ==
  /\ last' = last + 1
  /\ tasks' = (tasks \ {t}) \cup
       {[t EXCEPT !.at = "waiting", !.id = last', !.prev = tails[t.chat]]}
  /\ tails' = [tails EXCEPT ![t.chat] = last']
  /\ sends' = sends + 1

\* The task sleeps in its place and keeps its send slot.
Backoff(t) ==
  /\ tasks' = (tasks \ {t}) \cup {[t EXCEPT !.at = "delay"]}
  /\ UNCHANGED <<tails, sends, last>>

\* The channel raises, whether the message reached the chat or not: try again
\* later, or give it up after the last try or an error that is not retryable.
SendFails(t) ==
  /\ t.at = "sending" /\ ~t.cancelled /\ t.msg.kind # "streamed"
  /\ fails < MaxFails /\ fails' = fails + 1
  /\ Show(t) \/ UNCHANGED got
  /\ \/ t.tries < MaxTries /\ Backoff(t) /\ UNCHANGED <<slots, lost>>
     \/ Finish(t) /\ Drop(t) /\ UNCHANGED last
  /\ fault' = TRUE
  /\ UNCHANGED <<input, hand, on, channels, down, pc, sent>>

Retry(t) ==
  /\ t.at = "delay" /\ ~t.cancelled
  /\ tasks' = (tasks \ {t}) \cup {[t EXCEPT !.at = "sending", !.tries = @ + 1]}
  /\ UNCHANGED <<input, hand, on, tails, slots, sends, channels, down, last, pc, got, ledger>>

\* A cancelled task unwinds; what it was sending may have reached the chat.
Unwind(t) ==
  /\ t.cancelled
  /\ (t.at = "sending" /\ Show(t)) \/ UNCHANGED got
  /\ Finish(t) /\ Drop(t)
  /\ UNCHANGED <<input, hand, on, channels, down, last, pc, sent, fault, fails>>

----------------------------------------------------------------------------
(* Channels                                                                *)

Of(c) == {t \in tasks : ChannelOf[t.chat] = c}

\* _cancel_outbound
Cancel(ts) == tasks' = (tasks \ ts) \cup {[t EXCEPT !.cancelled = TRUE] : t \in ts}

\* apply_channel_feature_action up to its first await: a channel that is not
\* there is started at once, another is stopped first.
FeatureAction(c, action) ==
  /\ on /\ acts < MaxActions /\ (Overlap \/ ops = {})
  /\ acts' = acts + 1
  /\ IF chan[c] = 0
     THEN /\ action = "enable"
          /\ born' = [born EXCEPT ![c] = @ + 1]
          /\ chan' = [chan EXCEPT ![c] = born'[c]]
          /\ live' = live \cup {<<c, born'[c]>>}
          /\ UNCHANGED <<tasks, stopping, ops, fault, fails>>
     ELSE /\ stopping' = stopping \cup {c}
          /\ Cancel(Of(c))
          /\ ops' = ops \cup {[n |-> acts', chan |-> c, action |-> action, at |-> "cancel",
                               wait |-> {t.id : t \in Of(c)}, inst |-> 0]}
          /\ fault' = TRUE
          /\ UNCHANGED <<chan, live, born>>
  /\ UNCHANGED <<input, hand, on, tails, slots, sends, down, last, pc, got, sent, lost, fails>>

\* Mutant: the runtime is stopped while sends are still being cancelled.
StopAtOnce(o) == TRUE

Quiet(o) == o.wait \cap Ids = {}

\* _stop_channel_runtime, up to the await of channel.stop().
StopRuntime(o) ==
  /\ o.at = "cancel" /\ Quiet(o)
  /\ ops' = (ops \ {o}) \cup {[o EXCEPT !.at = "stop", !.inst = chan[o.chan]]}
  /\ UNCHANGED <<input, hand, on, tasks, tails, slots, sends, chan, live, stopping,
                 born, acts, down, last, pc, got, ledger>>

\* The channel has stopped: it leaves the stopping set (manager.py:402-403) and is
\* removed (478-480), or removed and its replacement started (569-578).
FinishAction(o) ==
  /\ o.at = "stop"
  /\ ops' = ops \ {o}
  /\ stopping' = stopping \ {o.chan}
  /\ IF o.action = "enable"
     THEN /\ born' = [born EXCEPT ![o.chan] = @ + 1]
          /\ chan' = [chan EXCEPT ![o.chan] = born'[o.chan]]
          /\ live' = (live \ {<<o.chan, o.inst>>}) \cup
                        (IF on THEN {<<o.chan, born'[o.chan]>>} ELSE {})
     ELSE /\ chan' = [chan EXCEPT ![o.chan] = 0]
          /\ live' = live \ {<<o.chan, o.inst>>}
          /\ UNCHANGED born
  /\ UNCHANGED <<input, hand, on, tasks, tails, slots, sends, acts, down, last, pc, got, ledger>>

\* stop_all: the dispatcher is cancelled, and it cancels every task.  (Python 3.11's
\* wait_for may swallow a cancellation that meets a message; not modelled.)
StopDispatcher ==
  /\ on /\ on' = FALSE
  /\ acts < MaxActions /\ acts' = acts + 1
  /\ IF hand = None THEN UNCHANGED lost ELSE Drop(hand)
  /\ hand' = None
  /\ Cancel(tasks)
  /\ fault' = TRUE
  /\ UNCHANGED <<input, tails, slots, sends, chan, live, stopping, ops, born, down,
                 last, pc, got, sent, fails>>

\* ... and then stops every channel.
StopChannels ==
  /\ ~on /\ ~down /\ tasks = {}
  /\ live' = live \ {<<c, chan[c]>> : c \in Channels}
  /\ down' = TRUE
  /\ UNCHANGED <<input, hand, on, tasks, tails, slots, sends, chan, stopping, ops,
                 born, acts, last, pc, got, ledger>>

----------------------------------------------------------------------------
(* Specification                                                           *)

Init ==
  /\ bus = <<>> /\ held = <<>> /\ hand = None /\ on = TRUE
  /\ tasks = {} /\ tails = [c \in Chats |-> 0]
  /\ slots = PendingLimit /\ sends = Concurrency /\ prints = {}
  /\ chan = [c \in Channels |-> IF c \in Disabled THEN 0 ELSE 1] /\ born = chan
  /\ live = (Channels \ Disabled) \X {1} /\ stopping = {} /\ ops = {} /\ down = FALSE /\ last = 0
  /\ pc = [c \in Chats |-> 0] /\ got = [c \in Chats |-> <<>>]
  /\ sent = {} /\ lost = {} /\ fault = FALSE /\ acts = 0 /\ fails = 0

TaskStep == \E t \in tasks : Begin(t) \/ SendOk(t) \/ SendFails(t) \/ Retry(t) \/ Unwind(t)
ActionStep == \E o \in ops : StopRuntime(o) \/ FinishAction(o)

Next == \/ \E c \in Chats : Publish(c)
        \/ Take \/ Grant \/ TaskStep
        \/ \E c \in Channels, action \in {"enable", "disable"} : FeatureAction(c, action)
        \/ ActionStep \/ StopDispatcher \/ StopChannels

Spec == Init /\ [][Next]_vars

\* The event loop runs the dispatcher, the tasks and the actions; a send, a
\* retry delay and channel.stop() end.
FairSpec == Spec /\ WF_vars(Take) /\ WF_vars(Grant) /\ WF_vars(TaskStep) /\ WF_vars(ActionStep)

----------------------------------------------------------------------------
(* Properties                                                              *)

\* Every variable stays in its type; the dispatcher's own buffer holds one
\* message at most.
TypeOK ==
  /\ \A x \in ToSet(bus) \cup ToSet(held) \cup tasks :
       x.chat \in Chats /\ x.msg \in Msg /\ ToSet(x.parts) \subseteq 1 .. pc[x.chat]
  /\ Len(held) <= 1 /\ (hand # None => hand.inst \in Nat \ {0})
  /\ \A t \in tasks : /\ t.id \in 1 .. last /\ t.prev < t.id /\ t.tries \in 0 .. MaxTries
                      /\ t.at \in {"waiting", "sending", "delay"} /\ t.cancelled \in BOOLEAN
  /\ slots \in 0 .. PendingLimit /\ sends \in 0 .. Concurrency
  /\ \A c \in Channels : chan[c] \in 0 .. born[c]
  /\ \A i \in live : i[2] \in 1 .. born[i[1]]
  /\ stopping \subseteq Channels
  /\ {on, down, fault} \subseteq BOOLEAN

\* Every task holds one slot and every send one permit, whatever is refused,
\* cancelled, retried or given up ("Bound scheduled sends", manager.py:729):
\* a leak would stop the dispatcher for all channels after a while.
SlotsConserved ==
  /\ slots + Cardinality(tasks) = PendingLimit
  /\ sends + Cardinality({t \in tasks : t.at # "waiting"}) = Concurrency

\* At most one message of a chat is being sent or waits to be sent again
\* ("preserve FIFO per destination", manager.py:729), across retries, cancelled
\* tasks and a replaced channel.
OneSendPerChat ==
  \A t, u \in tasks : t.chat = u.chat /\ t.at # "waiting" /\ u.at # "waiting" => t = u

Waiting == IF hand = None THEN held \o bus ELSE <<hand>> \o held \o bus

\* What is joined into one message are parts that were published one after the
\* other for one stream: nothing of the chat is jumped over ("Only merge
\* consecutive deltas", manager.py:955).
StreamsContiguous ==
  \A c \in Chats : \A g \in ToSet(got[c]) : \A i \in 2 .. Len(g) :
    g[i] = g[i - 1] + 1 /\ Script[c][g[i]].stream = Script[c][g[1]].stream

\* A send under way uses the channel instance that is registered and runs:
\* actions stop an instance after the sends on it have unwound (FIFO of
\* _stop_channel, manager.py:397-403).
SendsOnLiveChannel ==
  \A t \in tasks : t.at # "waiting" => 
    LET c == ChannelOf[t.chat] IN t.inst = chan[c] /\ <<c, t.inst>> \in live

\* A message repeats another: the reply to one origin with the same text.
Twin(c, n) == \E m \in 1 .. n - 1 :
  /\ Script[c][n].kind = "text" /\ Script[c][m].kind = "text"
  /\ Script[c][n].body = Script[c][m].body
  /\ Script[c][n].origin \in {Script[c][m].origin, Script[c][m].id} \ {0}

\* While no send fails and no channel stops, only muted messages, repeated
\* replies and messages to a channel that is not enabled are dropped: "Saturation
\* pauses dispatch rather than creating unbounded tasks or dropping messages"
\* (manager.py:731-732).
SaturationKeeps ==
  ~fault => \A f \in lost : \/ Script[f[1]][f[2]].kind = "muted" \/ Twin(f[1], f[2])
                            \/ ChannelOf[f[1]] \in Disabled

\* While the dispatcher runs, every message ends up sent or dropped: no chat
\* waits for ever behind a failing one.
EverythingSettles ==
  []<>(on => \A c \in Chats : {c} \X (1 .. pc[c]) \subseteq sent \cup lost)

\* The messages of a chat that are on their way: in its tasks, with the
\* dispatcher or on the bus.
OnTheWay(c) ==
  UNION {ToSet(x.parts) : x \in {y \in tasks \cup ToSet(Waiting) : y.chat = c}}

\* Each chat is served in order: the dispatcher implements ChatFeed.
Feed == INSTANCE ChatFeed WITH published <- pc, pending <- [c \in Chats |-> OnTheWay(c)]
ImplementsFeed == Feed!Spec
=============================================================================
