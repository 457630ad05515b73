------------------------------ MODULE StreamProofs ------------------------------
(***************************************************************************)
(* Proofs about the observation stream of the worker: the order of events  *)
(* and replies on the wire, and that every delta can be applied.           *)
(***************************************************************************)
EXTENDS DispatchProofs

(***************************************************************************)
(* The order in which the client will see messages is the wire, then the   *)
(* message in the writer's hands, then the control lane.  An event is      *)
(* announced when its "subscribed" is in that order, with nothing behind it*)
(* that ends the subscription; the bulk lane may overtake nothing harmful. *)
(***************************************************************************)
IsSample(message) == message.kind \in {"capture", "ended"}
Opens(message, event) == message.kind = "subscribed" /\ message.id = event.id
Harmless(messages, event) == \A i \in DOMAIN messages : ~Invalidates(messages[i], event)
OpenedIn(messages, event) ==
    \E i \in DOMAIN messages :
        /\ Opens(messages[i], event)
        /\ \A k \in DOMAIN messages : k > i => ~Invalidates(messages[k], event)

AnnouncedIn(event, written, held, replies, windows) ==
    /\ \/ OpenedIn(replies, event)
       \/ Opens(held, event) /\ Harmless(replies, event)
       \/ /\ OpenedIn(written, event)
          /\ ~Invalidates(held, event) /\ Harmless(replies, event)
    /\ Harmless(windows, event)
Announced(event) == AnnouncedIn(event, wire, writing, control, bulk)

(* The events a subscription may still produce, as far as order goes. *)
LiveOf(s) == Message(s.id, "capture", [NoView EXCEPT !.key = s.key])
EndOf(s) == Reply(s.id, "ended")

(* What the writer holds and the slot are in order. *)
OnItsWay ==
    /\ IsSample(writing) => OpenedIn(wire, writing)
    /\ observation # NoMessage => Announced(observation)

(* Keys the session has had, of which the present one is the newest. *)
PastIn(key, current, resets, accepted) ==
    /\ key[1] # 0
    /\ IF current = 0 THEN key[1] <= accepted
       ELSE key[1] < current \/ (key[1] = current /\ key[2] <= resets)
Past(key) == PastIn(key, session, generation, last)

Keyed ==
    /\ session <= last
    /\ subscription # NoSubscription => subscription.id <= last /\ Past(subscription.key)
    /\ \A i \in DOMAIN bulk : IsBulk(bulk[i]) /\ (bulk[i].kind = "observed" => Past(bulk[i].view.key))
    /\ \A i \in DOMAIN todo : todo[i].message.kind = "observed" => Past(todo[i].message.view.key)
    /\ observation.kind = "ended" => observation.view = NoView

(***************************************************************************)
(* The calls a handler left.  A sample is put last; a reply that ends what *)
(* the slot holds is sent after the slot was cleared; and whatever is sent *)
(* leaves the subscription in force announced.                             *)
(***************************************************************************)
Sent(i) == todo[i].call = "send"
Puts(i) == todo[i].call = "observe" /\ todo[i].message # NoMessage

EndedPut(m) ==
    /\ m.kind = "ended" /\ m.view = NoView /\ Len(todo) = 1 /\ Announced(m)
    /\ subscription = NoSubscription /\ m.id <= last
CapturedIn(m, s, key, number) ==
    /\ m.kind = "capture" /\ s # NoSubscription
    /\ m.id = s.id /\ m.view.key = s.key
    /\ s.key = key /\ m.view.sequence = number
CapturedPut(m) == CapturedIn(m, subscription, Key, sequence)

PutsLast ==
    \A i \in DOMAIN todo :
        /\ Puts(i) \/ todo[i].call = "sample" => i = Len(todo)
        /\ Puts(i) => EndedPut(todo[i].message) \/ CapturedPut(todo[i].message)

Clears(i) == \E k \in DOMAIN todo : k < i /\ todo[k].call = "observe"
SlotSafe ==
    /\ \A i \in DOMAIN todo : Sent(i) =>
          Clears(i) \/ observation = NoMessage \/ ~Invalidates(todo[i].message, observation)
    /\ observation.kind = "capture" =>
          \/ \E k \in DOMAIN todo : todo[k].call = "observe"
          \/ subscription # NoSubscription /\ observation.id = subscription.id
             /\ observation.view.key = subscription.key

Announcing(event) ==
    /\ \A i \in DOMAIN todo : Sent(i) => ~Invalidates(todo[i].message, event)
    /\ \/ Announced(event)
       \/ /\ \E i \in DOMAIN todo : Sent(i) /\ Opens(todo[i].message, event)
          /\ Harmless(bulk, event)
ForceSafe ==
    subscription # NoSubscription =>
        Announcing(LiveOf(subscription)) /\ Announcing(EndOf(subscription))

Dispatching == PutsLast /\ SlotSafe /\ ForceSafe

(* Samples of a subscription are written in the order they were taken. *)
Precedes(a, b) ==
    a.id = b.id => a.kind # "ended" /\ (b.kind # "ended" => a.view.sequence < b.view.sequence)
NextIn(a, ending, s, key, number, calls) ==
    ending = "serving" =>
        /\ a.id = s.id => a.kind # "ended" /\ (s.key = key => a.view.sequence <= number)
        /\ \A i \in DOMAIN calls : calls[i].call = "observe" /\ calls[i].message # NoMessage
                                    => Precedes(a, calls[i].message)
NextIsLater(a) == NextIn(a, outcome, subscription, Key, sequence, todo)

Written == {wire[i] : i \in {j \in DOMAIN wire : IsEvent(wire[j])}}
Ahead(a) == a.id \in 1 .. last /\ a.view.sequence \in Nat /\ NextIsLater(a)
Chain ==
    /\ \A a \in Written : /\ Ahead(a)
                          /\ IsSample(writing) => Precedes(a, writing)
                          /\ observation # NoMessage => Precedes(a, observation)
    /\ IsSample(writing) =>
          Ahead(writing) /\ (observation # NoMessage => Precedes(writing, observation))
    /\ observation # NoMessage => Ahead(observation)

Based ==
    /\ \A i \in DOMAIN wire : wire[i].kind # "capture"
    /\ baseline # NoMessage =>
       \E i \in DOMAIN wire :
          /\ wire[i].kind \in {"full", "delta"}
          /\ wire[i].id = baseline.id /\ wire[i].view = baseline.view
          /\ \A k \in DOMAIN wire : k > i => ~IsEvent(wire[k])

Streaming == OnItsWay /\ Keyed /\ (Serving /\ ~failed => Dispatching) /\ Chain /\ Based
-----------------------------------------------------------------------------
(* Appending to a queue of messages, and taking its head.                  *)

LEMMA AppendOrder ==
  ASSUME NEW S, NEW q \in Seq(S), NEW m \in S, NEW event
  PROVE  /\ Harmless(Append(q, m), event) <=> Harmless(q, event) /\ ~Invalidates(m, event)
         /\ OpenedIn(Append(q, m), event)
              <=> Opens(m, event) \/ (OpenedIn(q, event) /\ ~Invalidates(m, event))
<1> DEFINE r == Append(q, m)
<1>1. /\ Len(q) \in Nat /\ DOMAIN q = 1 .. Len(q) /\ DOMAIN r = 1 .. Len(q) + 1
      /\ r[Len(q) + 1] = m /\ \A i \in 1 .. Len(q) : r[i] = q[i]
  BY AppendProperties, LenProperties
<1> HIDE DEF r
<1>2. \A i \in DOMAIN r : i \in DOMAIN q \/ i = Len(q) + 1
  BY <1>1
<1>3. Harmless(r, event) <=> Harmless(q, event) /\ ~Invalidates(m, event)
  BY <1>1, <1>2 DEF Harmless
<1>4. ASSUME OpenedIn(r, event)
      PROVE  Opens(m, event) \/ (OpenedIn(q, event) /\ ~Invalidates(m, event))
  <2>1. PICK i \in DOMAIN r : /\ Opens(r[i], event)
                              /\ \A k \in DOMAIN r : k > i => ~Invalidates(r[k], event)
    BY <1>4 DEF OpenedIn
  <2>2. CASE i = Len(q) + 1
    BY <1>1, <2>1, <2>2
  <2>3. CASE i \in DOMAIN q
    <3>1. ~Invalidates(m, event)
      BY <1>1, <2>1, <2>3
    <3>2. OpenedIn(q, event)
      BY <1>1, <2>1, <2>3 DEF OpenedIn
    <3> QED BY <3>1, <3>2
  <2> QED BY <1>2, <2>2, <2>3
<1>5. ASSUME Opens(m, event) PROVE OpenedIn(r, event)
  BY <1>1, <1>5 DEF OpenedIn
<1>6. ASSUME OpenedIn(q, event), ~Invalidates(m, event) PROVE OpenedIn(r, event)
  <2>1. PICK i \in DOMAIN q : /\ Opens(q[i], event)
                              /\ \A k \in DOMAIN q : k > i => ~Invalidates(q[k], event)
    BY <1>6 DEF OpenedIn
  <2>2. i \in DOMAIN r /\ Opens(r[i], event)
    BY <1>1, <2>1
  <2>3. \A k \in DOMAIN r : k > i => ~Invalidates(r[k], event)
    BY <1>1, <1>2, <1>6, <2>1
  <2> QED BY <2>2, <2>3 DEF OpenedIn
<1> QED BY <1>3, <1>4, <1>5, <1>6 DEF r

LEMMA TailOrder ==
  ASSUME NEW S, NEW q \in Seq(S), q # <<>>, NEW event
  PROVE  /\ Harmless(q, event) => ~Invalidates(Head(q), event) /\ Harmless(Tail(q), event)
         /\ OpenedIn(q, event) => \/ OpenedIn(Tail(q), event)
                                  \/ Opens(Head(q), event) /\ Harmless(Tail(q), event)
<1> DEFINE r == Tail(q)
<1>1. /\ Len(q) \in Nat \ {0} /\ DOMAIN q = 1 .. Len(q) /\ DOMAIN r = 1 .. Len(q) - 1
      /\ Head(q) = q[1] /\ \A i \in 1 .. Len(q) - 1 : r[i] = q[i + 1]
  BY HeadTailProperties, LenProperties
<1> HIDE DEF r
<1>2. \A i \in DOMAIN r : i + 1 \in DOMAIN q
  BY <1>1
<1>3. Harmless(q, event) => ~Invalidates(Head(q), event) /\ Harmless(r, event)
  BY <1>1, <1>2 DEF Harmless
<1>4. ASSUME OpenedIn(q, event)
      PROVE  OpenedIn(r, event) \/ (Opens(Head(q), event) /\ Harmless(r, event))
  <2>1. PICK i \in DOMAIN q : /\ Opens(q[i], event)
                              /\ \A k \in DOMAIN q : k > i => ~Invalidates(q[k], event)
    BY <1>4 DEF OpenedIn
  <2>2. CASE i = 1
    <3>1. \A k \in DOMAIN r : k + 1 \in DOMAIN q /\ k + 1 > i /\ r[k] = q[k + 1]
      BY <1>1, <2>2
    <3> QED BY <1>1, <2>1, <2>2, <3>1 DEF Harmless
  <2>3. CASE i # 1
    <3>1. i - 1 \in DOMAIN r /\ r[i - 1] = q[i]
      BY <1>1, <2>3
    <3>2. \A k \in DOMAIN r : k > i - 1 => k + 1 \in DOMAIN q /\ k + 1 > i /\ r[k] = q[k + 1]
      BY <1>1, <2>3
    <3> QED BY <2>1, <3>1, <3>2 DEF OpenedIn
  <2> QED BY <2>2, <2>3
<1> QED BY <1>3, <1>4 DEF r

LEMMA EmptyOrder == \A event : Harmless(<<>>, event) /\ ~OpenedIn(<<>>, event)
BY DEF Harmless, OpenedIn

(* What ends a subscription; everything else is harmless.                  *)
Endings == {"ended", "subscribed", "unsubscribed", "session_closed", "observed"}

LEMMA PlainHarmless ==
  \A m, event : m.kind \notin Endings => ~Invalidates(m, event)
BY DEF Endings, Invalidates

(* Order looks at the subscription and the key of an event, and whether it *)
(* is the last of its subscription.                                        *)
LEMMA SameOrder ==
  ASSUME NEW a, NEW b, a.id = b.id, a.view.key = b.view.key, a.kind = "ended" <=> b.kind = "ended"
  PROVE  /\ \A m : Invalidates(m, a) <=> Invalidates(m, b)
         /\ \A m : Opens(m, a) <=> Opens(m, b)
BY DEF Invalidates, Opens

LEMMA AnnouncedAlike ==
  ASSUME NEW a, NEW b, NEW w, NEW m, NEW c, NEW d, AnnouncedIn(a, w, m, c, d),
         a.id = b.id, a.view.key = b.view.key, a.kind = "ended" <=> b.kind = "ended"
  PROVE  AnnouncedIn(b, w, m, c, d)
<1>1. \A n : (Invalidates(n, a) <=> Invalidates(n, b)) /\ (Opens(n, a) <=> Opens(n, b))
  BY SameOrder
<1>2. \A q : (Harmless(q, a) <=> Harmless(q, b)) /\ (OpenedIn(q, a) <=> OpenedIn(q, b))
  BY <1>1 DEF Harmless, OpenedIn
<1> QED BY <1>1, <1>2 DEF AnnouncedIn

-----------------------------------------------------------------------------
(* An event stays announced while the lanes move: a reply is queued, taken *)
(* from its lane, and written; a sample is taken and written.              *)

LEMMA ReplyQueued ==
  ASSUME NEW S, NEW c \in Seq(S), NEW m \in S, NEW event, NEW w, NEW h, NEW d,
         ~Invalidates(m, event)
  PROVE  /\ AnnouncedIn(event, w, h, c, d) => AnnouncedIn(event, w, h, Append(c, m), d)
         /\ Opens(m, event) /\ Harmless(d, event) => AnnouncedIn(event, w, h, Append(c, m), d)
BY AppendOrder DEF AnnouncedIn

LEMMA WindowQueued ==
  ASSUME NEW S, NEW d \in Seq(S), NEW m \in S, NEW event, NEW w, NEW h, NEW c,
         ~Invalidates(m, event)
  PROVE  /\ AnnouncedIn(event, w, h, c, d) => AnnouncedIn(event, w, h, c, Append(d, m))
         /\ Harmless(d, event) => Harmless(Append(d, m), event)
BY AppendOrder DEF AnnouncedIn

LEMMA ReplyTaken ==
  ASSUME NEW S, NEW c \in Seq(S), c # <<>>, NEW event, NEW w, NEW d,
         AnnouncedIn(event, w, NoMessage, c, d)
  PROVE  AnnouncedIn(event, w, Head(c), Tail(c), d)
<1>1. ~Opens(NoMessage, event)
  BY DEF Opens, NoMessage, Reply, Message
<1> QED BY <1>1, TailOrder DEF AnnouncedIn

LEMMA WindowTaken ==
  ASSUME NEW S, NEW d \in Seq(S), d # <<>>, NEW event, NEW w,
         AnnouncedIn(event, w, NoMessage, <<>>, d)
  PROVE  AnnouncedIn(event, w, Head(d), <<>>, Tail(d))
<1>1. ~Opens(NoMessage, event)
  BY DEF Opens, NoMessage, Reply, Message
<1> QED BY <1>1, TailOrder, EmptyOrder DEF AnnouncedIn

(* With nothing before it, what is taken is announced on the wire.         *)
LEMMA TakenAnnounced ==
  ASSUME NEW event, NEW w, NEW d, AnnouncedIn(event, w, NoMessage, <<>>, d)
  PROVE  OpenedIn(w, event)
<1>1. ~Opens(NoMessage, event)
  BY DEF Opens, NoMessage, Reply, Message
<1> QED BY <1>1, EmptyOrder DEF AnnouncedIn

LEMMA HeldHarmless ==
  ASSUME NEW event, NEW w, NEW c, NEW d, NEW m, AnnouncedIn(event, w, NoMessage, c, d),
         ~Invalidates(m, event)
  PROVE  AnnouncedIn(event, w, m, c, d)
<1>1. ~Opens(NoMessage, event)
  BY DEF Opens, NoMessage, Reply, Message
<1> QED BY <1>1 DEF AnnouncedIn

(* What is written is in the order where it was held.                      *)
LEMMA HeldWritten ==
  ASSUME NEW S, NEW w \in Seq(S), NEW e \in S, NEW m, NEW event, NEW c, NEW d,
         AnnouncedIn(event, w, m, c, d), Opens(m, event) => Opens(e, event),
         Invalidates(e, event) => Invalidates(m, event)
  PROVE  AnnouncedIn(event, Append(w, e), NoMessage, c, d)
<1>1. ~Invalidates(NoMessage, event)
  BY PlainHarmless DEF NoMessage, Reply, Message, Endings
<1> QED BY <1>1, AppendOrder DEF AnnouncedIn

(* Encoding a sample changes neither subscription nor key.                 *)
LEMMA EncodedOrder ==
  ASSUME NEW m \in Messages, m.kind \notin {"full", "delta"}
  PROVE  /\ \A event : (Opens(m, event) => Opens(Encoded(m), event))
                        /\ (Invalidates(Encoded(m), event) => Invalidates(m, event))
         /\ Encoded(m).id = m.id /\ Encoded(m).view = m.view
         /\ m.kind # "capture" => Encoded(m) = m
         /\ m.kind = "capture" => Encoded(m).kind \in {"full", "delta"}
<1>1. CASE m.kind # "capture"
  BY <1>1 DEF Encoded
<1>2. CASE m.kind = "capture"
  <2>1. /\ Encoded(m).id = m.id /\ Encoded(m).view = m.view
        /\ Encoded(m).kind \in {"full", "delta"}
    BY <1>2 DEF Encoded, Messages
  <2>2. \A event : ~Opens(m, event) /\ ~Invalidates(Encoded(m), event)
    BY <1>2, <2>1, PlainHarmless DEF Opens, Endings
  <2> QED BY <1>2, <2>1, <2>2
<1> QED BY <1>1, <1>2

-----------------------------------------------------------------------------
(* What the writer holds, and the slot, stay in order.                     *)

LEMMA LanesAre ==
  ASSUME TypeOK
  PROVE  /\ control \in Seq(ReplyMessages) /\ bulk \in Seq(ReplyMessages) /\ wire \in Seq(Messages)
         /\ observation \in SampleMessages \cup {NoMessage}
         /\ writing \in ReplyMessages \cup SampleMessages \cup {NoMessage}
         /\ writing \in Messages /\ writing.kind \notin {"full", "delta"}
         /\ writer = "receive" => writing = NoMessage
<1>1. ReplyMessages \subseteq Messages /\ SampleMessages \subseteq Messages
  BY DEF ReplyMessages, SampleMessages
<1>2. \A m \in ReplyMessages \cup SampleMessages \cup {NoMessage} : m.kind \notin {"full", "delta"}
  BY DEF ReplyMessages, SampleMessages, IsEvent, EventKinds, NoMessage, Reply, Message
<1> QED BY <1>1, <1>2, NoMessageTyped DEF TypeOK, LaneTypes, WriterTypes

LEMMA SampleIs ==
  /\ \A m \in SampleMessages : IsSample(m) /\ m # NoMessage /\ m.id \in Positive
  /\ \A m \in ReplyMessages : ~IsSample(m) /\ m # NoMessage
  /\ ~IsSample(NoMessage) /\ NoMessage.kind = "none" /\ NoMessage.id = 0
BY DEF SampleMessages, ReplyMessages, IsSample, IsEvent, NoMessage, Reply, Message, Messages,
       Positive, EventKinds

(* What becomes of a reply that is sent: it enters a lane, as it is or as  *)
(* an error, which is harmless.                                            *)
SentAs(m) ==
    \/ control' = Append(control, m) /\ UNCHANGED bulk
    \/ control' = Append(control, Reply(m.id, "resource_limit")) /\ UNCHANGED bulk /\ IsBulk(m)
    \/ bulk' = Append(bulk, m) /\ UNCHANGED control /\ IsBulk(m)

LEMMA SendEffect ==
  ASSUME TypeOK, SendReply
  PROVE  /\ Serving /\ ~failed /\ todo # <<>> /\ Head(todo) = todo[1] /\ 1 \in DOMAIN todo
         /\ Head(todo).call = "send" /\ Head(todo).message \in ReplyMessages
         /\ Reply(Head(todo).message.id, "resource_limit") \in ReplyMessages
         /\ SentAs(Head(todo).message) /\ todo' = Tail(todo)
         /\ UNCHANGED <<observation, writing, wire, baseline, stage, subscription, ownerVars, loopVars>>
<1>1. todo # <<>> /\ todo \in Seq(Calls) /\ Head(todo).call = "send" /\ todo' = Tail(todo) /\ Serving
  BY DEF SendReply, Calling, TypeOK, LoopTypes
<1>2. Head(todo) \in Calls /\ Head(todo) = todo[1] /\ 1 \in DOMAIN todo
  BY <1>1, HeadBeforeTail
<1>3. Head(todo).message \in ReplyMessages
  BY <1>1, <1>2 DEF Calls
<1>4. Head(todo).message.id \in Positive
  BY <1>3 DEF ReplyMessages, Messages, Positive
<1>5. Reply(Head(todo).message.id, "resource_limit") \in ReplyMessages
  BY <1>4, NoMessageTyped, MessageTyped DEF Reply, MessageKinds, ReplyKinds
<1>6. /\ SentAs(Head(todo).message) /\ ~failed
      /\ UNCHANGED <<observation, writing, wire, baseline, stage, subscription, ownerVars, loopVars>>
  BY DEF SendReply, SendBulk, SendControl, SentAs, Open, Calling, writerVars
<1> QED BY <1>1, <1>2, <1>3, <1>5, <1>6

LEMMA SendAnnounced ==
  ASSUME TypeOK, SendReply, NEW event, ~Invalidates(Head(todo).message, event)
  PROVE  /\ Announced(event) => AnnouncedIn(event, wire', writing', control', bulk')
         /\ Opens(Head(todo).message, event) /\ Harmless(bulk, event)
              => AnnouncedIn(event, wire', writing', control', bulk')
         /\ Harmless(bulk, event) => Harmless(bulk', event)
<1> DEFINE m == Head(todo).message
           limit == Reply(m.id, "resource_limit")
           Kept == /\ Announced(event) => AnnouncedIn(event, wire', writing', control', bulk')
                   /\ Opens(m, event) /\ Harmless(bulk, event)
                        => AnnouncedIn(event, wire', writing', control', bulk')
                   /\ Harmless(bulk, event) => Harmless(bulk', event)
<1>1. /\ m \in ReplyMessages /\ limit \in ReplyMessages /\ SentAs(m)
      /\ control \in Seq(ReplyMessages) /\ bulk \in Seq(ReplyMessages)
      /\ UNCHANGED <<writing, wire>>
  BY SendEffect, LanesAre
<1>2. ~Invalidates(limit, event) /\ limit.kind = "resource_limit"
  BY PlainHarmless DEF Reply, Message, Endings
<1>3. IsBulk(m) => ~Opens(m, event)
  BY DEF IsBulk, Opens
<1>4. ~Invalidates(m, event)
  OBVIOUS
<1> HIDE DEF m, limit
<1>5. ASSUME control' = Append(control, m) /\ UNCHANGED bulk
      PROVE  Kept
  BY <1>1, <1>4, <1>5, ReplyQueued DEF Announced
<1>6. ASSUME control' = Append(control, limit) /\ UNCHANGED bulk /\ IsBulk(m)
      PROVE  Kept
  BY <1>1, <1>2, <1>3, <1>6, ReplyQueued DEF Announced
<1>7. ASSUME bulk' = Append(bulk, m) /\ UNCHANGED control /\ IsBulk(m)
      PROVE  Kept
  BY <1>1, <1>3, <1>4, <1>7, WindowQueued DEF Announced
<1> QED BY <1>1, <1>5, <1>6, <1>7 DEF SentAs, m, limit, Kept

(* The writer keeps an event announced until it takes it.                  *)
LEMMA WriterAnnounces ==
  ASSUME TypeOK, Ending, Writer, failed' = failed, NEW event, Announced(event),
         ReceiveSample(writing') => ~Invalidates(observation, event),
         ~ReceiveFinal(writing')
  PROVE  AnnouncedIn(event, wire', writing', control', bulk')
<1> USE DEF Announced
<1>1. /\ control \in Seq(ReplyMessages) /\ bulk \in Seq(ReplyMessages) /\ wire \in Seq(Messages)
      /\ writing \in Messages /\ writing.kind \notin {"full", "delta"}
      /\ writer = "receive" => writing = NoMessage
  BY LanesAre
<1>2. CASE WriterReceive
  <2>0. writing = NoMessage /\ UNCHANGED wire
    BY <1>1, <1>2 DEF WriterReceive
  <2>1. CASE ReceiveControl(writing')
    BY <1>1, <2>0, <2>1, ReplyTaken DEF ReceiveControl
  <2>2. CASE ReceiveBulk(writing')
    BY <1>1, <2>0, <2>2, WindowTaken DEF ReceiveBulk
  <2>3. CASE ReceiveSample(writing')
    BY <2>0, <2>3, HeldHarmless DEF ReceiveSample
  <2> QED BY <1>2, <2>1, <2>2, <2>3 DEF WriterReceive
<1>3. CASE WriterAnnounce \/ WriterFinish \/ WriterReports
  BY <1>3 DEF WriterAnnounce, WriterFinish, WriterReports, lanes
<1>4. CASE WriterWrite
  <2>1. Encoded(writing) \in Messages
    BY <1>4, EncodedAlike
  <2>2. /\ Opens(writing, event) => Opens(Encoded(writing), event)
        /\ Invalidates(Encoded(writing), event) => Invalidates(writing, event)
    BY <1>1, EncodedOrder
  <2>3. wire' = Append(wire, Encoded(writing)) /\ writing' = NoMessage /\ UNCHANGED <<control, bulk>>
    BY <1>4 DEF WriterWrite, lanes
  <2> QED BY <1>1, <2>1, <2>2, <2>3, HeldWritten
<1>5. CASE WriterFails
  <2>1. failed' = TRUE /\ ~failed
    BY <1>5 DEF WriterFails, LoseOutbox, Ending, WriterAlive
  <2> QED BY <2>1
<1> QED BY <1>2, <1>3, <1>4, <1>5 DEF Writer
(* The steps that touch the slot, the lanes or the wire.                   *)
Moves == SendReply \/ PutSample \/ Writer

LEMMA MovesFrame ==
  ASSUME [Next]_vars, ~Moves
  PROVE  UNCHANGED <<control, bulk, observation, failed, writing, wire, baseline>>
<1>1. ASSUME Handler \/ OutputLost
      PROVE  UNCHANGED <<control, bulk, observation, failed, writing, wire, baseline>>
  BY <1>1, HandlerFrame, OutputLostFrame DEF Untouched, writerVars
<1>2. ASSUME Scheduler
      PROVE  UNCHANGED <<control, bulk, observation, failed, writing, wire, baseline>>
  BY <1>2, SchedulerFrame DEF writerVars
<1>3. ASSUME RefreshSample \/ SampleDue
      PROVE  UNCHANGED <<control, bulk, observation, failed, writing, wire, baseline>>
  BY <1>3 DEF RefreshSample, SampleDue, Calling, lanes, writerVars
<1>4. ASSUME ReadRequest \/ ReadEnd \/ Assembly \/ GuestAdvance
      PROVE  UNCHANGED <<control, bulk, observation, failed, writing, wire, baseline>>
  BY <1>4, ReaderFrame, AssemblyFrame DEF GuestAdvance, lanes, writerVars
<1>5. ASSUME UNCHANGED vars
      PROVE  UNCHANGED <<control, bulk, observation, failed, writing, wire, baseline>>
  BY <1>5 DEF vars, lanes, writerVars
<1> QED BY <1>1, <1>2, <1>3, <1>4, <1>5, Steps DEF Moves, Caller

LEMMA PutEffect ==
  ASSUME TypeOK, PutSample
  PROVE  /\ Serving /\ ~failed /\ todo # <<>> /\ Head(todo) = todo[1] /\ 1 \in DOMAIN todo
         /\ Head(todo).call = "observe" /\ observation' = Head(todo).message
         /\ Head(todo).message \in SampleMessages \cup {NoMessage} /\ todo' = Tail(todo)
         /\ UNCHANGED <<control, bulk, failed, writing, wire, baseline, subscription, ownerVars, loopVars>>
<1>1. todo # <<>> /\ todo \in Seq(Calls) /\ Head(todo).call = "observe" /\ todo' = Tail(todo) /\ Serving
  BY DEF PutSample, Calling, TypeOK, LoopTypes
<1>2. Head(todo) \in Calls /\ Head(todo) = todo[1] /\ 1 \in DOMAIN todo
  BY <1>1, HeadBeforeTail
<1>3. Head(todo).message \in SampleMessages \cup {NoMessage}
  BY <1>1, <1>2 DEF Calls
<1> QED BY <1>1, <1>2, <1>3 DEF PutSample, Observe, Open, Calling, writerVars

(* A sample that is put is announced. *)
LEMMA PutAnnounced ==
  ASSUME TypeOK, Dispatching, PutSample, Head(todo).message # NoMessage
  PROVE  Announced(Head(todo).message)
<1> DEFINE m == Head(todo).message
<1>1. /\ 1 \in DOMAIN todo /\ m = todo[1].message /\ Puts(1) /\ todo[1].call = "observe"
      /\ todo \in Seq(Calls)
  BY PutEffect DEF Puts, TypeOK, LoopTypes
<1> HIDE DEF m
<1>2. 1 = Len(todo) /\ (EndedPut(m) \/ CapturedPut(m))
  BY <1>1 DEF Dispatching, PutsLast
<1>3. ASSUME CapturedPut(m) PROVE Announced(m)
  <2>1. DOMAIN todo = 1 .. 1
    BY <1>1, <1>2, LenProperties
  <2>2. \A i \in DOMAIN todo : ~Sent(i)
    BY <1>1, <2>1 DEF Sent
  <2>3. Announced(LiveOf(subscription))
    BY <1>3, <2>2 DEF Dispatching, ForceSafe, Announcing, CapturedPut, CapturedIn
  <2>4. m.id = LiveOf(subscription).id /\ m.view.key = LiveOf(subscription).view.key
        /\ m.kind # "ended" /\ LiveOf(subscription).kind # "ended"
    BY <1>3 DEF CapturedPut, CapturedIn, LiveOf, Message, NoView
  <2> QED BY <2>3, <2>4, AnnouncedAlike DEF Announced
<1> QED BY <1>2, <1>3 DEF EndedPut, m

LEMMA OnItsWayStep ==
  ASSUME TypeOK, Ending, OnItsWay, Serving /\ ~failed => Dispatching, [Next]_vars
  PROVE  OnItsWay'
<1>1. CASE ~Moves
  BY <1>1, MovesFrame DEF OnItsWay, Announced, IsSample
<1>2. CASE SendReply
  <2>1. ASSUME observation # NoMessage PROVE ~Invalidates(Head(todo).message, observation)
    <3>1. Sent(1) /\ 1 \in DOMAIN todo /\ Head(todo) = todo[1] /\ SlotSafe
          /\ todo \in Seq(Calls)
      BY <1>2, SendEffect DEF Sent, Dispatching, TypeOK, LoopTypes
    <3>2. \A k \in DOMAIN todo : ~(k < 1)
      BY <3>1, LenProperties
    <3> QED BY <2>1, <3>1, <3>2 DEF SlotSafe, Clears
  <2>2. ASSUME observation # NoMessage
        PROVE  AnnouncedIn(observation, wire', writing', control', bulk')
    BY <1>2, <2>1, <2>2, SendAnnounced DEF OnItsWay
  <2>3. UNCHANGED <<observation, writing, wire>>
    BY <1>2, SendEffect
  <2> QED BY <2>2, <2>3 DEF OnItsWay, Announced, IsSample
<1>3. CASE PutSample
  <2>1. Dispatching /\ observation' = Head(todo).message
        /\ UNCHANGED <<control, bulk, writing, wire>>
    BY <1>3, PutEffect
  <2>2. ASSUME Head(todo).message # NoMessage
        PROVE  AnnouncedIn(Head(todo).message, wire, writing, control, bulk)
    BY <1>3, <2>1, <2>2, PutAnnounced DEF Announced
  <2> QED BY <2>1, <2>2 DEF OnItsWay, Announced, IsSample
<1>4. CASE Writer
  <2>0. /\ writer = "receive" => writing = NoMessage
        /\ ~IsSample(NoMessage)
        /\ control \in Seq(ReplyMessages) /\ bulk \in Seq(ReplyMessages) /\ wire \in Seq(Messages)
    BY LanesAre, SampleIs
  <2>1. ASSUME ~WriterFails, observation' # NoMessage, UNCHANGED observation
        PROVE  Announced(observation)'
    <3>1. failed' = failed
      BY <1>4, <2>1 DEF Writer, WriterReceive, ReceiveControl, ReceiveBulk, ReceiveSample,
         ReceiveFinal, WriterAnnounce, WriterWrite, WriterFinish, WriterReports, lanes
    <3>2. ~ReceiveSample(writing') /\ ~ReceiveFinal(writing')
      BY <2>1 DEF ReceiveSample, ReceiveFinal
    <3>3. AnnouncedIn(observation, wire', writing', control', bulk')
      BY <1>4, <2>1, <3>1, <3>2, WriterAnnounces DEF OnItsWay
    <3> QED BY <2>1, <3>3 DEF Announced
  <2>2. CASE WriterReceive
    <3>1. writing = NoMessage /\ UNCHANGED wire
      BY <2>0, <2>2 DEF WriterReceive
    <3>2. CASE ReceiveSample(writing')
      <4>1. OpenedIn(wire, observation)
        BY <3>1, <3>2, TakenAnnounced DEF ReceiveSample, OnItsWay, Announced
      <4> QED BY <3>1, <3>2, <4>1 DEF ReceiveSample, OnItsWay
    <3>3. CASE ReceiveFinal(writing')
      <4>1. writing' = final /\ observation' = NoMessage /\ final # NoMessage
        BY <3>3 DEF ReceiveFinal
      <4>2. final \in ReplyMessages
        BY <4>1 DEF TypeOK, LaneTypes
      <4> QED BY <4>1, <4>2, SampleIs DEF OnItsWay
    <3>4. CASE ReceiveControl(writing') \/ ReceiveBulk(writing')
      <4>1. writing' \in ReplyMessages /\ UNCHANGED observation
        BY <2>0, <3>4, LaneHead DEF ReceiveControl, ReceiveBulk
      <4>2. ~WriterFails
        BY <2>2 DEF WriterReceive, WriterFails
      <4> QED BY <2>1, <4>1, <4>2, SampleIs DEF OnItsWay
    <3> QED BY <2>2, <3>2, <3>3, <3>4 DEF WriterReceive
  <2>3. CASE WriterWrite
    <3>1. ~IsSample(writing') /\ UNCHANGED observation /\ ~WriterFails
      BY <2>0, <2>3 DEF WriterWrite, lanes, WriterFails
    <3> QED BY <2>1, <3>1 DEF OnItsWay
  <2>4. CASE WriterAnnounce \/ WriterFinish \/ WriterReports
    BY <2>4 DEF WriterAnnounce, WriterFinish, WriterReports, lanes, OnItsWay, Announced, IsSample
  <2>5. CASE WriterFails
    BY <2>0, <2>5 DEF WriterFails, LoseOutbox, OnItsWay
  <2> QED BY <1>4, <2>2, <2>3, <2>4, <2>5 DEF Writer
<1> QED BY <1>1, <1>2, <1>3, <1>4 DEF Moves
-----------------------------------------------------------------------------
(* The key of the session only moves forward.                              *)

LEMMA ApplyKey ==
  ASSUME OwnerTypes, NEW command, Apply(command)
  PROVE  generation' \in {generation, generation + 1}
<1>1. ASSUME NEW event, Control(event) PROVE generation' \in {generation, generation + 1}
  BY <1>1 DEF Control
<1> QED BY <1>1 DEF Apply

OwnerMoves ==
    \/ UNCHANGED <<session, generation>> /\ sequence <= sequence'
    \/ UNCHANGED <<session, sequence>> /\ generation' = generation + 1
    \/ UNCHANGED session /\ generation' = generation + 1 /\ sequence' = sequence + 1
    \/ session' = last' /\ generation' = 0 /\ last < last'
    \/ session' = 0 /\ generation' = 0

LEMMA OwnerMovesWhen ==
  ASSUME OwnerTypes
  PROVE  /\ UNCHANGED ownerVars => OwnerMoves
         /\ \A command, memory : Observed(command, memory) => OwnerMoves
         /\ \A command : Unobserved(command) => OwnerMoves
         /\ Unload => OwnerMoves
         /\ Advance => OwnerMoves
<1>0. sequence \in Nat
  BY DEF OwnerTypes
<1>1. UNCHANGED ownerVars => OwnerMoves
  BY <1>0 DEF ownerVars, OwnerMoves
<1>2. \A command, memory : Observed(command, memory) => OwnerMoves
  BY <1>0, ApplyKey DEF Observed, OwnerMoves
<1>3. \A command : Unobserved(command) => OwnerMoves
  BY <1>0, ApplyKey DEF Unobserved, OwnerMoves
<1>4. Unload => OwnerMoves
  BY DEF Unload, OwnerMoves
<1>5. Advance => OwnerMoves
  BY <1>0 DEF Advance, OwnerMoves
<1> QED BY <1>1, <1>2, <1>3, <1>4, <1>5

LEMMA CommandLast ==
  ASSUME TypeOK, NEW kind, Command(kind)
  PROVE  last' = Request.id /\ last' \in Nat /\ last < last' /\ last \in Nat
<1>1. Request.id \in Nat
  BY ReceiveTyped DEF Command
<1> QED BY <1>1 DEF Command, OutOfOrder, TypeOK, LoopTypes

LEMMA OwnerSteps ==
  ASSUME TypeOK, [Next]_vars
  PROVE  OwnerMoves /\ last <= last'
<1>0. OwnerTypes /\ last \in Nat
  BY DEF TypeOK, LoopTypes
<1>1. ASSUME UNCHANGED <<last, ownerVars>> PROVE OwnerMoves /\ last <= last'
  BY <1>0, <1>1, OwnerMovesWhen
<1>2. CASE RefuseRequest \/ BuildFinished \/ Writable \/ ThreadFailed
  BY <1>1, <1>2 DEF RefuseRequest, BuildFinished, Writable, ThreadFailed, Fail, loopVars
<1>3. CASE Handshake
  <2>1. Request.id \in Nat
    BY <1>3, ReceiveTyped DEF Handshake
  <2>2. last < Request.id /\ last' = Request.id /\ UNCHANGED ownerVars
    BY <1>0, <1>3, <2>1 DEF Handshake, OutOfOrder
  <2> QED BY <1>0, <2>1, <2>2, OwnerMovesWhen
<1>4. CASE \/ Assemble \/ CancelAssembly \/ Subscribe \/ Unsubscribe
           \/ LoadImage \/ Execute \/ CloseSession \/ Inspect \/ Shutdown
  <2>1. PICK kind : Command(kind)
    BY <1>4 DEF Assemble, CancelAssembly, Subscribe, Unsubscribe, LoadImage, Execute,
                CloseSession, Inspect, Shutdown
  <2>2. last' = Request.id /\ last < last' /\ last' \in Nat
    BY <2>1, CommandLast
  <2>3. ASSUME Assemble \/ CancelAssembly \/ Unsubscribe \/ Inspect PROVE OwnerMoves
    BY <1>0, <2>3, OwnerMovesWhen DEF Assemble, CancelAssembly, Unsubscribe, Inspect
  <2>4. ASSUME Subscribe \/ Execute PROVE OwnerMoves
    BY <1>0, <2>4, OwnerMovesWhen DEF Subscribe, Execute
  <2>5. ASSUME LoadImage PROVE OwnerMoves
    <3>1. Load(Request.id) => OwnerMoves
      BY <2>2 DEF Load, OwnerMoves
    <3> QED BY <1>0, <2>5, <3>1, OwnerMovesWhen DEF LoadImage
  <2>6. ASSUME CloseSession \/ Shutdown PROVE OwnerMoves
    BY <1>0, <2>6, OwnerMovesWhen DEF CloseSession, Shutdown
  <2> QED BY <1>0, <1>4, <2>2, <2>3, <2>4, <2>5, <2>6
<1>5. CASE InputClosed
  BY <1>0, <1>5, OwnerMovesWhen DEF InputClosed
<1>6. CASE Handler
  BY <1>2, <1>3, <1>4, <1>5, <1>6 DEF Handler
<1>7. ASSUME NEW rest, Capture(rest), UNCHANGED last PROVE OwnerMoves /\ last <= last'
  BY <1>0, <1>7, OwnerMovesWhen DEF Capture
<1>8. CASE Caller
  BY <1>1, <1>7, <1>8, CallerFrame DEF Caller, SendReply, PutSample, RefreshSample, SampleDue, loopVars
<1>9. CASE Scheduler \/ ReadRequest \/ ReadEnd \/ Assembly \/ OutputLost \/ Writer
  BY <1>1, <1>9, SchedulerFrame, ReaderFrame, AssemblyFrame, OutputLostFrame, WriterFrame
     DEF loopVars, Fails
<1>10. CASE GuestAdvance
  BY <1>0, <1>10, OwnerMovesWhen DEF GuestAdvance, loopVars
<1>11. CASE UNCHANGED vars
  BY <1>1, <1>11 DEF vars, loopVars
<1> QED BY <1>6, <1>8, <1>9, <1>10, <1>11, Steps

(* A key of the past stays one, and once it is not in force it never is.   *)
LEMMA PastStays ==
  ASSUME TypeOK, session <= last, [Next]_vars
  PROVE  /\ session' <= last'
         /\ \A key \in Keys : Past(key) => Past(key)' /\ (key # Key => key # Key')
         /\ \A key \in Keys : Past(key) /\ key = Key' => sequence <= sequence'
<1>1. OwnerMoves /\ last <= last' /\ TypeOK'
  BY OwnerSteps, TypesStep
<1>2. /\ session \in Nat /\ generation \in Nat /\ sequence \in Nat /\ last \in Nat
      /\ session' \in Nat /\ generation' \in Nat /\ sequence' \in Nat /\ last' \in Nat
  BY <1>1 DEF TypeOK, OwnerTypes, LoopTypes
<1>3. session' <= last'
  BY <1>1, <1>2 DEF OwnerMoves
<1>4. ASSUME NEW s \in Nat, NEW g \in Nat, Past(<<s, g>>)
      PROVE  /\ Past(<<s, g>>)' /\ (<<s, g>> # Key => <<s, g>> # Key')
             /\ <<s, g>> = Key' => sequence <= sequence'
  <2>1. s # 0 /\ (session = 0 => s <= last)
        /\ (session # 0 => s < session \/ (s = session /\ g <= generation))
    BY <1>4 DEF Past, PastIn
  <2>2. s # 0 /\ (session' = 0 => s <= last')
        /\ (session' # 0 => s < session' \/ (s = session' /\ g <= generation'))
    BY <1>1, <1>2, <2>1 DEF OwnerMoves
  <2>3. Past(<<s, g>>)'
    BY <2>2 DEF Past, PastIn
  <2>4. ASSUME s = session', g = generation' PROVE s = session /\ g = generation
    BY <1>1, <1>2, <2>1, <2>4 DEF OwnerMoves
  <2>5. ASSUME s = session', g = generation' PROVE sequence <= sequence'
    BY <1>1, <1>2, <2>1, <2>5 DEF OwnerMoves
  <2> QED BY <2>3, <2>4, <2>5 DEF Key
<1>5. \A key \in Keys : \E s \in Nat, g \in Nat : key = <<s, g>>
  BY DEF Keys
<1> QED BY <1>3, <1>4, <1>5
-----------------------------------------------------------------------------
(***************************************************************************)
(* What the handlers mean for the stream.  A quiet one sends a reply that  *)
(* leaves the subscription in force; a closing one clears the slot before  *)
(* it sends; an opening one clears, announces and puts the first sample.   *)
(***************************************************************************)
Stop == Put(NoMessage)
Plainly(calls) ==
    \A i \in DOMAIN calls : calls[i].call = "send" /\ calls[i].message.kind \notin Endings

PlainHandler == UNCHANGED subscription /\ Plainly(todo')

Tells(m) ==
    \/ m.kind = "observed" /\ m.view.key = Key' /\ session' # 0
    \/ m.kind = "session_closed" /\ m.view.key = Key /\ session # 0

QuietHandler ==
    /\ UNCHANGED subscription
    /\ \E m, b : /\ Tells(m) /\ ~Ends(m)
                 /\ todo' \in {<<Send(m, b)>>, <<Send(m, b), Sample>>}

ClosingHandler ==
    /\ subscription' = NoSubscription
    /\ \/ todo' = <<Stop>>
       \/ \E m, b : /\ m.kind = "observed" => m.view.key = Key' /\ session' # 0
                    /\ todo' \in {<<Stop, Send(m, b)>>, <<Stop, Send(m, b), Sample>>}

OpeningHandler ==
    /\ UNCHANGED <<session, generation>> /\ session # 0 /\ sequence' = sequence + 1
    /\ last < last' /\ last' \in Nat /\ last \in Nat
    /\ subscription' # NoSubscription /\ subscription'.id = last' /\ subscription'.key = Key
    /\ \E m \in SampleMessages :
         /\ m.kind = "capture" /\ m.id = last' /\ m.view.key = Key /\ m.view.sequence = sequence'
         /\ todo' = <<Stop, Send(Reply(last', "subscribed"), FALSE), Put(m)>>

LEMMA Lists ==
  /\ \A x : <<>> \o <<x>> = <<x>> /\ <<x>> \o <<>> = <<x>>
  /\ \A x, y : <<x>> \o <<y>> = <<x, y>>
  /\ \A x, y, z : <<x, y>> \o <<z>> = <<x, y, z>>
<1>1. \A x : <<>> \o <<x>> = <<x>> /\ <<x>> \o <<>> = <<x>>
  <2>1. \A x : <<>> \o <<x>> = <<x>>
    OBVIOUS
  <2>2. \A x : <<x>> \o <<>> = <<x>>
    OBVIOUS
  <2> QED BY <2>1, <2>2
<1>2. ASSUME NEW x, NEW y PROVE <<x>> \o <<y>> = <<x, y>>
  <2> DEFINE S == {x, y}
             s == <<x>>
             t == <<y>>
             r == <<x, y>>
  <2>1. s \in Seq(S) /\ Len(s) = 1 /\ s[1] = x /\ t \in Seq(S) /\ Len(t) = 1 /\ t[1] = y
    OBVIOUS
  <2>2. r \in Seq(S) /\ Len(r) = 2 /\ r[1] = x /\ r[2] = y
    OBVIOUS
  <2> HIDE DEF s, t, r, S
  <2>3. /\ s \o t \in Seq(S) /\ Len(s \o t) = 2
        /\ \A i \in 1 .. 2 : (s \o t)[i] = r[i]
    BY <2>1, <2>2, ConcatProperties
  <2>4. s \o t = r
    BY <2>2, <2>3, SeqEqual
  <2> QED BY <2>4 DEF s, t, r
<1>3. ASSUME NEW x, NEW y, NEW z PROVE <<x, y>> \o <<z>> = <<x, y, z>>
  <2> DEFINE S == {x, y, z}
             s == <<x, y>>
             t == <<z>>
             r == <<x, y, z>>
  <2>1. s \in Seq(S) /\ Len(s) = 2 /\ s[1] = x /\ s[2] = y /\ t \in Seq(S) /\ Len(t) = 1 /\ t[1] = z
    OBVIOUS
  <2>2. r \in Seq(S) /\ Len(r) = 3 /\ r[1] = x /\ r[2] = y /\ r[3] = z
    OBVIOUS
  <2> HIDE DEF s, t, r, S
  <2>3. /\ s \o t \in Seq(S) /\ Len(s \o t) = 3
        /\ (s \o t)[1] = r[1] /\ (s \o t)[2] = r[2] /\ (s \o t)[3] = r[3]
    <3>1. /\ s \o t \in Seq(S) /\ Len(s \o t) = Len(s) + Len(t)
          /\ \A i \in 1 .. Len(s) + Len(t) :
                (s \o t)[i] = IF i <= Len(s) THEN s[i] ELSE t[i - Len(s)]
      BY <2>1, ConcatProperties
    <3>2. (s \o t)[1] = s[1] /\ (s \o t)[2] = s[2] /\ (s \o t)[3] = t[1]
      BY <2>1, <3>1
    <3> QED BY <2>1, <2>2, <3>1, <3>2
  <2>4. s \o t = r
    <3>1. \A i \in 1 .. 3 : (s \o t)[i] = r[i]
      BY <2>3
    <3> QED BY <2>2, <2>3, <3>1, SeqEqual
  <2> QED BY <2>4 DEF s, t, r
<1> QED BY <1>1, <1>2, <1>3

(* The elements of a short list. *)
LEMMA Short ==
  /\ \A x, l : l = <<x>> => Len(l) = 1 /\ DOMAIN l = {1} /\ l[1] = x
  /\ \A x, y, l : l = <<x, y>> => Len(l) = 2 /\ DOMAIN l = {1, 2} /\ l[1] = x /\ l[2] = y
  /\ \A x, y, z, l : l = <<x, y, z>> =>
        Len(l) = 3 /\ DOMAIN l = {1, 2, 3} /\ l[1] = x /\ l[2] = y /\ l[3] = z
<1>1. 1 .. 1 = {1} /\ 1 .. 2 = {1, 2} /\ 1 .. 3 = {1, 2, 3}
  OBVIOUS
<1>2. \A x, l : l = <<x>> => Len(l) = 1 /\ DOMAIN l = {1} /\ l[1] = x
  BY <1>1
<1>3. \A x, y, l : l = <<x, y>> => Len(l) = 2 /\ DOMAIN l = {1, 2} /\ l[1] = x /\ l[2] = y
  BY <1>1
<1>4. \A x, y, z, l : l = <<x, y, z>> =>
        Len(l) = 3 /\ DOMAIN l = {1, 2, 3} /\ l[1] = x /\ l[2] = y /\ l[3] = z
  BY <1>1
<1> QED BY <1>2, <1>3, <1>4

LEMMA PlainLists ==
  /\ Plainly(<<>>)
  /\ \A id, kind : kind \notin Endings => Plainly(Answer(id, kind))
  /\ \A m, b : m.kind \notin Endings => Plainly(<<Send(m, b)>>)
  /\ \A i, j, k, l : k \notin Endings /\ l \notin Endings => Plainly(Answer(i, k) \o Answer(j, l))
<1>1. Plainly(<<>>)
  BY DEF Plainly
<1>2. \A m, b : m.kind \notin Endings => Plainly(<<Send(m, b)>>)
  BY DEF Plainly, Send
<1>3. \A id, kind : kind \notin Endings => Plainly(Answer(id, kind))
  <2>1. \A id, kind : Reply(id, kind).kind = kind
    BY DEF Reply, Message
  <2> QED BY <1>2, <2>1 DEF Answer
<1>4. ASSUME NEW i, NEW j, NEW k, NEW l, k \notin Endings, l \notin Endings
      PROVE  Plainly(Answer(i, k) \o Answer(j, l))
  <2> DEFINE x == Send(Reply(i, k), FALSE)
             y == Send(Reply(j, l), FALSE)
  <2>1. x.call = "send" /\ x.message.kind = k /\ y.call = "send" /\ y.message.kind = l
    BY DEF Send, Reply, Message
  <2>2. Answer(i, k) \o Answer(j, l) = <<x>> \o <<y>>
    BY DEF Answer
  <2> HIDE DEF x, y
  <2>3. Answer(i, k) \o Answer(j, l) = <<x, y>>
    BY <2>2, Lists
  <2>4. Plainly(<<x, y>>)
    BY <1>4, <2>1 DEF Plainly
  <2> QED BY <2>3, <2>4
<1> QED BY <1>1, <1>2, <1>3, <1>4

LEMMA PerformedLists ==
  ASSUME NEW reply, NEW refresh \in BOOLEAN, Performed(reply, refresh)
  PROVE  /\ ~Ends(reply) => /\ UNCHANGED subscription
                            /\ todo' \in {<<Send(reply, Busy)>>, <<Send(reply, Busy), Sample>>}
         /\ Ends(reply) =>
              /\ subscription' = NoSubscription
              /\ todo' \in {<<Stop, Send(reply, Busy)>>, <<Stop, Send(reply, Busy), Sample>>}
         /\ reply.kind = "error" => ~Ends(reply) /\ todo' = <<Send(reply, Busy)>>
         /\ ~refresh /\ ~Ends(reply) => todo' = <<Send(reply, Busy)>>
<1> DEFINE s == Send(reply, Busy)
           p == Stop
           n == Sample
           a == IF Ends(reply) THEN StopObserving ELSE <<>>
           c == IF refresh /\ reply.kind # "error" THEN <<Sample>> ELSE <<>>
<1>1. todo' = (a \o <<s>>) \o c
  BY DEF Performed, Handled
<1>2. /\ Ends(reply) => a = <<p>>
      /\ ~Ends(reply) => a = <<>>
      /\ c \in {<<>>, <<n>>} /\ (~refresh \/ reply.kind = "error" => c = <<>>)
      /\ reply.kind = "error" => ~Ends(reply)
  BY DEF StopObserving, Stop, Ends
<1>3. subscription' = IF Ends(reply) THEN NoSubscription ELSE subscription
  BY DEF Performed
<1> HIDE DEF s, p, n, a, c
<1>4. CASE Ends(reply)
  <2>1. a \o <<s>> = <<p, s>>
    BY <1>2, <1>4, Lists
  <2>2. <<p, s>> \o <<n>> = <<p, s, n>> /\ <<p, s>> \o <<>> = <<p, s>>
    BY Lists
  <2>3. todo' \in {<<p, s>>, <<p, s, n>>}
    BY <1>1, <1>2, <2>1, <2>2
  <2> QED BY <1>2, <1>3, <1>4, <2>3 DEF s, p, n
<1>5. CASE ~Ends(reply)
  <2>1. a \o <<s>> = <<s>>
    BY <1>2, <1>5, Lists
  <2>2. <<s>> \o <<n>> = <<s, n>> /\ <<s>> \o <<>> = <<s>>
    BY Lists
  <2>3. todo' \in {<<s>>, <<s, n>>} /\ (c = <<>> => todo' = <<s>>)
    BY <1>1, <1>2, <2>1, <2>2
  <2> QED BY <1>2, <1>3, <1>5, <2>3 DEF s, n
<1> QED BY <1>4, <1>5

(* A reply that tells the key is sent quietly or after the slot is cleared.*)
LEMMA PerformedStream ==
  ASSUME NEW reply, NEW refresh \in BOOLEAN, Performed(reply, refresh)
  PROVE  /\ Tells(reply) => QuietHandler \/ ClosingHandler
         /\ reply.kind \in {"error", "decoded", "trace"} /\ (reply.kind # "error" => ~refresh)
              => PlainHandler
<1>1. CASE Ends(reply)
  BY <1>1, PerformedLists DEF Tells, ClosingHandler, Ends
<1>2. CASE ~Ends(reply)
  <2>1. ASSUME reply.kind \in {"error", "decoded", "trace"}, reply.kind # "error" => ~refresh
        PROVE  PlainHandler
    <3>1. todo' = <<Send(reply, Busy)>> /\ UNCHANGED subscription
      BY <1>2, <2>1, PerformedLists
    <3>2. Plainly(<<Send(reply, Busy)>>)
      BY <2>1, PlainLists DEF Endings
    <3> QED BY <3>1, <3>2 DEF PlainHandler
  <2> QED BY <1>2, <2>1, PerformedLists DEF QuietHandler
<1> QED BY <1>1, <1>2

LEMMA SubscribeStream ==
  ASSUME TypeOK, Subscribe, session <= last
  PROVE  PlainHandler \/ OpeningHandler
<1>0. /\ last' = Request.id /\ last < last' /\ last' \in Nat /\ last \in Nat
      /\ Request.id \in Positive /\ Key \in Keys
  <2>1. Command("subscribe")
    BY DEF Subscribe
  <2>2. Key \in Keys
    BY ViewTyped DEF TypeOK
  <2>3. last' = Request.id /\ last < last' /\ last' \in Nat /\ last \in Nat
    BY <2>1, CommandLast
  <2> QED BY <2>2, <2>3 DEF Positive
<1>1. ASSUME NEW memory \in BOOLEAN, Observed("observe", memory),
             subscription' = [id |-> Request.id, key |-> Key, memory |-> memory,
                              running |-> status = "running"],
             Handled(StopObserving \o Answer(Request.id, "subscribed")
                       \o <<Put(Message(Request.id, "capture", View(memory)'))>>)
      PROVE  OpeningHandler
  <2> DEFINE m == Message(Request.id, "capture", View(memory)')
             s == Send(Reply(last', "subscribed"), FALSE)
             p == Put(m)
             n == Stop
  <2>1. View(memory)' \in Views /\ View(memory)'.key = Key' /\ View(memory)'.sequence = sequence'
    <3>1. OwnerTypes'
      BY <1>1, ObservedTyped DEF TypeOK
    <3> QED BY <3>1, ViewTypedNext DEF View
  <2>2. UNCHANGED <<session, generation>> /\ session # 0 /\ sequence' = sequence + 1 /\ Key' = Key
    BY <1>1 DEF Observed, Apply, Key, Unloaded
  <2>3. m \in SampleMessages
    BY <1>0, <2>1, MessageTyped DEF MessageKinds
  <2>4. m.kind = "capture" /\ m.id = last' /\ m.view.key = Key /\ m.view.sequence = sequence'
    BY <1>0, <2>1, <2>2 DEF Message
  <2>5. /\ subscription'.id = last' /\ subscription'.key = Key
        /\ subscription' # NoSubscription
    BY <1>0, <1>1 DEF NoSubscription, Positive
  <2>6. todo' = (<<n>> \o <<s>>) \o <<p>>
    BY <1>0, <1>1 DEF Handled, StopObserving, Answer, Stop
  <2> HIDE DEF m, n, s, p
  <2>7. todo' = <<n, s, p>>
    <3>1. <<n>> \o <<s>> = <<n, s>> /\ <<n, s>> \o <<p>> = <<n, s, p>>
      BY Lists
    <3> QED BY <2>6, <3>1
  <2> QED BY <1>0, <2>2, <2>3, <2>4, <2>5, <2>7 DEF OpeningHandler, n, s, p
<1>2. ASSUME Handled(Answer(Request.id, "error")), UNCHANGED subscription
      PROVE  PlainHandler
  BY <1>2, PlainLists DEF PlainHandler, Handled, Endings
<1> QED BY <1>1, <1>2 DEF Subscribe

LEMMA HandlerStream ==
  ASSUME TypeOK, session <= last, Handler, Serving'
  PROVE  PlainHandler \/ QuietHandler \/ ClosingHandler \/ OpeningHandler
<1>0. Serving
  BY HandlerFrame
<1>1. CASE RefuseRequest \/ ThreadFailed
  BY <1>1 DEF RefuseRequest, ThreadFailed, Fail, Serving
<1>2. CASE Handshake \/ Assemble \/ CancelAssembly \/ Writable
  <2>1. UNCHANGED subscription
    BY <1>2 DEF Handshake, Assemble, CancelAssembly, Writable
  <2>2. Plainly(todo')
    BY <1>2, PlainLists DEF Handshake, Assemble, CancelAssembly, Writable, Handled, Endings
  <2> QED BY <2>1, <2>2 DEF PlainHandler
<1>3. CASE BuildFinished
  <2>1. Request.kind \notin Endings
    <3>1. Request \in QueuedEvents /\ Request.type = "build"
      BY <1>3, ReceiveTyped DEF BuildFinished
    <3> QED BY <3>1 DEF QueuedEvents, Endings
  <2>2. Plainly(todo') /\ UNCHANGED subscription
    BY <1>3, <2>1, PlainLists DEF BuildFinished, Handled
  <2> QED BY <2>2 DEF PlainHandler
<1>4. CASE Subscribe
  BY <1>4, SubscribeStream
<1>5. CASE Unsubscribe
  <2>1. ASSUME NEW m, Handled(StopObserving \o <<Send(m, FALSE)>>), m.kind = "unsubscribed",
               subscription' = NoSubscription
        PROVE  ClosingHandler
    <3> DEFINE s == Send(m, FALSE)
               n == Stop
    <3>1. todo' = <<n>> \o <<s>>
      BY <2>1 DEF Handled, StopObserving, Stop
    <3> HIDE DEF s, n
    <3>2. todo' = <<n, s>>
      BY <3>1, Lists
    <3> QED BY <2>1, <3>2 DEF ClosingHandler, s, n
  <2>2. ASSUME Handled(Answer(Request.id, "error")), UNCHANGED subscription
        PROVE  PlainHandler
    BY <2>2, PlainLists DEF PlainHandler, Handled, Endings
  <2>3. [Reply(Request.id, "unsubscribed") EXCEPT !.base = subscription.id].kind = "unsubscribed"
    BY DEF Reply, Message
  <2> QED BY <1>5, <2>1, <2>2, <2>3 DEF Unsubscribe
<1>6. ASSUME NEW id, NEW memory, NEW refresh \in BOOLEAN,
             Performed(Message(id, "observed", View(memory)'), refresh), session' # 0
      PROVE  QuietHandler \/ ClosingHandler
  <2>1. Tells(Message(id, "observed", View(memory)'))
    BY <1>6 DEF Tells, Message, View
  <2> QED BY <1>6, <2>1, PerformedStream
<1>7. ASSUME NEW id, NEW kind \in {"error", "decoded", "trace"}, NEW refresh \in BOOLEAN,
             Performed(Reply(id, kind), refresh), kind # "error" => ~refresh
      PROVE  PlainHandler
  <2>1. Reply(id, kind).kind = kind
    BY DEF Reply, Message
  <2> QED BY <1>7, <2>1, PerformedStream
<1>8. CASE LoadImage
  <2>1. Command("load") /\ \A id : Load(id) => session' = id
    BY <1>8 DEF LoadImage, Load
  <2>2. Request.id # 0
    BY <2>1, CommandLast DEF TypeOK, LoopTypes
  <2> QED BY <1>6, <1>7, <1>8, <2>1, <2>2 DEF LoadImage
<1>9. CASE Execute
  <2>1. PICK command \in Controls \cup {"observe"} :
          \/ /\ session' # 0
             /\ \E memory \in BOOLEAN : Performed(Message(Request.id, "observed", View(memory)'),
                                                   command # "observe")
          \/ Performed(Reply(Request.id, "error"), command # "observe")
    BY <1>9 DEF Execute, Observed, Unloaded
  <2>2. (command # "observe") \in BOOLEAN
    OBVIOUS
  <2> QED BY <1>6, <1>7, <2>1, <2>2
<1>10. CASE CloseSession
  <2>1. ASSUME ~Unloaded,
               Performed(Message(Request.id, "session_closed", [NoView EXCEPT !.key = Key]), TRUE)
        PROVE  QuietHandler \/ ClosingHandler
    <3>1. Tells(Message(Request.id, "session_closed", [NoView EXCEPT !.key = Key]))
      BY <2>1 DEF Tells, Message, NoView, Unloaded
    <3> QED BY <2>1, <3>1, PerformedStream
  <2> QED BY <1>7, <1>10, <2>1 DEF CloseSession
<1>11. CASE Inspect
  <2>1. PICK kind \in {"hello", "decode", "read_trace"}, answer \in {"error", "decoded", "trace"} :
          Performed(Reply(Request.id, answer), FALSE)
    BY <1>11 DEF Inspect
  <2> QED BY <1>7, <2>1
<1>12. CASE Shutdown \/ InputClosed
  BY <1>12 DEF Shutdown, InputClosed, ClosingHandler, Handled, StopObserving, Stop
<1> QED BY <1>1, <1>2, <1>3, <1>4, <1>5, <1>8, <1>9, <1>10, <1>11, <1>12 DEF Handler

-----------------------------------------------------------------------------
(* Every key the worker speaks of is one the session has had.              *)

LEMMA PastMessages ==
  ASSUME TypeOK, Keyed, [Next]_vars
  PROVE  /\ session' <= last'
         /\ \A key \in Keys :
              Past(key) => PastIn(key, session', generation', last')
         /\ \A m \in Messages :
              Past(m.view.key) => PastIn(m.view.key, session', generation', last')
         /\ session' # 0 => PastIn(Key', session', generation', last')
<1>1. session' <= last' /\ \A key \in Keys : Past(key) => PastIn(key, session', generation', last')
  BY PastStays DEF Keyed, Past
<1>2. \A m \in Messages : m.view.key \in Keys
  BY DEF Messages, Views
<1>3. session' # 0 => PastIn(Key', session', generation', last')
  <2>1. session' \in Nat /\ generation' \in Nat
    BY TypesStep DEF TypeOK, OwnerTypes
  <2> QED BY <2>1 DEF PastIn, Key
<1> QED BY <1>1, <1>2, <1>3

(* The calls of a handler.                                                 *)
LEMMA KeyedHandler ==
  ASSUME TypeOK, Keyed, [Next]_vars, Handler
  PROVE  /\ subscription' # NoSubscription =>
              subscription'.id <= last' /\ PastIn(subscription'.key, session', generation', last')
         /\ \A i \in DOMAIN todo' : todo'[i].message.kind = "observed" =>
              PastIn(todo'[i].message.view.key, session', generation', last')
<1> DEFINE Old(key) == Past(key)
           New(key) == PastIn(key, session', generation', last')
<1>0. /\ \A key \in Keys : Old(key) => New(key)
      /\ session' # 0 => New(Key')
  BY PastMessages
<1>1. /\ todo \in Seq(Calls) /\ \A i \in DOMAIN todo : todo[i].message \in Messages
      /\ subscription # NoSubscription => subscription.key \in Keys /\ subscription.id \in Nat
      /\ last <= last' /\ last \in Nat /\ last' \in Nat
  <2>1. todo \in Seq(Calls) /\ \A i \in DOMAIN todo : todo[i] \in Calls
    BY ElementOfSeq, LenProperties DEF TypeOK, LoopTypes
  <2>2. last <= last' /\ TypeOK'
    BY OwnerSteps, TypesStep
  <2> QED BY <2>1, <2>2 DEF Calls, CallRecords, TypeOK, LoopTypes, Subscriptions, Positive
<1>2. Keyed /\ \A m \in Messages : m.view.key \in Keys
  BY DEF Messages, Views
<1>3. ASSUME UNCHANGED subscription
      PROVE  subscription' # NoSubscription => subscription'.id <= last' /\ New(subscription'.key)
  <2>1. subscription # NoSubscription => subscription.id <= last /\ Old(subscription.key)
    BY DEF Keyed
  <2> HIDE DEF Old, New
  <2> QED BY <1>0, <1>1, <1>3, <2>1
<1>4. \A m, b : Send(m, b).message = m /\ Sample.message.kind = "none" /\ Stop.message.kind = "none"
  BY DEF Send, Sample, Stop, Put, NoMessage, Reply, Message
<1> HIDE DEF Old, New
<1>5. CASE ~Serving'
  <2>1. UNCHANGED <<todo, subscription>>
    BY <1>5, HandlerFrame DEF Fails, Serving
  <2>2. \A i \in DOMAIN todo : todo[i].message.kind = "observed" => New(todo[i].message.view.key)
    BY <1>0, <1>1, <1>2 DEF Keyed, Old
  <2> QED BY <1>3, <2>1, <2>2 DEF New
<1>6. CASE PlainHandler
  BY <1>3, <1>6 DEF PlainHandler, Plainly, Endings, New
<1>7. CASE QuietHandler
  <2>1. PICK m, b : Tells(m) /\ todo' \in {<<Send(m, b)>>, <<Send(m, b), Sample>>}
    BY <1>7 DEF QuietHandler
  <2> DEFINE s == Send(m, b)
             n == Sample
  <2>2. s.message = m /\ n.message.kind = "none" /\ (m.kind = "observed" => New(m.view.key))
    BY <1>0, <1>4, <2>1 DEF Tells
  <2> HIDE DEF s, n
  <2>3. todo' = <<s>> \/ todo' = <<s, n>>
    BY <2>1 DEF s, n
  <2>4. \A i \in DOMAIN todo' : todo'[i].message.kind = "observed" => New(todo'[i].message.view.key)
    BY <2>2, <2>3
  <2> QED BY <1>3, <1>7, <2>4 DEF QuietHandler, New
<1>8. CASE ClosingHandler
  <2>1. CASE todo' = <<Stop>>
    BY <1>4, <1>8, <2>1 DEF ClosingHandler, New
  <2>2. CASE \E m, b : /\ m.kind = "observed" => m.view.key = Key' /\ session' # 0
                       /\ todo' \in {<<Stop, Send(m, b)>>, <<Stop, Send(m, b), Sample>>}
    <3>1. PICK m, b : /\ m.kind = "observed" => m.view.key = Key' /\ session' # 0
                      /\ todo' \in {<<Stop, Send(m, b)>>, <<Stop, Send(m, b), Sample>>}
      BY <2>2
    <3> DEFINE s == Send(m, b)
               n == Sample
               p == Stop
    <3>2. /\ s.message = m /\ n.message.kind = "none" /\ (m.kind = "observed" => New(m.view.key))
          /\ p.message.kind = "none"
      BY <1>0, <1>4, <3>1
    <3> HIDE DEF s, n, p
    <3>3. todo' = <<p, s>> \/ todo' = <<p, s, n>>
      BY <3>1 DEF s, n, p
    <3>4. \A i \in DOMAIN todo' : todo'[i].message.kind = "observed" => New(todo'[i].message.view.key)
      BY <3>2, <3>3
    <3> QED BY <1>8, <3>4 DEF ClosingHandler, New
  <2> QED BY <1>8, <2>1, <2>2 DEF ClosingHandler
<1>9. CASE OpeningHandler
  <2>1. PICK m \in SampleMessages :
          /\ m.kind = "capture"
          /\ todo' = <<Stop, Send(Reply(last', "subscribed"), FALSE), Put(m)>>
    BY <1>9 DEF OpeningHandler
  <2> DEFINE s == Send(Reply(last', "subscribed"), FALSE)
             n == Put(m)
             p == Stop
  <2>2. p.message.kind = "none" /\ s.message.kind = "subscribed" /\ n.message.kind = "capture"
    <3>1. s.message = Reply(last', "subscribed") /\ n.message = m
      BY <1>4 DEF Put
    <3>2. Reply(last', "subscribed").kind = "subscribed"
      BY DEF Reply, Message
    <3> QED BY <1>4, <2>1, <3>1, <3>2
  <2>3. todo' = <<p, s, n>>
    BY <2>1
  <2> HIDE DEF s, n, p
  <2>4. \A i \in DOMAIN todo' : todo'[i].message.kind # "observed"
    BY <2>2, <2>3
  <2>5. subscription'.id = last' /\ subscription'.key = Key' /\ session' # 0
    BY <1>9 DEF OpeningHandler, Key
  <2> QED BY <1>0, <1>1, <2>4, <2>5 DEF New
<1> QED BY <1>5, <1>6, <1>7, <1>8, <1>9, HandlerStream DEF Keyed

(* A capture puts the next sample of the subscription, or its end.         *)
Captures(m) ==
    /\ m.kind = "capture" /\ m.id = subscription.id /\ m.view.key = subscription.key
    /\ subscription.key = Key /\ m.view.sequence = sequence'
    /\ sequence' = sequence + 1 /\ UNCHANGED <<session, generation>>
    /\ subscription' # NoSubscription
    /\ subscription'.id = subscription.id /\ subscription'.key = subscription.key
Concludes(m) ==
    /\ m = EndOf(subscription)
    /\ subscription' = NoSubscription /\ UNCHANGED ownerVars

LEMMA CaptureEffect ==
  ASSUME TypeOK, subscription # NoSubscription, NEW rest, Capture(rest)
  PROVE  \E m \in SampleMessages : todo' = <<Put(m)>> \o rest /\ (Captures(m) \/ Concludes(m))
<1>1. /\ subscription.id \in Positive /\ subscription.key \in Keys
      /\ subscription.memory \in BOOLEAN
      /\ subscription \in [id : Positive, key : Keys, memory : BOOLEAN, running : BOOLEAN]
  BY DEF TypeOK, LoopTypes, Subscriptions
<1>2. ASSUME subscription.key = Key, Observed("observe", subscription.memory),
             subscription' = [subscription EXCEPT !.running = status = "running"],
             todo' = <<Put(Message(subscription.id, "capture", View(subscription.memory)'))>> \o rest
      PROVE  \E m \in SampleMessages : todo' = <<Put(m)>> \o rest /\ Captures(m)
  <2> DEFINE v == View(subscription.memory)'
             m == Message(subscription.id, "capture", v)
  <2>1. OwnerTypes'
    BY <1>2, ObservedTyped DEF TypeOK
  <2>2. /\ subscription'.memory = subscription.memory /\ subscription'.id = subscription.id
        /\ subscription'.key = subscription.key /\ subscription' # NoSubscription
    <3>1. subscription' = [subscription EXCEPT !.running = status = "running"]
      BY <1>2
    <3> QED BY <1>1, <3>1 DEF NoSubscription, Positive
  <2>3. v \in Views /\ v.key = Key' /\ v.sequence = sequence'
    <3>1. \A memory \in BOOLEAN :
             [key |-> Key', sequence |-> sequence', status |-> status', config |-> config',
              memory |-> memory] \in Views
      BY <2>1, ViewTypedNext DEF View
    <3> QED BY <1>1, <2>2, <3>1 DEF View
  <2>4. UNCHANGED <<session, generation>> /\ sequence' = sequence + 1 /\ Key' = Key
    BY <1>2 DEF Observed, Apply, Key
  <2> HIDE DEF v
  <2>5. m \in SampleMessages /\ m.kind = "capture" /\ m.id = subscription.id /\ m.view = v
    BY <1>1, <2>3, MessageTyped DEF MessageKinds
  <2>6. todo' = <<Put(m)>> \o rest
    BY <1>2 DEF v
  <2> HIDE DEF m
  <2>7. Captures(m)
    BY <1>2, <2>2, <2>3, <2>4, <2>5 DEF Captures
  <2> QED BY <2>5, <2>6, <2>7
<1>3. ASSUME subscription' = NoSubscription, UNCHANGED ownerVars,
             todo' = <<Put(Reply(subscription.id, "ended"))>> \o rest
      PROVE  \E m \in SampleMessages : todo' = <<Put(m)>> \o rest /\ Concludes(m)
  <2>1. EndOf(subscription) \in SampleMessages
    BY <1>1, NoMessageTyped, MessageTyped DEF MessageKinds, EventKinds, Reply, EndOf
  <2>2. Reply(subscription.id, "ended") = EndOf(subscription)
    BY DEF EndOf
  <2> QED BY <1>3, <2>1, <2>2 DEF Concludes
<1> QED BY <1>2, <1>3 DEF Capture

(* The calls after one is put before them.                                 *)
LEMMA PutBefore ==
  ASSUME NEW m \in SampleMessages, NEW rest \in Seq(Calls)
  PROVE  \A i \in DOMAIN (<<Put(m)>> \o rest) :
            \/ i = 1 /\ (<<Put(m)>> \o rest)[i].message = m
            \/ i - 1 \in DOMAIN rest /\ (<<Put(m)>> \o rest)[i] = rest[i - 1]
<1> DEFINE s == <<Put(m)>>
<1>1. s \in Seq(Calls) /\ Len(s) = 1 /\ s[1].message = m
  <2>1. Put(m) \in Calls /\ Put(m).message = m
    BY DEF Put, Calls, CallRecords, SampleMessages
  <2> QED BY <2>1
<1> HIDE DEF s
<1>2. /\ s \o rest \in Seq(Calls) /\ Len(s \o rest) = Len(s) + Len(rest) /\ Len(rest) \in Nat
      /\ \A i \in 1 .. Len(s) + Len(rest) :
            (s \o rest)[i] = IF i <= Len(s) THEN s[i] ELSE rest[i - Len(s)]
  BY <1>1, ConcatProperties, LenProperties
<1>3. DOMAIN (s \o rest) = 1 .. 1 + Len(rest) /\ DOMAIN rest = 1 .. Len(rest)
  BY <1>1, <1>2, LenProperties
<1>4. ASSUME NEW i \in DOMAIN (s \o rest)
      PROVE  \/ i = 1 /\ (s \o rest)[i].message = m
             \/ i - 1 \in DOMAIN rest /\ (s \o rest)[i] = rest[i - 1]
  <2>1. CASE i = 1
    BY <1>1, <1>2, <1>3, <2>1
  <2>2. CASE i # 1
    BY <1>1, <1>2, <1>3, <2>2
  <2> QED BY <2>1, <2>2
<1> QED BY <1>4 DEF s

(* The tail of the calls.                                                  *)
LEMMA TailCalls ==
  ASSUME TypeOK, todo # <<>>
  PROVE  /\ Tail(todo) \in Seq(Calls) /\ 1 \in DOMAIN todo /\ Head(todo) = todo[1]
         /\ Len(todo) \in Nat \ {0} /\ Len(Tail(todo)) = Len(todo) - 1
         /\ DOMAIN todo = 1 .. Len(todo) /\ DOMAIN Tail(todo) = 1 .. Len(todo) - 1
         /\ \A i \in DOMAIN Tail(todo) : i + 1 \in DOMAIN todo /\ Tail(todo)[i] = todo[i + 1]
<1>1. todo \in Seq(Calls)
  BY DEF TypeOK, LoopTypes
<1> DEFINE r == Tail(todo)
<1>2. /\ r \in Seq(Calls) /\ 1 \in DOMAIN todo /\ Head(todo) = todo[1]
      /\ Len(todo) \in Nat \ {0} /\ Len(r) = Len(todo) - 1
      /\ \A i \in 1 .. Len(r) : r[i] = todo[i + 1]
  BY <1>1, HeadTailProperties, HeadBeforeTail, LenProperties, EmptySeq
<1>3. DOMAIN todo = 1 .. Len(todo) /\ DOMAIN r = 1 .. Len(r)
  BY <1>1, <1>2, LenProperties
<1> HIDE DEF r
<1>4. /\ DOMAIN r = 1 .. Len(todo) - 1
      /\ \A i \in DOMAIN r : i + 1 \in DOMAIN todo /\ r[i] = todo[i + 1]
  BY <1>2, <1>3
<1> QED BY <1>2, <1>3, <1>4 DEF r

(* The parts of Keyed, of the lanes they look at. *)
KeyedCalls(calls, current, resets, accepted) ==
    \A i \in DOMAIN calls : calls[i].message.kind = "observed" =>
        PastIn(calls[i].message.view.key, current, resets, accepted)
KeyedBulk(messages, current, resets, accepted) ==
    \A i \in DOMAIN messages : /\ IsBulk(messages[i])
                               /\ messages[i].kind = "observed" =>
                                    PastIn(messages[i].view.key, current, resets, accepted)
KeyedSubscription(s, current, resets, accepted) ==
    s # NoSubscription => s.id <= accepted /\ PastIn(s.key, current, resets, accepted)

LEMMA KeyedParts ==
  /\ Keyed <=> /\ session <= last
               /\ KeyedSubscription(subscription, session, generation, last)
               /\ KeyedBulk(bulk, session, generation, last)
               /\ KeyedCalls(todo, session, generation, last)
               /\ observation.kind = "ended" => observation.view = NoView
  /\ Keyed' <=> /\ session' <= last'
                /\ KeyedSubscription(subscription', session', generation', last')
                /\ KeyedBulk(bulk', session', generation', last')
                /\ KeyedCalls(todo', session', generation', last')
                /\ observation'.kind = "ended" => observation'.view = NoView
BY DEF Keyed, KeyedSubscription, KeyedBulk, KeyedCalls, Past

(* What was of the past stays so. *)
LEMMA KeyedStays ==
  ASSUME TypeOK, Keyed, [Next]_vars
  PROVE  /\ KeyedSubscription(subscription, session', generation', last')
         /\ KeyedBulk(bulk, session', generation', last')
         /\ KeyedCalls(todo, session', generation', last')
<1>1. /\ \A key \in Keys : PastIn(key, session, generation, last)
                             => PastIn(key, session', generation', last')
      /\ \A m \in Messages : PastIn(m.view.key, session, generation, last)
                               => PastIn(m.view.key, session', generation', last')
  BY PastMessages DEF Past
<1>2. /\ subscription # NoSubscription => subscription.key \in Keys /\ subscription.id \in Nat
      /\ last <= last' /\ last \in Nat /\ last' \in Nat
  <2>1. last <= last' /\ TypeOK'
    BY OwnerSteps, TypesStep
  <2> QED BY <2>1 DEF TypeOK, LoopTypes, Subscriptions, Positive
<1>3. /\ \A i \in DOMAIN todo : todo[i].message \in Messages
      /\ \A i \in DOMAIN bulk : bulk[i] \in Messages
  <2>1. todo \in Seq(Calls) /\ bulk \in Seq(ReplyMessages)
    BY DEF TypeOK, LoopTypes, LaneTypes
  <2>2. \A i \in DOMAIN todo : todo[i] \in Calls
    BY <2>1, ElementOfSeq, LenProperties
  <2>3. \A i \in DOMAIN bulk : bulk[i] \in ReplyMessages
    BY <2>1, ElementOfSeq, LenProperties
  <2> QED BY <2>2, <2>3 DEF Calls, CallRecords, ReplyMessages
<1>4. KeyedSubscription(subscription, session', generation', last')
  BY <1>1, <1>2, KeyedParts DEF KeyedSubscription
<1>5. KeyedBulk(bulk, session', generation', last')
  BY <1>1, <1>3, KeyedParts DEF KeyedBulk
<1>6. KeyedCalls(todo, session', generation', last')
  BY <1>1, <1>3, KeyedParts DEF KeyedCalls
<1> QED BY <1>4, <1>5, <1>6

LEMMA KeyedQueue ==
  ASSUME NEW S, NEW q \in Seq(S), NEW s, NEW g, NEW l
  PROVE  /\ KeyedBulk(<<>>, s, g, l) /\ KeyedCalls(<<>>, s, g, l)
         /\ KeyedBulk(q, s, g, l) /\ q # <<>> => KeyedBulk(Tail(q), s, g, l)
         /\ KeyedCalls(q, s, g, l) /\ q # <<>> => KeyedCalls(Tail(q), s, g, l)
         /\ \A m \in S : /\ KeyedBulk(q, s, g, l) /\ IsBulk(m)
                         /\ m.kind = "observed" => PastIn(m.view.key, s, g, l)
                         => KeyedBulk(Append(q, m), s, g, l)
<1>1. KeyedBulk(<<>>, s, g, l) /\ KeyedCalls(<<>>, s, g, l)
  BY DEF KeyedBulk, KeyedCalls
<1>2. ASSUME q # <<>>
      PROVE  /\ KeyedBulk(q, s, g, l) => KeyedBulk(Tail(q), s, g, l)
             /\ KeyedCalls(q, s, g, l) => KeyedCalls(Tail(q), s, g, l)
  <2> DEFINE r == Tail(q)
  <2>1. /\ Len(q) \in Nat \ {0} /\ DOMAIN q = 1 .. Len(q) /\ DOMAIN r = 1 .. Len(q) - 1
        /\ \A i \in 1 .. Len(q) - 1 : r[i] = q[i + 1]
    BY <1>2, HeadTailProperties, LenProperties
  <2> HIDE DEF r
  <2>2. \A i \in DOMAIN r : i + 1 \in DOMAIN q /\ r[i] = q[i + 1]
    BY <2>1
  <2>3. KeyedBulk(q, s, g, l) => KeyedBulk(r, s, g, l)
    BY <2>2 DEF KeyedBulk
  <2>4. KeyedCalls(q, s, g, l) => KeyedCalls(r, s, g, l)
    BY <2>2 DEF KeyedCalls
  <2> QED BY <2>3, <2>4 DEF r
<1>3. ASSUME NEW m \in S, KeyedBulk(q, s, g, l), IsBulk(m),
             m.kind = "observed" => PastIn(m.view.key, s, g, l)
      PROVE  KeyedBulk(Append(q, m), s, g, l)
  <2> DEFINE r == Append(q, m)
  <2>1. /\ Len(q) \in Nat /\ DOMAIN q = 1 .. Len(q) /\ DOMAIN r = 1 .. Len(q) + 1
        /\ r[Len(q) + 1] = m /\ \A i \in 1 .. Len(q) : r[i] = q[i]
    BY AppendProperties, LenProperties
  <2> HIDE DEF r
  <2>2. \A i \in DOMAIN r : r[i] = m \/ (i \in DOMAIN q /\ r[i] = q[i])
    BY <2>1
  <2>3. KeyedBulk(r, s, g, l)
    BY <1>3, <2>2 DEF KeyedBulk
  <2> QED BY <2>3 DEF r
<1> QED BY <1>1, <1>2, <1>3

(* The steps that change neither calls nor subscription. *)
LEMMA OthersFrame ==
  ASSUME [Next]_vars, ~Handler, ~Caller
  PROVE  UNCHANGED <<subscription, todo>>
<1>1. ASSUME Scheduler PROVE UNCHANGED <<subscription, todo>>
  BY <1>1, SchedulerFrame
<1>2. ASSUME OutputLost PROVE UNCHANGED <<subscription, todo>>
  BY <1>2, OutputLostFrame DEF Fails
<1>3. ASSUME ReadRequest \/ ReadEnd \/ Assembly \/ GuestAdvance \/ Writer
      PROVE  UNCHANGED <<subscription, todo>>
  BY <1>3, ReaderFrame, AssemblyFrame, WriterFrame DEF GuestAdvance
<1>4. ASSUME UNCHANGED vars PROVE UNCHANGED <<subscription, todo>>
  BY <1>4 DEF vars
<1> QED BY <1>1, <1>2, <1>3, <1>4, Steps

LEMMA KeyedStep ==
  ASSUME TypeOK, Keyed, Serving /\ ~failed => Dispatching, [Next]_vars
  PROVE  Keyed'
<1> DEFINE Subscribed1 == KeyedSubscription(subscription', session', generation', last')
           Bulk1 == KeyedBulk(bulk', session', generation', last')
           Todo1 == KeyedCalls(todo', session', generation', last')
           Slot1 == observation'.kind = "ended" => observation'.view = NoView
<1>0. session' <= last'
  BY PastMessages
<1>1. /\ KeyedSubscription(subscription, session', generation', last')
      /\ KeyedBulk(bulk, session', generation', last')
      /\ KeyedCalls(todo, session', generation', last')
      /\ observation.kind = "ended" => observation.view = NoView
  BY KeyedStays, KeyedParts
<1>2. control \in Seq(ReplyMessages) /\ bulk \in Seq(ReplyMessages) /\ todo \in Seq(Calls)
  BY LanesAre DEF TypeOK, LoopTypes
<1>3. Subscribed1 /\ Todo1
  <2>1. CASE Handler
    BY <2>1, KeyedHandler DEF KeyedSubscription, KeyedCalls
  <2>2. CASE SendReply \/ PutSample
    <3>1. todo # <<>> /\ todo' = Tail(todo) /\ UNCHANGED subscription
      BY <2>2, SendEffect, PutEffect
    <3> QED BY <1>1, <1>2, <3>1, KeyedQueue
  <2>3. ASSUME NEW rest \in Seq(Calls), Capture(rest), subscription # NoSubscription,
               KeyedCalls(rest, session', generation', last')
        PROVE  Subscribed1 /\ Todo1
    <3>1. PICK m \in SampleMessages : /\ todo' = <<Put(m)>> \o rest
                                      /\ Captures(m) \/ Concludes(m)
      BY <2>3, CaptureEffect
    <3>2. m.kind # "observed"
      BY DEF SampleMessages
    <3>3. Todo1
      <4>1. ASSUME NEW i \in DOMAIN todo', todo'[i].message.kind = "observed"
            PROVE  i - 1 \in DOMAIN rest /\ todo'[i] = rest[i - 1]
        BY <2>3, <3>1, <3>2, <4>1, PutBefore
      <4> QED BY <2>3, <4>1 DEF KeyedCalls
    <3>4. Subscribed1
      <4>1. CASE Captures(m)
        <5>1. subscription'.id = subscription.id /\ subscription'.key = subscription.key
          BY <4>1 DEF Captures
        <5> QED BY <1>1, <2>3, <5>1 DEF KeyedSubscription
      <4>2. CASE Concludes(m)
        BY <4>2 DEF Concludes, KeyedSubscription
      <4> QED BY <3>1, <4>1, <4>2
    <3> QED BY <3>3, <3>4
  <2>4. CASE RefreshSample
    <3>1. todo # <<>>
      BY <2>4 DEF RefreshSample, Calling
    <3>2. Tail(todo) \in Seq(Calls) /\ KeyedCalls(Tail(todo), session', generation', last')
      BY <1>1, <1>2, <3>1, KeyedQueue, TailCalls
    <3> QED BY <1>1, <2>3, <2>4, <3>2 DEF RefreshSample
  <2>5. CASE SampleDue
    <3>1. subscription # NoSubscription
      BY <2>5 DEF SampleDue, NoSubscription
    <3> QED BY <1>2, <2>3, <2>5, <3>1, KeyedQueue, EmptyTyped DEF SampleDue
  <2>6. CASE ~Handler /\ ~Caller
    BY <1>1, <2>6, OthersFrame
  <2> QED BY <2>1, <2>2, <2>4, <2>5, <2>6 DEF Caller
<1>4. Bulk1 /\ Slot1
  <2>1. CASE ~Moves
    BY <1>1, <2>1, MovesFrame
  <2>2. CASE SendReply
    <3> DEFINE m == Head(todo).message
    <3>1. /\ m \in ReplyMessages /\ SentAs(m) /\ UNCHANGED observation
          /\ 1 \in DOMAIN todo /\ m = todo[1].message
      BY <2>2, SendEffect
    <3>2. m.kind = "observed" => PastIn(m.view.key, session', generation', last')
      BY <1>1, <3>1 DEF KeyedCalls
    <3> HIDE DEF m
    <3>3. Bulk1
      BY <1>1, <1>2, <3>1, <3>2, KeyedQueue DEF SentAs
    <3> QED BY <1>1, <3>1, <3>3
  <2>3. CASE PutSample
    <3>1. /\ UNCHANGED bulk /\ observation' = todo[1].message /\ 1 \in DOMAIN todo
          /\ todo[1].call = "observe" /\ Dispatching
      BY <2>3, PutEffect
    <3>2. Slot1
      <4>1. CASE todo[1].message = NoMessage
        BY <3>1, <4>1, SampleIs
      <4>2. CASE todo[1].message # NoMessage
        BY <3>1, <4>2 DEF Dispatching, PutsLast, Puts, EndedPut, CapturedPut, CapturedIn
      <4> QED BY <4>1, <4>2
    <3> QED BY <1>1, <3>1, <3>2
  <2>4. CASE Writer
    <3>1. observation' \in {observation, NoMessage}
      BY <2>4 DEF Writer, WriterReceive, ReceiveControl, ReceiveBulk, ReceiveSample, ReceiveFinal,
         WriterAnnounce, WriterWrite, WriterFinish, WriterFails, LoseOutbox, WriterReports, lanes
    <3>2. bulk' = bulk \/ bulk' = <<>> \/ (bulk # <<>> /\ bulk' = Tail(bulk))
      BY <2>4 DEF Writer, WriterReceive, ReceiveControl, ReceiveBulk, ReceiveSample, ReceiveFinal,
         WriterAnnounce, WriterWrite, WriterFinish, WriterFails, LoseOutbox, WriterReports, lanes
    <3>3. Slot1
      BY <1>1, <3>1, SampleIs
    <3>4. Bulk1
      BY <1>1, <1>2, <3>2, KeyedQueue
    <3> QED BY <3>3, <3>4
  <2> QED BY <2>1, <2>2, <2>3, <2>4 DEF Moves
<1> QED BY <1>0, <1>3, <1>4, KeyedParts

-----------------------------------------------------------------------------
(* What the dispatcher is about to do is safe for the stream.              *)

(* Nothing starts serving again, and a lost writer stays lost. *)
LEMMA StillServing ==
  ASSUME TypeOK, Ending, [Next]_vars, Serving', ~failed'
  PROVE  Serving /\ ~failed
<1>1. CASE Writer
  <2>1. failed' = failed \/ failed' = TRUE
    BY <1>1 DEF Writer, WriterReceive, ReceiveControl, ReceiveBulk, ReceiveSample, ReceiveFinal,
         WriterAnnounce, WriterWrite, WriterFinish, WriterFails, LoseOutbox, WriterReports, lanes
  <2>2. UNCHANGED outcome
    BY <1>1, WriterFrame DEF loopVars
  <2> QED BY <2>1, <2>2 DEF Serving
<1>2. CASE UNCHANGED vars
  BY <1>2 DEF vars, lanes, loopVars, Serving
<1>3. CASE GuestAdvance
  BY <1>3 DEF GuestAdvance, lanes
<1>4. CASE Handler \/ Caller \/ Scheduler \/ OutputLost \/ ReadRequest \/ ReadEnd \/ Assembly
  <2>1. Serving
    BY <1>4, HandlerFrame, CallerFrame, SchedulerFrame, OutputLostFrame, ReaderFrame, AssemblyFrame
  <2>2. UNCHANGED failed
    BY <1>4, HandlerFrame, CallerFrame, SchedulerFrame, OutputLostFrame, ReaderFrame, AssemblyFrame
       DEF Untouched, lanes
  <2> QED BY <2>1, <2>2
<1> QED BY <1>1, <1>2, <1>3, <1>4, Steps

LEMMA DispatchingFrame ==
  ASSUME Dispatching,
         UNCHANGED <<todo, subscription, observation, control, bulk, writing, wire,
                     session, generation, sequence, last>>
  PROVE  Dispatching'
<1>1. PutsLast'
  BY DEF Dispatching, PutsLast, Puts, EndedPut, CapturedPut, CapturedIn, Announced, Key
<1>2. SlotSafe'
  BY DEF Dispatching, SlotSafe, Sent, Clears
<1>3. ForceSafe'
  BY DEF Dispatching, ForceSafe, Announcing, Sent, Announced
<1> QED BY <1>1, <1>2, <1>3 DEF Dispatching

(* At the top of the loop nothing is left to call. *)
Resting ==
    /\ observation.kind = "capture" =>
          subscription # NoSubscription /\ observation.id = subscription.id
          /\ observation.view.key = subscription.key
    /\ subscription # NoSubscription =>
          Announced(LiveOf(subscription)) /\ Announced(EndOf(subscription))

LEMMA AtRest ==
  ASSUME Dispatching, todo = <<>>
  PROVE  Resting
BY DEF Dispatching, SlotSafe, ForceSafe, Announcing, Resting

LEMMA PlainDispatching ==
  ASSUME Resting, PlainHandler, UNCHANGED <<observation, control, bulk, writing, wire>>
  PROVE  Dispatching'
<1>1. \A i \in DOMAIN todo' : todo'[i].call = "send" /\ todo'[i].message.kind \notin Endings
  BY DEF PlainHandler, Plainly
<1>2. \A i \in DOMAIN todo' : \A event : ~Invalidates(todo'[i].message, event)
  BY <1>1, PlainHarmless
<1>3. PutsLast'
  BY <1>1 DEF PutsLast, Puts
<1>4. SlotSafe'
  BY <1>1, <1>2 DEF PlainHandler, SlotSafe, Sent, Resting
<1>5. ForceSafe'
  BY <1>1, <1>2 DEF PlainHandler, ForceSafe, Announcing, Sent, Resting, Announced
<1> QED BY <1>3, <1>4, <1>5 DEF Dispatching

LEMMA ClosingDispatching ==
  ASSUME ClosingHandler
  PROVE  Dispatching'
<1>1. \A m, b : Stop.call = "observe" /\ Stop.message = NoMessage /\ Send(m, b).call = "send" /\ Sample.call = "sample"
  BY DEF Stop, Put, Send, Sample
<1>2. PICK m, b : todo' \in {<<Stop>>, <<Stop, Send(m, b)>>, <<Stop, Send(m, b), Sample>>}
  BY DEF ClosingHandler
<1> DEFINE s == Send(m, b)
           n == Sample
           p == Stop
<1>3. todo' = <<p>> \/ todo' = <<p, s>> \/ todo' = <<p, s, n>>
  BY <1>2
<1>4. p.call = "observe" /\ p.message = NoMessage /\ s.call = "send" /\ n.call = "sample"
  BY <1>1
<1> HIDE DEF s, n, p
<1>5. /\ 1 \in DOMAIN todo' /\ todo'[1].call = "observe" /\ todo'[1].message = NoMessage
      /\ \A i \in DOMAIN todo' : \/ i = 1
                                 \/ todo'[i].call = "send" /\ 1 < i
                                 \/ todo'[i].call = "sample" /\ i = Len(todo')
  <2>1. CASE todo' = <<p>>
    <3>1. DOMAIN todo' = {1} /\ todo'[1] = p
      BY <2>1, Short
    <3> QED BY <1>4, <3>1
  <2>2. CASE todo' = <<p, s>>
    <3>1. DOMAIN todo' = {1, 2} /\ todo'[1] = p /\ todo'[2] = s
      BY <2>2, Short
    <3> QED BY <1>4, <3>1
  <2>3. CASE todo' = <<p, s, n>>
    <3>1. Len(todo') = 3 /\ DOMAIN todo' = {1, 2, 3} /\ todo'[1] = p /\ todo'[2] = s /\ todo'[3] = n
      BY <2>3, Short
    <3> QED BY <1>4, <3>1
  <2> QED BY <1>3, <2>1, <2>2, <2>3
<1>6. subscription' = NoSubscription
  BY DEF ClosingHandler
<1>7. PutsLast'
  BY <1>5 DEF PutsLast, Puts
<1>8. SlotSafe'
  BY <1>5 DEF SlotSafe, Sent, Clears
<1>9. ForceSafe'
  BY <1>6 DEF ForceSafe
<1> QED BY <1>7, <1>8, <1>9 DEF Dispatching

LEMMA QuietDispatching ==
  ASSUME TypeOK, TypeOK', Resting, Keyed, QuietHandler, UNCHANGED <<observation, control, bulk, writing, wire>>
  PROVE  Dispatching'
<1>1. PICK m, b : Tells(m) /\ ~Ends(m) /\ todo' \in {<<Send(m, b)>>, <<Send(m, b), Sample>>}
  BY DEF QuietHandler
<1>2. Send(m, b).call = "send" /\ Send(m, b).message = m /\ Sample.call = "sample"
  BY DEF Send, Sample
<1> DEFINE s == Send(m, b)
           n == Sample
<1>3. (todo' = <<s>> \/ todo' = <<s, n>>) /\ s.call = "send" /\ s.message = m /\ n.call = "sample"
  BY <1>1, <1>2
<1> HIDE DEF s, n
<1>4. \A i \in DOMAIN todo' : \/ todo'[i].call = "send" /\ todo'[i].message = m
                              \/ todo'[i].call = "sample" /\ i = Len(todo')
  <2>1. CASE todo' = <<s>>
    <3>1. DOMAIN todo' = {1} /\ todo'[1] = s
      BY <2>1, Short
    <3> QED BY <1>3, <3>1
  <2>2. CASE todo' = <<s, n>>
    <3>1. Len(todo') = 2 /\ DOMAIN todo' = {1, 2} /\ todo'[1] = s /\ todo'[2] = n
      BY <2>2, Short
    <3> QED BY <1>3, <3>1
  <2> QED BY <1>3, <2>1, <2>2
<1>5. ~Newer(Key', Key')
  <2>1. session' \in Nat /\ generation' \in Nat
    BY DEF TypeOK, OwnerTypes
  <2> QED BY <2>1 DEF Newer, Key
<1>6. ASSUME NEW event, subscription # NoSubscription, event.kind \in {"capture", "ended"},
             event.kind = "capture" => event.view.key = subscription.key,
             event.kind = "ended" => event.view = NoView
      PROVE  ~Invalidates(m, event)
  <2>1. CASE m.kind = "observed"
    <3>1. m.view.key = Key' /\ subscription.key = Key'
      BY <1>1, <1>6, <2>1 DEF Tells, Ends
    <3> QED BY <1>5, <1>6, <2>1, <3>1 DEF Invalidates
  <2>2. CASE m.kind = "session_closed"
    <3>1. m.view.key = Key /\ session # 0 /\ subscription.key # Key
      BY <1>1, <1>6, <2>2 DEF Tells, Ends
    <3>2. NoView.key # Key
      BY <3>1 DEF NoView, NoKey, Key
    <3> QED BY <1>6, <2>2, <3>1, <3>2 DEF Invalidates
  <2> QED BY <1>1, <2>1, <2>2 DEF Tells
<1>7. observation # NoMessage => ~Invalidates(m, observation)
  <2>1. CASE observation.kind = "capture"
    BY <1>6, <2>1 DEF Resting
  <2>2. CASE observation.kind = "ended"
    <3>1. observation.view = NoView
      BY <2>2 DEF Keyed
    <3>2. ~(m.kind = "session_closed" /\ m.view.key = NoView.key)
      BY <1>1 DEF Tells, Key, NoView, NoKey
    <3> QED BY <1>1, <2>2, <3>1, <3>2 DEF Tells, Invalidates
  <2> QED BY <2>1, <2>2, LanesAre DEF SampleMessages
<1>8. subscription # NoSubscription => ~Invalidates(m, LiveOf(subscription)) /\ ~Invalidates(m, EndOf(subscription))
  <2>1. /\ LiveOf(subscription).kind = "capture" /\ LiveOf(subscription).view.key = subscription.key
        /\ EndOf(subscription).kind = "ended" /\ EndOf(subscription).view = NoView
    BY DEF LiveOf, EndOf, Message, Reply, NoView
  <2> QED BY <1>6, <2>1
<1>9. PutsLast'
  BY <1>4 DEF PutsLast, Puts
<1>10. SlotSafe'
  BY <1>4, <1>7 DEF QuietHandler, SlotSafe, Sent, Resting
<1>11. ForceSafe'
  BY <1>4, <1>8 DEF QuietHandler, ForceSafe, Announcing, Sent, Resting, Announced
<1> QED BY <1>9, <1>10, <1>11 DEF Dispatching

LEMMA OpeningDispatching ==
  ASSUME TypeOK, Keyed, OpeningHandler, UNCHANGED <<control, bulk, writing, wire>>
  PROVE  Dispatching'
<1>1. PICK m \in SampleMessages :
         /\ m.kind = "capture" /\ m.id = last' /\ m.view.key = Key /\ m.view.sequence = sequence'
         /\ todo' = <<Stop, Send(Reply(last', "subscribed"), FALSE), Put(m)>>
  BY DEF OpeningHandler
<1> DEFINE r == Reply(last', "subscribed")
           p == Stop
           s == Send(r, FALSE)
           c == Put(m)
<1>2. /\ p.call = "observe" /\ p.message = NoMessage /\ s.call = "send" /\ s.message = r
      /\ c.call = "observe" /\ c.message = m
  BY DEF Stop, Put, Send
<1>3. r.kind = "subscribed" /\ r.id = last'
  BY DEF Reply, Message
<1>4. todo' = <<p, s, c>>
  BY <1>1
<1> HIDE DEF p, s, c, r
<1>5. Len(todo') = 3 /\ DOMAIN todo' = {1, 2, 3} /\ todo'[1] = p /\ todo'[2] = s /\ todo'[3] = c
  BY <1>4, Short
<1>6. /\ subscription' # NoSubscription /\ subscription'.id = last' /\ subscription'.key = Key
      /\ Key' = Key /\ session # 0
  BY DEF OpeningHandler, Key
<1>7. ASSUME NEW event, event.id = last', event.view.key = Key \/ event.kind = "ended"
      PROVE  /\ ~Invalidates(r, event) /\ Opens(r, event)
             /\ Harmless(bulk, event)
  <2>1. ~Invalidates(r, event) /\ Opens(r, event)
    BY <1>3, <1>7 DEF Invalidates, Opens
  <2>2. ASSUME NEW i \in DOMAIN bulk PROVE ~Invalidates(bulk[i], event)
    <3>1. IsBulk(bulk[i]) /\ (bulk[i].kind = "observed" => Past(bulk[i].view.key))
      BY DEF Keyed
    <3>2. CASE bulk[i].kind = "observed"
      <4>1. Past(bulk[i].view.key) /\ bulk[i].view.key \in Keys /\ Key \in Keys
        <5>1. bulk[i] \in ReplyMessages
          BY LanesAre, ElementOfSeq, LenProperties
        <5> QED BY <3>1, <3>2, <5>1, ViewTyped DEF ReplyMessages, Messages, Views, TypeOK
      <4>2. ~Newer(bulk[i].view.key, Key)
        BY <1>6, <4>1 DEF Past, PastIn, Newer, Key, Keys
      <4> QED BY <1>7, <3>2, <4>2 DEF Invalidates
    <3>3. CASE bulk[i].kind # "observed"
      BY <3>1, <3>3, PlainHarmless DEF IsBulk, Endings
    <3> QED BY <3>2, <3>3
  <2> QED BY <2>1, <2>2 DEF Harmless
<1>8. PutsLast'
  <2>1. CapturedPut(m)'
    BY <1>1, <1>6 DEF CapturedPut, CapturedIn
  <2>2. \A i \in DOMAIN todo' : Puts(i)' \/ todo'[i].call = "sample" => i = Len(todo') /\ todo'[i].message = m
    BY <1>2, <1>5 DEF Puts
  <2> QED BY <2>1, <2>2 DEF PutsLast, CapturedPut, CapturedIn, EndedPut, Puts
<1>9. SlotSafe'
  <2>1. 1 \in DOMAIN todo' /\ todo'[1].call = "observe" /\ \A i \in DOMAIN todo' : Sent(i)' => 1 < i
    BY <1>2, <1>5 DEF Sent
  <2> QED BY <2>1 DEF SlotSafe, Clears, Sent
<1>10. ForceSafe'
  <2>1. ASSUME NEW event, event.id = last', event.view.key = Key \/ event.kind = "ended"
        PROVE  Announcing(event)'
    <3>1. \A i \in DOMAIN todo' : todo'[i].call = "send" => todo'[i].message = r
      BY <1>2, <1>5
    <3>2. 2 \in DOMAIN todo' /\ todo'[2].call = "send" /\ todo'[2].message = r
      BY <1>2, <1>5
    <3>3. Harmless(bulk, event) /\ ~Invalidates(r, event) /\ Opens(r, event)
      BY <1>7, <2>1
    <3> QED BY <3>1, <3>2, <3>3 DEF Announcing, Sent
  <2>2. /\ LiveOf(subscription').id = last' /\ LiveOf(subscription').view.key = Key
        /\ EndOf(subscription').id = last' /\ EndOf(subscription').kind = "ended"
    BY <1>6 DEF LiveOf, EndOf, Message, Reply, NoView
  <2> QED BY <2>1, <2>2 DEF ForceSafe
<1> QED BY <1>8, <1>9, <1>10 DEF Dispatching

LEMMA HandlerDispatching ==
  ASSUME TypeOK, TypeOK', Planned, Keyed, Dispatching, Handler, Serving'
  PROVE  Dispatching'
<1>1. UNCHANGED <<control, bulk, observation, writing, wire>>
  BY HandlerFrame DEF Untouched, writerVars
<1>2. todo = <<>>
  BY HandlerFrame DEF Planned, Receive
<1> QED BY <1>1, <1>2, AtRest, HandlerStream, PlainDispatching, QuietDispatching, ClosingDispatching,
           OpeningDispatching DEF Keyed

LEMMA SendDispatching ==
  ASSUME TypeOK, Dispatching, SendReply
  PROVE  Dispatching'
<1> DEFINE m == Head(todo).message
<1>1. /\ todo # <<>> /\ todo[1].call = "send" /\ 1 \in DOMAIN todo /\ m = todo[1].message
      /\ todo' = Tail(todo) /\ UNCHANGED <<observation, subscription, session, generation, sequence>>
  BY SendEffect DEF ownerVars
<1>2. /\ Len(todo) \in Nat \ {0} /\ Len(todo') = Len(todo) - 1 /\ DOMAIN todo' = 1 .. Len(todo) - 1
      /\ DOMAIN todo = 1 .. Len(todo)
      /\ \A i \in DOMAIN todo' : i + 1 \in DOMAIN todo /\ todo'[i] = todo[i + 1]
  BY <1>1, TailCalls
<1> HIDE DEF m
<1>3. \A k \in DOMAIN todo : k # 1 => k - 1 \in DOMAIN todo' /\ todo'[k - 1] = todo[k]
  BY <1>2
<1>4. ASSUME NEW i \in DOMAIN todo', Puts(i + 1) \/ todo[i + 1].call = "sample"
      PROVE  i = Len(todo') /\ (Puts(i + 1) => CapturedPut(todo'[i].message))
  <2>1. i + 1 \in DOMAIN todo /\ i + 1 = Len(todo) /\ Len(todo) # 1 /\ todo'[i] = todo[i + 1]
    BY <1>2, <1>4 DEF Dispatching, PutsLast
  <2> QED BY <1>2, <2>1 DEF Dispatching, PutsLast, EndedPut
<1>5. PutsLast'
  <2>1. Key' = Key /\ subscription' = subscription /\ sequence' = sequence
    BY <1>1 DEF Key
  <2>2. ASSUME NEW i \in DOMAIN todo',
                (todo'[i].call = "observe" /\ todo'[i].message # NoMessage)
                  \/ todo'[i].call = "sample"
        PROVE  i = Len(todo') /\ (todo'[i].call = "observe" /\ todo'[i].message # NoMessage => CapturedPut(todo'[i].message))
    BY <1>2, <1>4, <2>2 DEF Puts
  <2> QED BY <2>1, <2>2 DEF PutsLast, Puts, CapturedPut
<1>6. SlotSafe'
  <2>1. ASSUME NEW i \in DOMAIN todo', todo'[i].call = "send"
        PROVE  \/ \E k \in DOMAIN todo' : k < i /\ todo'[k].call = "observe"
               \/ observation = NoMessage \/ ~Invalidates(todo'[i].message, observation)
    <3>1. i + 1 \in DOMAIN todo /\ todo'[i] = todo[i + 1] /\ todo[i + 1].call = "send"
      BY <1>2, <2>1
    <3>2. CASE Clears(i + 1)
      <4>1. PICK k \in DOMAIN todo : k < i + 1 /\ todo[k].call = "observe"
        BY <3>2 DEF Clears
      <4>2. k # 1 /\ k \in Nat /\ i \in Nat
        BY <1>1, <1>2, <4>1
      <4>3. k - 1 < i /\ k - 1 \in DOMAIN todo' /\ todo'[k - 1].call = "observe"
        BY <1>3, <4>1, <4>2
      <4> QED BY <4>3
    <3> QED BY <3>1, <3>2 DEF Dispatching, SlotSafe, Sent
  <2>2. \A k \in DOMAIN todo : todo[k].call = "observe" => \E j \in DOMAIN todo' : todo'[j].call = "observe"
    BY <1>1, <1>3
  <2>3. observation.kind = "capture" =>
          \/ \E k \in DOMAIN todo' : todo'[k].call = "observe"
          \/ subscription # NoSubscription /\ observation.id = subscription.id
             /\ observation.view.key = subscription.key
    BY <2>2 DEF Dispatching, SlotSafe
  <2>4. observation' = observation /\ subscription' = subscription
    BY <1>1
  <2> QED BY <2>1, <2>3, <2>4 DEF SlotSafe, Sent, Clears
<1>7. ASSUME NEW event, Announcing(event) PROVE Announcing(event)'
  <2>1. ~Invalidates(m, event)
    BY <1>1, <1>7 DEF Announcing, Sent
  <2>2. \A i \in DOMAIN todo' : todo'[i].call = "send" => ~Invalidates(todo'[i].message, event)
    BY <1>2, <1>7 DEF Announcing, Sent
  <2>3. /\ Announced(event) => AnnouncedIn(event, wire', writing', control', bulk')
        /\ Opens(m, event) /\ Harmless(bulk, event)
              => AnnouncedIn(event, wire', writing', control', bulk')
        /\ Harmless(bulk, event) => Harmless(bulk', event)
    BY <2>1, SendAnnounced DEF m
  <2>4. CASE Announced(event)
    BY <2>2, <2>3, <2>4 DEF Announcing, Sent, Announced
  <2>5. CASE (\E i \in DOMAIN todo : Sent(i) /\ Opens(todo[i].message, event)) /\ Harmless(bulk, event)
    <3>1. PICK i \in DOMAIN todo : Sent(i) /\ Opens(todo[i].message, event)
      BY <2>5
    <3>2. CASE i = 1
      BY <1>1, <2>2, <2>3, <2>5, <3>1, <3>2 DEF Announcing, Sent, Announced
    <3>3. CASE i # 1
      <4>1. i - 1 \in DOMAIN todo' /\ todo'[i - 1].call = "send" /\ Opens(todo'[i - 1].message, event)
        BY <1>3, <3>1, <3>3 DEF Sent
      <4> QED BY <2>2, <2>3, <2>5, <4>1 DEF Announcing, Sent
    <3> QED BY <3>2, <3>3
  <2> QED BY <1>7, <2>4, <2>5 DEF Announcing
<1>8. ForceSafe'
  <2>1. subscription' = subscription
    BY <1>1
  <2>2. subscription # NoSubscription => Announcing(LiveOf(subscription))' /\ Announcing(EndOf(subscription))'
    BY <1>7, <2>1 DEF Dispatching, ForceSafe
  <2> QED BY <2>1, <2>2 DEF ForceSafe
<1> QED BY <1>5, <1>6, <1>8 DEF Dispatching

LEMMA PutDispatching ==
  ASSUME TypeOK, Dispatching, PutSample
  PROVE  Dispatching'
<1>1. /\ todo # <<>> /\ todo[1].call = "observe" /\ 1 \in DOMAIN todo
      /\ todo' = Tail(todo) /\ observation' = todo[1].message
      /\ UNCHANGED <<control, bulk, writing, wire, subscription, session, generation, sequence>>
  BY PutEffect DEF ownerVars
<1>2. /\ Len(todo) \in Nat \ {0} /\ Len(todo') = Len(todo) - 1 /\ DOMAIN todo' = 1 .. Len(todo) - 1
      /\ DOMAIN todo = 1 .. Len(todo)
      /\ \A i \in DOMAIN todo' : i + 1 \in DOMAIN todo /\ todo'[i] = todo[i + 1]
  BY <1>1, TailCalls
<1>3. \A k \in DOMAIN todo : k # 1 => k - 1 \in DOMAIN todo' /\ todo'[k - 1] = todo[k]
  BY <1>2
<1>4. PutsLast'
  <2>1. Key' = Key /\ subscription' = subscription /\ sequence' = sequence
    BY <1>1 DEF Key
  <2>2. ASSUME NEW i \in DOMAIN todo', Puts(i + 1) \/ todo[i + 1].call = "sample"
        PROVE  i = Len(todo') /\ (Puts(i + 1) => CapturedPut(todo'[i].message))
    <3>1. i + 1 \in DOMAIN todo /\ i + 1 = Len(todo) /\ Len(todo) # 1 /\ todo'[i] = todo[i + 1]
      BY <1>2, <2>2 DEF Dispatching, PutsLast
    <3> QED BY <1>2, <3>1 DEF Dispatching, PutsLast, EndedPut
  <2>3. ASSUME NEW i \in DOMAIN todo',
                (todo'[i].call = "observe" /\ todo'[i].message # NoMessage)
                  \/ todo'[i].call = "sample"
        PROVE  i = Len(todo') /\ (todo'[i].call = "observe" /\ todo'[i].message # NoMessage => CapturedPut(todo'[i].message))
    BY <1>2, <2>2, <2>3 DEF Puts
  <2> QED BY <2>1, <2>3 DEF PutsLast, Puts, CapturedPut
<1>5. SlotSafe'
  <2>1. CASE todo[1].message = NoMessage
    <3>1. observation' = NoMessage /\ NoMessage.kind # "capture"
      BY <1>1, <2>1, SampleIs
    <3> QED BY <3>1 DEF SlotSafe
  <2>2. CASE todo[1].message # NoMessage
    <3>1. Puts(1) /\ Len(todo) = 1
      BY <1>1, <2>2 DEF Puts, Dispatching, PutsLast
    <3>2. DOMAIN todo' = {}
      BY <1>2, <3>1
    <3>3. EndedPut(observation') \/ CapturedPut(observation')
      BY <1>1, <3>1 DEF Dispatching, PutsLast
    <3>4. observation'.kind = "capture" =>
             subscription # NoSubscription /\ observation'.id = subscription.id
             /\ observation'.view.key = subscription.key
      BY <3>3 DEF EndedPut, CapturedPut, CapturedIn
    <3> QED BY <1>1, <3>2, <3>4 DEF SlotSafe
  <2> QED BY <2>1, <2>2
<1>6. ASSUME NEW event, Announcing(event) PROVE Announcing(event)'
  <2>1. \A i \in DOMAIN todo' : todo'[i].call = "send" => ~Invalidates(todo'[i].message, event)
    BY <1>2, <1>6 DEF Announcing, Sent
  <2>2. (\E i \in DOMAIN todo : Sent(i) /\ Opens(todo[i].message, event))
          => \E i \in DOMAIN todo' : todo'[i].call = "send" /\ Opens(todo'[i].message, event)
    BY <1>1, <1>3 DEF Sent
  <2> QED BY <1>1, <1>6, <2>1, <2>2 DEF Announcing, Sent, Announced
<1>7. ForceSafe'
  <2>1. subscription' = subscription
    BY <1>1
  <2>2. subscription # NoSubscription => Announcing(LiveOf(subscription))' /\ Announcing(EndOf(subscription))'
    BY <1>6, <2>1 DEF Dispatching, ForceSafe
  <2> QED BY <2>1, <2>2 DEF ForceSafe
<1> QED BY <1>4, <1>5, <1>7 DEF Dispatching

(* A capture is the last call; it puts what is announced.                  *)
LEMMA CaptureDispatching ==
  ASSUME TypeOK, Dispatching, Keyed, subscription # NoSubscription, Capture(<<>>),
         \A i \in DOMAIN todo : todo[i].call = "sample",
         UNCHANGED <<observation, control, bulk, writing, wire, last>>
  PROVE  Dispatching'
<1>1. PICK m \in SampleMessages : todo' = <<Put(m)>> \o <<>> /\ (Captures(m) \/ Concludes(m))
  BY CaptureEffect
<1> DEFINE p == Put(m)
<1>2. p.call = "observe" /\ p.message = m
  BY DEF Put
<1>3. todo' = <<p>> \o <<>>
  BY <1>1
<1> HIDE DEF p
<1>4. todo' = <<p>>
  BY <1>3, Lists
<1>5. Len(todo') = 1 /\ DOMAIN todo' = {1} /\ todo'[1].call = "observe" /\ todo'[1].message = m
  BY <1>2, <1>4, Short
<1>6. Announced(LiveOf(subscription)) /\ Announced(EndOf(subscription))
  BY DEF Dispatching, ForceSafe, Announcing, Sent
<1>7. PutsLast'
  <2>1. CASE Captures(m)
    <3>1. CapturedIn(m, subscription', Key', sequence')
      BY <2>1 DEF Captures, CapturedIn, Key
    <3> QED BY <1>5, <3>1 DEF PutsLast, Puts, CapturedPut
  <2>2. CASE Concludes(m)
    <3>1. /\ m = EndOf(subscription) /\ m.kind = "ended" /\ m.view = NoView
          /\ m.id <= last' /\ subscription' = NoSubscription
      BY <2>2 DEF Concludes, EndOf, Reply, Message, Keyed
    <3>2. AnnouncedIn(m, wire', writing', control', bulk')
      BY <1>6, <3>1 DEF Announced
    <3> QED BY <1>5, <3>1, <3>2 DEF PutsLast, Puts, EndedPut, Announced
  <2> QED BY <1>1, <2>1, <2>2
<1>8. SlotSafe'
  BY <1>5 DEF SlotSafe, Sent
<1>9. ForceSafe'
  <2>1. CASE Captures(m)
    <3>1. subscription'.id = subscription.id /\ subscription'.key = subscription.key
      BY <2>1 DEF Captures
    <3>2. LiveOf(subscription') = LiveOf(subscription) /\ EndOf(subscription') = EndOf(subscription)
      BY <3>1 DEF LiveOf, EndOf
    <3>3. /\ AnnouncedIn(LiveOf(subscription'), wire', writing', control', bulk')
          /\ AnnouncedIn(EndOf(subscription'), wire', writing', control', bulk')
      BY <1>6, <3>2 DEF Announced
    <3> QED BY <1>5, <3>3 DEF ForceSafe, Announcing, Sent, Announced
  <2>2. CASE Concludes(m)
    BY <2>2 DEF Concludes, ForceSafe
  <2> QED BY <1>1, <2>1, <2>2
<1> QED BY <1>7, <1>8, <1>9 DEF Dispatching

(* What the writer takes does not end what the dispatcher is about to do.  *)
LEMMA WriterDispatching ==
  ASSUME TypeOK, Ending, Chain, Serving, Dispatching, Writer, failed' = failed
  PROVE  Dispatching'
<1>1. UNCHANGED <<todo, subscription, session, generation, sequence, last>> /\ Key' = Key
  BY WriterFrame DEF ownerVars, loopVars, Key
<1>2. observation' = observation \/ observation' = NoMessage
  BY DEF Writer, WriterReceive, ReceiveControl, ReceiveBulk, ReceiveSample, ReceiveFinal,
         WriterAnnounce, WriterWrite, WriterFinish, WriterFails, LoseOutbox, WriterReports, lanes
<1>3. ~ReceiveFinal(writing')
  BY DEF Ending, FinalClosing, ReceiveFinal, Serving
<1>4. ASSUME NEW event, event.id = subscription.id \/ (\E i \in DOMAIN todo : Puts(i) /\ event = todo[i].message),
             observation # NoMessage
      PROVE  ~Invalidates(observation, event)
  <2>1. CASE observation.kind = "capture"
    BY <2>1, PlainHarmless DEF Endings
  <2>2. CASE observation.kind = "ended"
    <3>1. observation.id # event.id
      BY <1>4, <2>2 DEF Chain, Ahead, NextIsLater, NextIn, Puts, Serving, Precedes
    <3> QED BY <2>2, <3>1 DEF Invalidates
  <2> QED BY <1>4, <2>1, <2>2, LanesAre DEF SampleMessages
<1>5. ASSUME NEW event, event.id = subscription.id \/ (\E i \in DOMAIN todo : Puts(i) /\ event = todo[i].message),
             Announced(event)
      PROVE  AnnouncedIn(event, wire', writing', control', bulk')
  <2>1. ReceiveSample(writing') => ~Invalidates(observation, event)
    BY <1>4, <1>5 DEF ReceiveSample
  <2> QED BY <1>3, <1>5, <2>1, WriterAnnounces
<1>6. ASSUME NEW event, Harmless(bulk, event) PROVE Harmless(bulk', event)
  <2>1. bulk' = bulk \/ bulk' = <<>> \/ (bulk # <<>> /\ bulk' = Tail(bulk))
    BY DEF Writer, WriterReceive, ReceiveControl, ReceiveBulk, ReceiveSample, ReceiveFinal,
         WriterAnnounce, WriterWrite, WriterFinish, WriterFails, LoseOutbox, WriterReports, lanes
  <2> QED BY <1>6, <2>1, TailOrder, EmptyOrder, LanesAre
<1>7. PutsLast'
  <2>1. ASSUME NEW i \in DOMAIN todo, Puts(i), EndedPut(todo[i].message)
        PROVE  EndedPut(todo[i].message)'
    BY <1>1, <1>5, <2>1 DEF EndedPut, Announced
  <2>2. ASSUME NEW i \in DOMAIN todo, CapturedPut(todo[i].message)
        PROVE  CapturedPut(todo[i].message)'
    BY <1>1, <2>2 DEF CapturedPut, ownerVars
  <2> QED BY <1>1, <2>1, <2>2 DEF Dispatching, PutsLast, Puts
<1>8. SlotSafe'
  <2>1. CASE observation' = observation
    BY <1>1, <2>1 DEF Dispatching, SlotSafe, Sent, Clears
  <2>2. CASE observation' = NoMessage
    BY <2>2, SampleIs DEF SlotSafe
  <2> QED BY <1>2, <2>1, <2>2
<1>9. ASSUME NEW event, event.id = subscription.id, Announcing(event)
      PROVE  Announcing(event)'
  BY <1>1, <1>5, <1>6, <1>9 DEF Announcing, Sent, Announced
<1>10. ForceSafe'
  <2>1. LiveOf(subscription).id = subscription.id /\ EndOf(subscription).id = subscription.id
    BY DEF LiveOf, EndOf, Reply, Message
  <2>2. subscription # NoSubscription => Announcing(LiveOf(subscription))' /\ Announcing(EndOf(subscription))'
    BY <1>1, <1>9, <2>1 DEF Dispatching, ForceSafe
  <2> QED BY <1>1, <2>2 DEF ForceSafe
<1> QED BY <1>7, <1>8, <1>10 DEF Dispatching

LEMMA DispatchingStep ==
  ASSUME TypeOK, Planned, Ending, Keyed, Chain, Serving /\ ~failed => Dispatching,
         [Next]_vars, Serving', ~failed'
  PROVE  Dispatching'
<1>0. Serving /\ ~failed /\ Dispatching /\ TypeOK'
  BY StillServing, TypesStep
<1>1. CASE Handler
  BY <1>0, <1>1, HandlerDispatching
<1>2. CASE SendReply
  BY <1>0, <1>2, SendDispatching
<1>3. CASE PutSample
  BY <1>0, <1>3, PutDispatching
<1>4. CASE RefreshSample
  <2>1. /\ todo # <<>> /\ Head(todo).call = "sample"
        /\ UNCHANGED <<observation, control, bulk, writing, wire, last>>
    BY <1>4 DEF RefreshSample, Calling, lanes, writerVars, loopVars
  <2>2. DOMAIN todo = {1} /\ todo[1].call = "sample" /\ Tail(todo) = <<>>
    <3>1. Len(todo) = 1 /\ DOMAIN todo = 1 .. Len(todo) /\ Len(Tail(todo)) = Len(todo) - 1
          /\ todo[1].call = "sample" /\ Tail(todo) \in Seq(Calls)
      BY <1>0, <2>1, TailCalls DEF Dispatching, PutsLast
    <3> DEFINE r == Tail(todo)
    <3>2. r \in Seq(Calls) /\ Len(r) = 0
      BY <3>1
    <3> HIDE DEF r
    <3>3. r = <<>>
      BY <3>2, EmptySeq
    <3> QED BY <3>1, <3>3 DEF r
  <2>3. CASE subscription = NoSubscription
    <3>1. todo' = <<>> /\ subscription' = NoSubscription
      BY <1>4, <2>2, <2>3 DEF RefreshSample
    <3>2. observation.kind # "capture"
      BY <1>0, <2>2, <2>3 DEF Dispatching, SlotSafe
    <3> QED BY <2>1, <3>1, <3>2 DEF Dispatching, PutsLast, SlotSafe, ForceSafe
  <2>4. CASE subscription # NoSubscription
    BY <1>0, <1>4, <2>1, <2>2, <2>4, CaptureDispatching DEF RefreshSample
  <2> QED BY <2>3, <2>4
<1>5. CASE SampleDue
  <2>1. subscription # NoSubscription /\ todo = <<>> /\ Capture(<<>>)
        /\ UNCHANGED <<observation, control, bulk, writing, wire, last>>
    BY <1>5 DEF SampleDue, NoSubscription, lanes, writerVars, loopVars
  <2> QED BY <1>0, <2>1, CaptureDispatching
<1>6. CASE Writer
  <2>1. failed' = failed
    BY <1>0 DEF TypeOK, LaneTypes
  <2> QED BY <1>0, <1>6, <2>1, WriterDispatching
<1>7. CASE ~Handler /\ ~Caller /\ ~Writer
  <2>1. UNCHANGED <<subscription, todo, observation, control, bulk, writing, wire>>
    BY <1>7, OthersFrame, MovesFrame DEF Moves, Caller
  <2>2. UNCHANGED <<session, generation, sequence, last>>
    <3>1. CASE Scheduler
      BY <3>1, SchedulerFrame DEF ownerVars, loopVars
    <3>2. CASE OutputLost
      BY <3>2, OutputLostFrame DEF Fails, ownerVars, loopVars
    <3>3. CASE ReadRequest \/ ReadEnd \/ Assembly
      BY <3>3, ReaderFrame, AssemblyFrame DEF ownerVars, loopVars
    <3>4. CASE GuestAdvance
      BY <3>4 DEF GuestAdvance, Advance, loopVars
    <3>5. CASE UNCHANGED vars
      BY <3>5 DEF vars, ownerVars, loopVars
    <3> QED BY <1>7, <3>1, <3>2, <3>3, <3>4, <3>5, Steps
  <2> QED BY <1>0, <2>1, <2>2, DispatchingFrame
<1> QED BY <1>1, <1>2, <1>3, <1>4, <1>5, <1>6, <1>7 DEF Caller

-----------------------------------------------------------------------------
(* Whatever a subscription sends next is newer than what it sent.          *)

LEMMA ServingBefore == ASSUME [Next]_vars, outcome' = "serving" PROVE outcome = "serving"
<1>1. CASE Writer
  BY <1>1, WriterFrame DEF loopVars
<1>2. CASE UNCHANGED vars
  BY <1>2 DEF vars, loopVars
<1>3. CASE GuestAdvance
  BY <1>3 DEF GuestAdvance, loopVars
<1>4. CASE Handler \/ Caller \/ Scheduler \/ OutputLost \/ ReadRequest \/ ReadEnd \/ Assembly
  BY <1>4, HandlerFrame, CallerFrame, SchedulerFrame, OutputLostFrame, ReaderFrame, AssemblyFrame
     DEF Serving
<1> QED BY <1>1, <1>2, <1>3, <1>4, Steps

(* The two halves of NextIn. *)
InForce(a, s, key, number) ==
    a.id = s.id => a.kind # "ended" /\ (s.key = key => a.view.sequence <= number)
BeforePuts(a, calls) ==
    \A i \in DOMAIN calls : calls[i].call = "observe" /\ calls[i].message # NoMessage
                              => Precedes(a, calls[i].message)

LEMMA NextStays ==
  ASSUME TypeOK, Keyed, [Next]_vars, NEW a, a.id \in Positive, a.id <= last,
         a.view.sequence \in Nat, NextIsLater(a)
  PROVE  NextIn(a, outcome', subscription', Key', sequence', todo')
<1> SUFFICES ASSUME outcome' = "serving"
             PROVE  InForce(a, subscription', Key', sequence') /\ BeforePuts(a, todo')
  BY DEF NextIn, InForce, BeforePuts
<1>1. Serving /\ InForce(a, subscription, Key, sequence) /\ BeforePuts(a, todo)
  BY ServingBefore DEF NextIsLater, NextIn, InForce, BeforePuts, Serving
<1>2. /\ sequence \in Nat /\ sequence' \in Nat /\ last \in Nat /\ last' \in Nat /\ last <= last'
      /\ todo \in Seq(Calls) /\ session <= last
  <2>1. TypeOK' /\ last <= last'
    BY TypesStep, OwnerSteps
  <2> QED BY <2>1 DEF TypeOK, OwnerTypes, LoopTypes, Keyed
<1>3. ASSUME UNCHANGED subscription PROVE InForce(a, subscription', Key', sequence')
  <2>1. CASE subscription = NoSubscription
    BY <1>3, <2>1 DEF NoSubscription, InForce, Positive
  <2>2. CASE subscription # NoSubscription
    <3>1. subscription.key \in Keys /\ Past(subscription.key)
      BY <2>2 DEF Keyed, TypeOK, LoopTypes, Subscriptions
    <3>2. subscription.key = Key' => subscription.key = Key /\ sequence <= sequence'
      BY <1>2, <3>1, PastStays
    <3> QED BY <1>1, <1>2, <1>3, <3>2 DEF InForce
  <2> QED BY <2>1, <2>2
<1>4. ASSUME subscription' = NoSubscription PROVE InForce(a, subscription', Key', sequence')
  BY <1>4 DEF NoSubscription, InForce, Positive
<1>5. CASE Handler
  <2>1. CASE PlainHandler
    <3>1. \A i \in DOMAIN todo' : todo'[i].call = "send"
      BY <2>1 DEF PlainHandler, Plainly
    <3> QED BY <1>3, <2>1, <3>1 DEF PlainHandler, BeforePuts
  <2>2. CASE QuietHandler
    <3>1. PICK m, b : todo' \in {<<Send(m, b)>>, <<Send(m, b), Sample>>}
      BY <2>2 DEF QuietHandler
    <3> DEFINE s == Send(m, b)
               n == Sample
    <3>2. s.call = "send" /\ n.call = "sample" /\ (todo' = <<s>> \/ todo' = <<s, n>>)
      BY <3>1 DEF Send, Sample
    <3> HIDE DEF s, n
    <3>3. \A i \in DOMAIN todo' : todo'[i] \in {s, n}
      BY <3>2, Short
    <3>4. BeforePuts(a, todo')
      BY <3>2, <3>3 DEF BeforePuts
    <3> QED BY <1>3, <2>2, <3>4 DEF QuietHandler
  <2>3. CASE ClosingHandler
    <3>1. PICK m, b : todo' \in {<<Stop>>, <<Stop, Send(m, b)>>, <<Stop, Send(m, b), Sample>>}
      BY <2>3 DEF ClosingHandler
    <3> DEFINE s == Send(m, b)
               n == Sample
               p == Stop
    <3>2. /\ s.call = "send" /\ n.call = "sample" /\ p.message = NoMessage
          /\ todo' = <<p>> \/ todo' = <<p, s>> \/ todo' = <<p, s, n>>
      BY <3>1 DEF Send, Sample, Stop, Put
    <3> HIDE DEF s, n, p
    <3>3. \A i \in DOMAIN todo' : todo'[i] \in {p, s, n}
      BY <3>2, Short
    <3>4. BeforePuts(a, todo')
      BY <3>2, <3>3 DEF BeforePuts
    <3> QED BY <1>4, <2>3, <3>4 DEF ClosingHandler
  <2>4. CASE OpeningHandler
    <3>1. PICK m \in SampleMessages :
            m.id = last' /\ todo' = <<Stop, Send(Reply(last', "subscribed"), FALSE), Put(m)>>
      BY <2>4 DEF OpeningHandler
    <3> DEFINE s == Send(Reply(last', "subscribed"), FALSE)
               c == Put(m)
               p == Stop
    <3>2. /\ s.call = "send" /\ c.message = m /\ p.message = NoMessage
          /\ todo' = <<p, s, c>>
      BY <3>1 DEF Send, Stop, Put
    <3> HIDE DEF s, c, p
    <3>3. \A i \in DOMAIN todo' : todo'[i] \in {p, s, c}
      BY <3>2, Short
    <3>4. a.id # last' /\ subscription'.id = last'
      BY <1>2, <2>4 DEF OpeningHandler, Positive
    <3>5. BeforePuts(a, todo')
      BY <3>1, <3>2, <3>3, <3>4 DEF BeforePuts, Precedes
    <3> QED BY <3>4, <3>5 DEF InForce
  <2> QED BY <1>2, <1>5, <2>1, <2>2, <2>3, <2>4, HandlerStream DEF Serving
<1>6. ASSUME todo # <<>> PROVE BeforePuts(a, Tail(todo))
  BY <1>1, <1>6, TailCalls DEF BeforePuts
<1>7. CASE SendReply \/ PutSample
  <2>1. todo # <<>> /\ todo' = Tail(todo) /\ UNCHANGED subscription
    BY <1>7, SendEffect, PutEffect
  <2> QED BY <1>3, <1>6, <2>1
<1>8. ASSUME NEW rest \in Seq(Calls), subscription # NoSubscription, Capture(rest), BeforePuts(a, rest)
      PROVE  InForce(a, subscription', Key', sequence') /\ BeforePuts(a, todo')
  <2>1. PICK m \in SampleMessages : todo' = <<Put(m)>> \o rest /\ (Captures(m) \/ Concludes(m))
    BY <1>8, CaptureEffect
  <2>2. Precedes(a, m) /\ InForce(a, subscription', Key', sequence')
    <3>1. CASE Captures(m)
      <4>1. /\ m.id = subscription.id /\ m.view.sequence = sequence + 1 /\ subscription.key = Key
            /\ subscription'.id = subscription.id /\ sequence' = sequence + 1
        BY <3>1 DEF Captures
      <4>2. a.id = subscription.id => a.kind # "ended" /\ a.view.sequence <= sequence
        BY <1>1, <4>1 DEF InForce
      <4> QED BY <1>2, <4>1, <4>2 DEF Precedes, InForce
    <3>2. CASE Concludes(m)
      <4>1. m.id = subscription.id /\ m.kind = "ended" /\ subscription' = NoSubscription
        BY <3>2 DEF Concludes, EndOf, Reply, Message
      <4> QED BY <1>1, <1>4, <4>1 DEF Precedes, InForce
    <3> QED BY <2>1, <3>1, <3>2
  <2>3. BeforePuts(a, todo')
    BY <1>8, <2>1, <2>2, PutBefore DEF BeforePuts
  <2> QED BY <2>2, <2>3
<1>9. CASE RefreshSample
  <2>1. todo # <<>> /\ Tail(todo) \in Seq(Calls)
    BY <1>9, TailCalls DEF RefreshSample, Calling
  <2> QED BY <1>3, <1>6, <1>8, <1>9, <2>1 DEF RefreshSample
<1>10. CASE SampleDue
  <2>1. subscription # NoSubscription /\ Capture(<<>>)
    BY <1>10 DEF SampleDue, NoSubscription
  <2>2. BeforePuts(a, <<>>)
    BY DEF BeforePuts
  <2> QED BY <1>8, <2>1, <2>2, EmptyTyped
<1>11. CASE ~Handler /\ ~Caller
  BY <1>1, <1>3, <1>11, OthersFrame
<1> QED BY <1>5, <1>7, <1>9, <1>10, <1>11 DEF Caller

AheadIn(a, accepted, ending, s, key, number, calls) ==
    a.id \in 1 .. accepted /\ a.view.sequence \in Nat /\ NextIn(a, ending, s, key, number, calls)

LEMMA AheadStays ==
  ASSUME TypeOK, Keyed, [Next]_vars, NEW a, Ahead(a)
  PROVE  AheadIn(a, last', outcome', subscription', Key', sequence', todo')
<1>1. last <= last' /\ last \in Nat /\ last' \in Nat
  BY OwnerSteps, TypesStep DEF TypeOK, LoopTypes
<1>2. a.id \in Positive /\ a.id <= last /\ a.view.sequence \in Nat /\ NextIsLater(a) /\ a.id \in 1 .. last'
  BY <1>1 DEF Ahead, Positive
<1>3. NextIn(a, outcome', subscription', Key', sequence', todo')
  BY <1>2, NextStays
<1> QED BY <1>2, <1>3 DEF AheadIn

(* Order looks at subscription, sequence and kind of a sample. *)
LEMMA ChainAlike ==
  ASSUME NEW a, NEW b, a.id = b.id, a.view = b.view, a.kind = "ended" <=> b.kind = "ended"
  PROVE  /\ Ahead(a) => Ahead(b)
         /\ \A x : Precedes(a, x) => Precedes(b, x)
BY DEF Ahead, NextIsLater, NextIn, Precedes

(* What is written is an event exactly if a sample was held. *)
LEMMA WrittenNext ==
  ASSUME TypeOK, [Next]_vars
  PROVE  \/ Written' = Written
         \/ /\ WriterWrite /\ IsSample(writing) /\ Written' = Written \cup {Encoded(writing)}
<1>1. /\ wire \in Seq(Messages) /\ writing \in Messages /\ writing.kind \notin {"full", "delta"}
  BY LanesAre
<1>2. CASE WriterWrite
  <2>1. wire' = Append(wire, Encoded(writing)) /\ Encoded(writing) \in Messages
    BY <1>2, EncodedAlike DEF WriterWrite
  <2> DEFINE e == Encoded(writing)
             w == wire'
  <2>2. IsEvent(e) <=> IsSample(writing)
    BY <1>1, EncodedOrder DEF IsEvent, IsSample, EventKinds
  <2>3. /\ DOMAIN wire = 1 .. Len(wire) /\ Len(wire) \in Nat /\ DOMAIN w = 1 .. Len(wire) + 1
        /\ w[Len(wire) + 1] = e /\ \A i \in DOMAIN wire : w[i] = wire[i]
    BY <1>1, <2>1, AppendProperties, LenProperties
  <2> HIDE DEF e
  <2>4. \A i \in DOMAIN w : (i \in DOMAIN wire /\ w[i] = wire[i]) \/ (i = Len(wire) + 1 /\ w[i] = e)
    BY <2>3
  <2>5. Len(wire) + 1 \in DOMAIN w /\ DOMAIN wire \subseteq DOMAIN w
    BY <2>3
  <2>6. CASE IsSample(writing)
    <3>1. Written' = Written \cup {e}
      BY <2>2, <2>3, <2>4, <2>5, <2>6 DEF Written
    <3> QED BY <1>2, <2>6, <3>1 DEF e
  <2>7. CASE ~IsSample(writing)
    <3>1. Written' = Written
      BY <2>2, <2>3, <2>4, <2>5, <2>7 DEF Written
    <3> QED BY <3>1
  <2> QED BY <2>6, <2>7
<1>3. CASE ~WriterWrite
  <2>1. UNCHANGED wire
    <3>1. CASE Moves
      BY <1>3, <3>1, SendEffect, PutEffect DEF Moves, Writer, WriterReceive, WriterAnnounce,
         WriterFinish, WriterFails, WriterReports
    <3> QED BY <3>1, MovesFrame
  <2> QED BY <2>1 DEF Written
<1> QED BY <1>2, <1>3

(* How the slot and the writer's hands change. *)
LEMMA HandsNext ==
  ASSUME TypeOK, [Next]_vars
  PROVE  \/ PutSample /\ UNCHANGED writing
         \/ UNCHANGED <<writing, observation>>
         \/ observation # NoMessage /\ writing' = observation /\ observation' = NoMessage
         \/ ~IsSample(writing') /\ observation' \in {observation, NoMessage}
<1>1. CASE ~Moves
  BY <1>1, MovesFrame
<1>2. CASE SendReply
  BY <1>2, SendEffect
<1>3. CASE PutSample
  BY <1>3, PutEffect
<1>4. CASE WriterReceive
  <2>1. CASE ReceiveSample(writing')
    BY <2>1 DEF ReceiveSample
  <2>2. CASE ReceiveControl(writing') \/ ReceiveBulk(writing')
    <3>1. writing' \in ReplyMessages /\ UNCHANGED observation
      BY <2>2, LanesAre, LaneHead DEF ReceiveControl, ReceiveBulk
    <3> QED BY <3>1, SampleIs
  <2>3. CASE ReceiveFinal(writing')
    <3>1. writing' \in ReplyMessages /\ UNCHANGED observation
      BY <2>3 DEF ReceiveFinal, TypeOK, LaneTypes
    <3> QED BY <3>1, SampleIs
  <2> QED BY <1>4, <2>1, <2>2, <2>3 DEF WriterReceive
<1>5. CASE WriterWrite \/ WriterFails
  BY <1>5, SampleIs DEF WriterWrite, WriterFails, LoseOutbox, lanes
<1>6. CASE WriterAnnounce \/ WriterFinish \/ WriterReports
  BY <1>6 DEF WriterAnnounce, WriterFinish, WriterReports, lanes
<1> QED BY <1>1, <1>2, <1>3, <1>4, <1>5, <1>6 DEF Moves, Writer

LEMMA PutAhead ==
  ASSUME TypeOK, Keyed, Dispatching, PutSample, NEW m, m = todo[1].message, m # NoMessage
  PROVE  AheadIn(m, last', outcome', subscription', Key', sequence', todo')
<1>1. /\ todo # <<>> /\ todo[1].call = "observe" /\ 1 \in DOMAIN todo /\ m \in SampleMessages
      /\ todo' = Tail(todo)
      /\ UNCHANGED <<subscription, session, generation, sequence, last, outcome>>
  BY PutEffect DEF ownerVars, loopVars
<1>2. Puts(1) /\ Len(todo) = 1
  BY <1>1 DEF Dispatching, PutsLast, Puts
<1>3. DOMAIN todo' = {}
  BY <1>1, <1>2, TailCalls
<1>4. m.id \in Positive /\ m.view.sequence \in Nat /\ sequence \in Nat /\ last \in Nat
  BY <1>1 DEF SampleMessages, Messages, Views, Positive, TypeOK, OwnerTypes, LoopTypes
<1>5. CASE EndedPut(m)
  <2>1. m.id <= last /\ subscription = NoSubscription /\ m.id # NoSubscription.id
    BY <1>4, <1>5 DEF EndedPut, NoSubscription, Positive
  <2> QED BY <1>1, <1>3, <1>4, <2>1 DEF AheadIn, NextIn, Positive
<1>6. CASE CapturedPut(m)
  <2>1. m.id <= last /\ m.kind = "capture" /\ m.view.sequence = sequence
    BY <1>6 DEF CapturedPut, CapturedIn, Keyed
  <2> QED BY <1>1, <1>3, <1>4, <2>1 DEF AheadIn, NextIn, Positive
<1> QED BY <1>1, <1>2, <1>5, <1>6 DEF Dispatching, PutsLast

LEMMA ChainStep ==
  ASSUME TypeOK, Keyed, Chain, Serving /\ ~failed => Dispatching, [Next]_vars
  PROVE  Chain'
<1> DEFINE Ahead1(a) == AheadIn(a, last', outcome', subscription', Key', sequence', todo')
<1>1. \A a : Ahead(a) => Ahead1(a)
  BY AheadStays
<1> HIDE DEF Ahead1
<1>2. \A a \in Written : Ahead1(a)
  BY <1>1 DEF Chain
<1>3. ASSUME NEW a, Ahead(a), IsSample(writing') /\ IsSample(writing) => Precedes(a, writing),
             observation # NoMessage => Precedes(a, observation)
      PROVE  /\ IsSample(writing') => Precedes(a, writing')
             /\ observation' # NoMessage => Precedes(a, observation')
  <2>1. CASE PutSample /\ UNCHANGED writing
    <3>1. observation' = todo[1].message /\ todo[1].call = "observe" /\ 1 \in DOMAIN todo /\ Serving
      BY <2>1, PutEffect
    <3>2. observation' # NoMessage => Precedes(a, observation')
      BY <1>3, <3>1 DEF Ahead, NextIsLater, NextIn, Serving
    <3> QED BY <1>3, <2>1, <3>2
  <2>2. CASE UNCHANGED <<writing, observation>>
    BY <1>3, <2>2
  <2>3. CASE observation # NoMessage /\ writing' = observation /\ observation' = NoMessage
    BY <1>3, <2>3
  <2>4. CASE ~IsSample(writing') /\ observation' \in {observation, NoMessage}
    BY <1>3, <2>4
  <2> QED BY <2>1, <2>2, <2>3, <2>4, HandsNext
<1>4. \A a \in Written : /\ IsSample(writing') => Precedes(a, writing')
                         /\ observation' # NoMessage => Precedes(a, observation')
  BY <1>3 DEF Chain
<1>5. \A a \in Written' : /\ Ahead1(a)
                          /\ IsSample(writing') => Precedes(a, writing')
                          /\ observation' # NoMessage => Precedes(a, observation')
  <2>1. CASE Written' = Written
    BY <1>2, <1>4, <2>1
  <2>2. CASE WriterWrite /\ IsSample(writing) /\ Written' = Written \cup {Encoded(writing)}
    <3> DEFINE e == Encoded(writing)
    <3>1. writing' = NoMessage /\ UNCHANGED observation
      BY <2>2 DEF WriterWrite, lanes
    <3>2. /\ Ahead(writing) /\ (observation # NoMessage => Precedes(writing, observation))
      BY <2>2 DEF Chain
    <3>3. e.id = writing.id /\ e.view = writing.view /\ (e.kind = "ended" <=> writing.kind = "ended")
      BY <2>2, LanesAre, EncodedOrder DEF IsSample
    <3> HIDE DEF e
    <3>4. Ahead(e) /\ (observation # NoMessage => Precedes(e, observation))
      BY <3>2, <3>3, ChainAlike
    <3>5. Ahead1(e) /\ (observation' # NoMessage => Precedes(e, observation')) /\ ~IsSample(writing')
      BY <1>1, <3>1, <3>4, SampleIs
    <3> QED BY <1>2, <1>4, <2>2, <3>5 DEF e
  <2> QED BY <2>1, <2>2, WrittenNext
<1>6. IsSample(writing') =>
        Ahead1(writing') /\ (observation' # NoMessage => Precedes(writing', observation'))
  <2>1. CASE PutSample /\ UNCHANGED writing
    <3>1. IsSample(writing) => Ahead(writing) /\ (observation # NoMessage => Precedes(writing, observation))
      BY DEF Chain
    <3>2. observation' = todo[1].message /\ todo[1].call = "observe" /\ 1 \in DOMAIN todo /\ Serving
      BY <2>1, PutEffect
    <3>3. IsSample(writing) => (observation' # NoMessage => Precedes(writing, observation'))
      BY <3>1, <3>2 DEF Ahead, NextIsLater, NextIn, Serving
    <3> QED BY <1>1, <2>1, <3>1, <3>3
  <2>2. CASE UNCHANGED <<writing, observation>>
    BY <1>1, <2>2 DEF Chain
  <2>3. CASE observation # NoMessage /\ writing' = observation /\ observation' = NoMessage
    BY <1>1, <2>3 DEF Chain
  <2> QED BY <2>1, <2>2, <2>3, HandsNext
<1>7. observation' # NoMessage => Ahead1(observation')
  <2>1. CASE PutSample
    <3>1. /\ observation' = todo[1].message /\ Dispatching
      BY <2>1, PutEffect
    <3>2. \A m : m = todo[1].message /\ m # NoMessage => Ahead1(m)
      BY <2>1, <3>1, PutAhead DEF Ahead1
    <3> QED BY <3>1, <3>2
  <2>2. CASE observation' \in {observation, NoMessage}
    BY <1>1, <2>2 DEF Chain
  <2> QED BY <2>1, <2>2, HandsNext
<1>8. /\ \A a \in Written' : AheadIn(a, last', outcome', subscription', Key', sequence', todo')
      /\ IsSample(writing') => AheadIn(writing', last', outcome', subscription', Key', sequence', todo')
      /\ observation' # NoMessage => AheadIn(observation', last', outcome', subscription', Key', sequence', todo')
  BY <1>5, <1>6, <1>7 DEF Ahead1
<1> QED BY <1>5, <1>6, <1>8 DEF Chain, Ahead, NextIsLater, AheadIn, IsSample

-----------------------------------------------------------------------------
(* The baseline is the last event written, and what is written is decoded  *)
(* from it.                                                                *)

BasedIn(messages, sample) ==
    \E i \in DOMAIN messages :
        /\ messages[i].kind \in {"full", "delta"}
        /\ messages[i].id = sample.id /\ messages[i].view = sample.view
        /\ \A k \in DOMAIN messages : k > i => ~IsEvent(messages[k])

LEMMA BasedStep ==
  ASSUME TypeOK, Based, [Next]_vars
  PROVE  Based'
<1>0. /\ \A i \in DOMAIN wire : wire[i].kind # "capture"
      /\ baseline # NoMessage => BasedIn(wire, baseline)
  BY DEF Based, BasedIn
<1>1. CASE WriterWrite
  <2> DEFINE e == Encoded(writing)
  <2>1. /\ DOMAIN wire' = 1 .. Len(wire) + 1 /\ DOMAIN wire = 1 .. Len(wire) /\ Len(wire) \in Nat
        /\ wire'[Len(wire) + 1] = e /\ \A i \in DOMAIN wire : wire'[i] = wire[i]
    BY <1>1, WireAppend
  <2>2. /\ writing \in Messages /\ writing.kind \notin {"full", "delta"}
        /\ writing.kind # "capture" => e = writing
        /\ writing.kind = "capture" => e.kind \in {"full", "delta"}
        /\ e.id = writing.id /\ e.view = writing.view
    BY LanesAre, EncodedOrder
  <2>3. /\ writing.kind = "capture" => baseline' = writing
        /\ writing.kind = "ended" => baseline' = NoMessage
        /\ writing.kind \notin {"capture", "ended"} => baseline' = baseline
    BY <1>1 DEF WriterWrite, Baseline
  <2> HIDE DEF e
  <2>4. \A i \in DOMAIN wire' : (i \in DOMAIN wire /\ wire'[i] = wire[i]) \/ (i = Len(wire) + 1 /\ wire'[i] = e)
    BY <2>1
  <2>5. \A i \in DOMAIN wire' : wire'[i].kind # "capture"
    BY <1>0, <2>2, <2>4
  <2>6. CASE writing.kind = "capture"
    <3>1. Len(wire) + 1 \in DOMAIN wire' /\ wire'[Len(wire) + 1] = e
          /\ \A k \in DOMAIN wire' : ~(k > Len(wire) + 1)
      BY <2>1
    <3>2. BasedIn(wire', baseline')
      BY <2>2, <2>3, <2>6, <3>1 DEF BasedIn
    <3> QED BY <2>5, <3>2 DEF Based, BasedIn
  <2>7. CASE writing.kind = "ended"
    BY <2>3, <2>5, <2>7 DEF Based
  <2>8. ASSUME writing.kind \notin {"capture", "ended"}, baseline # NoMessage
        PROVE  BasedIn(wire', baseline')
    <3>1. ~IsEvent(e) /\ baseline' = baseline
      BY <2>2, <2>3, <2>8 DEF IsEvent, EventKinds
    <3>2. PICK i \in DOMAIN wire :
             /\ wire[i].kind \in {"full", "delta"}
             /\ wire[i].id = baseline.id /\ wire[i].view = baseline.view
             /\ \A k \in DOMAIN wire : k > i => ~IsEvent(wire[k])
      BY <1>0, <2>8 DEF BasedIn
    <3>3. i \in DOMAIN wire' /\ wire'[i] = wire[i]
      BY <2>1
    <3>4. \A k \in DOMAIN wire' : k > i => ~IsEvent(wire'[k])
      BY <2>4, <3>1, <3>2
    <3> QED BY <3>1, <3>2, <3>3, <3>4 DEF BasedIn
  <2> QED BY <2>3, <2>5, <2>6, <2>7, <2>8 DEF Based, BasedIn
<1>2. CASE ~WriterWrite
  <2>1. UNCHANGED <<wire, baseline>>
    <3>1. CASE Moves
      BY <1>2, <3>1, SendEffect, PutEffect DEF Moves, Writer, WriterReceive, WriterAnnounce,
         WriterFinish, WriterFails, WriterReports
    <3> QED BY <3>1, MovesFrame
  <2> QED BY <2>1 DEF Based
<1> QED BY <1>1, <1>2

(* The property, event by event. *)
OrderedAt(messages, j) ==
    IsEvent(messages[j]) =>
        \E i \in 1 .. j - 1 :
            /\ messages[i].kind = "subscribed" /\ messages[i].id = messages[j].id
            /\ \A k \in i + 1 .. j - 1 : ~Invalidates(messages[k], messages[j])

LEMMA OrderStep ==
  ASSUME TypeOK, OnItsWay, StreamOrder, [Next]_vars
  PROVE  StreamOrder'
<1>0. \A j \in DOMAIN wire : OrderedAt(wire, j)
  BY DEF StreamOrder, OrderedAt
<1>1. CASE WriterWrite
  <2> DEFINE e == Encoded(writing)
             n == Len(wire) + 1
  <2>1. /\ DOMAIN wire' = 1 .. n /\ DOMAIN wire = 1 .. n - 1 /\ n \in Nat \ {0}
        /\ wire'[n] = e /\ \A i \in 1 .. n - 1 : wire'[i] = wire[i]
    BY <1>1, WireAppend
  <2>2. /\ writing.kind \notin {"full", "delta"} /\ writing \in Messages
        /\ writing.kind # "capture" => e = writing
        /\ writing.kind = "capture" => e.kind \in {"full", "delta"}
        /\ e.id = writing.id /\ e.view = writing.view
    BY LanesAre, EncodedOrder
  <2> HIDE DEF e, n
  <2>3. ASSUME NEW j \in 1 .. n - 1 PROVE OrderedAt(wire', j)
    <3>1. OrderedAt(wire, j) /\ wire'[j] = wire[j]
      BY <1>0, <2>1
    <3>2. \A i \in 1 .. j - 1 : i \in 1 .. n - 1 /\ wire'[i] = wire[i]
      BY <2>1
    <3>3. CASE IsEvent(wire[j])
      <4>1. PICK i \in 1 .. j - 1 :
               /\ wire[i].kind = "subscribed" /\ wire[i].id = wire[j].id
               /\ \A k \in i + 1 .. j - 1 : ~Invalidates(wire[k], wire[j])
        BY <3>1, <3>3 DEF OrderedAt
      <4>2. \A k \in i + 1 .. j - 1 : k \in 1 .. j - 1
        BY <2>1
      <4> QED BY <3>1, <3>2, <4>1, <4>2 DEF OrderedAt
    <3> QED BY <3>1, <3>3 DEF OrderedAt
  <2>4. OrderedAt(wire', n)
    <3>1. CASE IsEvent(e)
      <4>1. OpenedIn(wire, writing)
        BY <2>2, <3>1 DEF OnItsWay, IsSample, IsEvent, EventKinds
      <4>2. PICK i \in 1 .. n - 1 : /\ Opens(wire[i], writing)
                                    /\ \A k \in 1 .. n - 1 : k > i => ~Invalidates(wire[k], writing)
        BY <2>1, <4>1 DEF OpenedIn
      <4>3. (e.kind = "ended" <=> writing.kind = "ended") /\ \A m : Invalidates(m, writing) <=> Invalidates(m, e)
        BY <2>2, SameOrder
      <4>4. \A k \in i + 1 .. n - 1 : k \in 1 .. n - 1 /\ k > i /\ wire'[k] = wire[k]
        BY <2>1
      <4>5. wire'[i] = wire[i] /\ wire[i].kind = "subscribed" /\ wire[i].id = e.id
        BY <2>1, <2>2, <4>2 DEF Opens
      <4> QED BY <2>1, <4>2, <4>3, <4>4, <4>5 DEF OrderedAt
    <3> QED BY <2>1, <3>1 DEF OrderedAt
  <2>5. \A j \in DOMAIN wire' : OrderedAt(wire', j)
    <3>1. \A j \in DOMAIN wire' : j \in 1 .. n - 1 \/ j = n
      BY <2>1
    <3> QED BY <2>3, <2>4, <3>1
  <2> QED BY <2>5 DEF StreamOrder, OrderedAt
<1>2. CASE ~WriterWrite
  BY <1>2, WireFrame DEF StreamOrder
<1> QED BY <1>1, <1>2

Before(messages, j) == {i \in 1 .. j - 1 : messages[i].id = messages[j].id /\ IsEvent(messages[i])}
AppliesTo(event, base) ==
    /\ base.view.sequence < event.view.sequence
    /\ event.kind = "delta" =>
         /\ base.kind \in {"full", "delta"}
         /\ event.base = base.view.sequence
         /\ base.view.key = event.view.key
         /\ base.view.config = event.view.config
         /\ base.view.memory = event.view.memory
DecodableAt(messages, j) ==
    IsEvent(messages[j]) /\ messages[j].kind # "ended" =>
        /\ Before(messages, j) = {} => messages[j].kind = "full"
        /\ Before(messages, j) # {} => AppliesTo(messages[j], messages[Max(Before(messages, j))])

LEMMA DecodableEach == DeltaDecodable <=> \A j \in DOMAIN wire : DecodableAt(wire, j)
BY DEF DeltaDecodable, EventsBefore, DecodableAt, Before, AppliesTo

LEMMA DecodableEachNext == DeltaDecodable' <=> \A j \in DOMAIN wire' : DecodableAt(wire', j)
BY DEF DeltaDecodable, EventsBefore, DecodableAt, Before, AppliesTo

(* The sample being written, after what is on the wire.                    *)
LEMMA EncodedDecodable ==
  ASSUME TypeOK, Chain, Based, writing.kind = "capture",
         NEW n \in Nat, DOMAIN wire = 1 .. n,
         NEW P, P = {i \in 1 .. n : wire[i].id = writing.id /\ IsEvent(wire[i])}
  PROVE  /\ P = {} => Encoded(writing).kind = "full"
         /\ P # {} => AppliesTo(Encoded(writing), wire[Max(P)])
<1> DEFINE e == Encoded(writing)
<1>1. writing \in Messages /\ baseline \in SampleMessages \cup {NoMessage} /\ writing.id # 0
  BY LanesAre, SampleIs DEF TypeOK, WriterTypes, SampleMessages, ReplyMessages, IsEvent, NoMessage, Reply, Message
<1>2. /\ e.view = writing.view /\ e.kind \in {"full", "delta"}
      /\ e.kind = "delta" => Extends(writing) /\ e.base = baseline.view.sequence
  BY <1>1 DEF Encoded, Messages
<1> HIDE DEF e
<1>3. ASSUME e.kind = "delta"
      PROVE  \E i \in P : /\ wire[i].view = baseline.view /\ \A k \in 1 .. n : k > i => ~IsEvent(wire[k])
  <2>1. baseline.id = writing.id /\ baseline # NoMessage
    BY <1>1, <1>2, <1>3, SampleIs DEF Extends
  <2>2. PICK i \in DOMAIN wire : /\ wire[i].kind \in {"full", "delta"}
          /\ wire[i].id = baseline.id /\ wire[i].view = baseline.view
          /\ \A k \in DOMAIN wire : k > i => ~IsEvent(wire[k])
    BY <2>1 DEF Based
  <2>3. i \in P
    BY <2>1, <2>2 DEF IsEvent, EventKinds
  <2> QED BY <2>2, <2>3
<1>4. CASE P = {}
  BY <1>2, <1>3, <1>4 DEF e
<1>5. CASE P # {}
  <2> DEFINE x == Max(P)
  <2>1. x \in P /\ \A y \in P : y <= x
    BY <1>5, MaxIs
  <2> HIDE DEF x
  <2>2. wire[x].id = writing.id /\ IsEvent(wire[x]) /\ x \in 1 .. n
    BY <2>1
  <2>3. wire[x] \in Written
    BY <2>2 DEF Written
  <2>4. wire[x].kind # "ended" /\ wire[x].view.sequence < writing.view.sequence
    BY <2>2, <2>3 DEF Chain, IsSample, Precedes
  <2>5. wire[x].kind \in {"full", "delta"}
    BY <2>2, <2>4 DEF Based, IsEvent, EventKinds
  <2>6. ASSUME e.kind = "delta"
        PROVE  /\ wire[x].view = baseline.view /\ e.base = baseline.view.sequence
               /\ Extends(writing)
    <3>1. PICK i \in P : wire[i].view = baseline.view /\ \A k \in 1 .. n : k > i => ~IsEvent(wire[k])
      BY <1>3, <2>6
    <3>2. i <= x /\ ~(x > i) /\ i \in Nat /\ x \in Nat
      BY <2>1, <2>2, <3>1
    <3>3. i = x
      BY <3>2
    <3> QED BY <1>2, <2>6, <3>1, <3>3
  <2>7. AppliesTo(e, wire[x])
    <3>1. e.kind = "delta" => /\ e.base = wire[x].view.sequence
                              /\ wire[x].view.key = e.view.key
                              /\ wire[x].view.config = e.view.config
                              /\ wire[x].view.memory = e.view.memory
      BY <1>2, <2>6 DEF Extends
    <3> QED BY <1>2, <2>4, <2>5, <3>1 DEF AppliesTo
  <2> QED BY <1>5, <2>7 DEF e, x
<1> QED BY <1>4, <1>5

LEMMA DecodableStep ==
  ASSUME TypeOK, Chain, Based, DeltaDecodable, [Next]_vars
  PROVE  DeltaDecodable'
<1>1. CASE WriterWrite
  <2> DEFINE e == Encoded(writing)
             n == Len(wire)
  <2>1. /\ DOMAIN wire' = 1 .. n + 1 /\ DOMAIN wire = 1 .. n /\ n \in Nat
        /\ wire'[n + 1] = e /\ \A i \in 1 .. n : wire'[i] = wire[i]
    BY <1>1, WireAppend
  <2>2. /\ writing.kind \notin {"full", "delta"}
        /\ writing.kind # "capture" => e = writing
        /\ e.id = writing.id
    BY LanesAre, EncodedOrder
  <2> HIDE DEF n
  <2>3. /\ Before(wire, n + 1) \subseteq 1 .. n
        /\ writing.kind = "capture" =>
             LET P == {i \in 1 .. n : wire[i].id = writing.id /\ IsEvent(wire[i])}
             IN  /\ P = {} => e.kind = "full"
                 /\ P # {} => AppliesTo(e, wire[Max(P)])
    BY <2>1, EncodedDecodable DEF Before
  <2> HIDE DEF e
  <2>4. ASSUME NEW j \in 1 .. n PROVE DecodableAt(wire', j)
    <3>1. DecodableAt(wire, j) /\ wire'[j] = wire[j]
      BY <2>1, DecodableEach
    <3>2. \A i \in 1 .. j - 1 : i \in 1 .. n /\ wire'[i] = wire[i]
      BY <2>1
    <3>3. Before(wire', j) = Before(wire, j)
      BY <3>1, <3>2 DEF Before
    <3>4. Before(wire, j) # {} => wire'[Max(Before(wire, j))] = wire[Max(Before(wire, j))]
      <4>1. ASSUME Before(wire, j) # {} PROVE Max(Before(wire, j)) \in 1 .. j - 1
        <5>1. Before(wire, j) \in SUBSET (1 .. n)
          BY <2>1 DEF Before
        <5>2. Max(Before(wire, j)) \in Before(wire, j)
          BY <2>1, <4>1, <5>1, MaxIs
        <5> QED BY <5>2 DEF Before
      <4> QED BY <3>2, <4>1
    <3> QED BY <3>1, <3>3, <3>4 DEF DecodableAt
  <2>5. DecodableAt(wire', n + 1)
    <3>1. CASE writing.kind = "capture"
      <4> DEFINE P == {i \in 1 .. n : wire[i].id = writing.id /\ IsEvent(wire[i])}
      <4>1. Before(wire', n + 1) = P
        <5>1. (n + 1) - 1 = n
          BY <2>1
        <5> QED BY <2>1, <2>2, <5>1 DEF Before
      <4>2. (P = {} => e.kind = "full") /\ (P # {} => AppliesTo(e, wire[Max(P)]))
        BY <2>3, <3>1
      <4>3. P \in SUBSET (1 .. n)
        OBVIOUS
      <4> HIDE DEF P
      <4>4. P # {} => wire'[Max(P)] = wire[Max(P)]
        <5>1. P # {} => Max(P) \in 1 .. n
          BY <2>1, <4>3, MaxIs
        <5> QED BY <2>1, <5>1
      <4> QED BY <2>1, <4>1, <4>2, <4>4 DEF DecodableAt
    <3>2. CASE writing.kind # "capture"
      <4>1. ~IsEvent(e) \/ e.kind = "ended"
        <5>1. e.kind \notin {"full", "delta", "capture"}
          BY <2>2, <3>2
        <5> QED BY <5>1 DEF IsEvent, EventKinds
      <4> QED BY <2>1, <4>1 DEF DecodableAt
    <3> QED BY <3>1, <3>2
  <2>6. \A j \in DOMAIN wire' : j \in 1 .. n \/ j = n + 1
    BY <2>1
  <2> QED BY <2>4, <2>5, <2>6, DecodableEachNext
<1>2. CASE ~WriterWrite
  BY <1>2, WireFrame DEF DeltaDecodable, EventsBefore
<1> QED BY <1>1, <1>2

-----------------------------------------------------------------------------
(* The parts together.                                                     *)

LEMMA StreamingInit == Init => Streaming
<1> SUFFICES ASSUME Init PROVE Streaming
  OBVIOUS
<1>1. /\ session = 0 /\ last = 0 /\ todo = <<>> /\ wire = <<>> /\ bulk = <<>>
      /\ control = <<>> /\ subscription = NoSubscription
      /\ writing = NoMessage /\ observation = NoMessage /\ baseline = NoMessage
  BY DEF Init, OwnerInit, OutboxInit, EncoderInit
<1>2. /\ DOMAIN todo = {} /\ DOMAIN wire = {} /\ DOMAIN bulk = {}
  BY <1>1
<1>3. NoMessage.kind = "none" /\ ~IsSample(NoMessage) /\ ~IsEvent(NoMessage)
  BY DEF NoMessage, Reply, Message, IsSample, IsEvent, EventKinds
<1>4. OnItsWay
  BY <1>1, <1>3 DEF OnItsWay
<1>5. Keyed
  BY <1>1, <1>2, <1>3 DEF Keyed
<1>6. Dispatching
  BY <1>1, <1>2, <1>3 DEF Dispatching, PutsLast, SlotSafe, ForceSafe
<1>7. Chain
  BY <1>1, <1>2, <1>3 DEF Chain, Written
<1>8. Based
  BY <1>1, <1>2 DEF Based
<1> QED BY <1>4, <1>5, <1>6, <1>7, <1>8 DEF Streaming

LEMMA StreamingStep ==
  ASSUME Accounted, Streaming, [Next]_vars
  PROVE  Streaming'
<1>1. TypeOK /\ Planned /\ Ending
  BY DEF Accounted, Held
<1>2. OnItsWay /\ Keyed /\ Chain /\ Based /\ (Serving /\ ~failed => Dispatching)
  BY DEF Streaming
<1>3. OnItsWay'
  BY <1>1, <1>2, OnItsWayStep
<1>4. Keyed'
  BY <1>1, <1>2, KeyedStep
<1>5. (Serving /\ ~failed => Dispatching)'
  BY <1>1, <1>2, DispatchingStep
<1>6. Chain'
  BY <1>1, <1>2, ChainStep
<1>7. Based'
  BY <1>1, <1>2, BasedStep
<1> QED BY <1>3, <1>4, <1>5, <1>6, <1>7 DEF Streaming

LEMMA StreamingAlways == Spec => [](Accounted /\ Streaming)
<1> USE StreamingInit, AccountedAlways
<1>1. Accounted /\ Streaming /\ [Next]_vars => Streaming'
  BY StreamingStep
<1> QED BY <1>1, PTL DEF Spec

(***************************************************************************)
(* No event of a subscription is on the wire before the reply that opened  *)
(* it, and none follows a reply that ended it, replaced it, closed its     *)
(* session or reset it (dispatch.rs:250-288, outbox.rs:96-131): the reply  *)
(* and the sample take different lanes, and every handler clears the slot  *)
(* before it sends such a reply.                                           *)
(***************************************************************************)
THEOREM EventsInOrder == Spec => []StreamOrder
<1>1. Init => StreamOrder
  BY DEF Init, StreamOrder
<1>2. Accounted /\ Streaming /\ StreamOrder /\ [Next]_vars => StreamOrder'
  <2>1. Accounted /\ Streaming => TypeOK /\ OnItsWay
    BY DEF Accounted, Held, Streaming
  <2> QED BY <2>1, OrderStep
<1> QED BY <1>1, <1>2, StreamingAlways, PTL DEF Spec

(***************************************************************************)
(* The client can apply every delta it reads: the first event of a         *)
(* subscription is a full one, and a delta follows the event it was taken  *)
(* from, with the same key, memory window and breakpoint set, whatever the *)
(* slot coalesced in between (stream.rs:136-148).                          *)
(***************************************************************************)
THEOREM DeltasApply == Spec => []DeltaDecodable
<1>1. Init => DeltaDecodable
  BY DEF Init, DeltaDecodable
<1>2. Accounted /\ Streaming /\ DeltaDecodable /\ [Next]_vars => DeltaDecodable'
  <2>1. Accounted /\ Streaming => TypeOK /\ Chain /\ Based
    BY DEF Accounted, Held, Streaming
  <2> QED BY <2>1, DecodableStep
<1> QED BY <1>1, <1>2, StreamingAlways, PTL DEF Spec
====
