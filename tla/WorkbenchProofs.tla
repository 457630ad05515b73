--------------------------- MODULE WorkbenchProofs ---------------------------
(***************************************************************************)
(* Proofs about the window and its worker port, for every set of actions   *)
(* of the user and every bound on calls, observations and workers.         *)
(***************************************************************************)
EXTENDS WorkbenchProperties, TLAPS

-----------------------------------------------------------------------------
(* What the variables hold.                                                *)

Guests ==
    {g \in [session : Nat, generation : Nat, sequence : Nat,
            status : {"none", "ready", "running", "paused"}] : g.session = 0 => g = Absent}
Events == [type : {"none", "full", "ended", "failed"}, id : Nat, guest : Guests]
Controls == {"load", "run", "reset", "patch", "record", "close"}
Kinds == Controls \cup {"connect", "subscribe", "trace", "ack"}
Commands == [kind : Kinds, guest : Guests, event : Events]
Answers == [type : {"none", "ok", "error", "failed"}, guest : Guests, view : Nat]
Records == [call : Commands, id : Nat, epoch : Nat, view : Nat, answer : Answers]
Windows ==
    [epoch : Nat, attachment : Nat, connected : BOOLEAN,
     connecting : {"no", "attaching", "subscribing"},
     controlling : {"no", "requested", "subscribing", "reading"},
     snapshot : Guests, subscription : Nat, subscribing : BOOLEAN, refresh : BOOLEAN,
     pending : Events, trace : [guest : Guests, request : Nat], traceRequest : Nat,
     awaited : Nat, problem : BOOLEAN, told : BOOLEAN, sends : Seq(Commands)]
Hosts ==
    [view : Nat, sessions : Nat, failed : BOOLEAN, guest : Guests, subscription : Nat,
     waiting : Events, latest : Events]

Typed(u, cs, ch, h, m) ==
    u \in Windows /\ cs \subseteq Records /\ ch \in Seq(Events) /\ h \in Hosts /\ m \in Nat

(***************************************************************************)
(* The calls that u has made in this turn, the m-th being the last before. *)
(***************************************************************************)
Made(u, x, n) ==
    [call |-> x, id |-> n, epoch |-> u.epoch, view |-> u.attachment, answer |-> Unanswered]
Sent(u, m) == {Made(u, u.sends[i], m + i) : i \in DOMAIN u.sends}

-----------------------------------------------------------------------------
(* What each function of the controller leaves alone.                      *)

SameLink(u, v) == v.epoch = u.epoch /\ v.attachment = u.attachment /\ v.connected = u.connected
SameControl(u, v) ==
    v.connecting = u.connecting /\ v.controlling = u.controlling /\ v.awaited = u.awaited
SameShown(u, v) == v.snapshot = u.snapshot /\ v.subscription = u.subscription
SameTask(u, v) ==
    v.subscribing = u.subscribing /\ v.refresh = u.refresh /\ v.pending = u.pending
SameTrace(u, v) == v.trace = u.trace /\ v.traceRequest = u.traceRequest

(* No event and no machine are among the events and machines. *)
LEMMA NoneTyped == Absent \in Guests /\ NoEvent \in Events /\ Unanswered \in Answers
<1>1. Absent \in Guests
  BY DEF Absent, Guests
<1>. QED
  BY <1>1 DEF NoEvent, Events, Unanswered, Answers

(* A call made is a call in flight, unanswered. *)
LEMMA MadeTyped ==
    ASSUME NEW u \in Windows, NEW x \in Commands, NEW n \in Nat
    PROVE  /\ Made(u, x, n) \in Records
           /\ Made(u, x, n).call = x /\ Made(u, x, n).id = n
           /\ Made(u, x, n).epoch = u.epoch /\ Made(u, x, n).view = u.attachment
           /\ Made(u, x, n).answer = Unanswered
BY NoneTyped DEF Made, Records, Windows

(* What is sent in a turn: nothing before it, and one call after the other. *)
LEMMA SentNone ==
    ASSUME NEW u \in Windows, NEW m \in Nat, u.sends = <<>>
    PROVE  Sent(u, m) = {}
BY DEF Sent

(* What a turn sent depends on its list and the attachment alone.             *)
LEMMA SentSame ==
    ASSUME NEW u \in Windows, NEW v \in Windows, NEW m \in Nat,
           SameLink(u, v), v.sends = u.sends
    PROVE  Sent(v, m) = Sent(u, m)
BY DEF Sent, Made, SameLink

(* One more call at the end of the list is one more call that was sent.       *)
OneMore(u, v, x) == v.sends = Append(u.sends, x)

LEMMA SentAppend ==
    ASSUME NEW u \in Windows, NEW v \in Windows, NEW m \in Nat, NEW x \in Commands,
           SameLink(u, v), OneMore(u, v, x)
    PROVE  /\ Sent(v, m) = Sent(u, m) \cup {Made(u, x, m + Len(u.sends) + 1)}
           /\ Len(v.sends) = Len(u.sends) + 1
           /\ m + Len(v.sends) = m + Len(u.sends) + 1
<1>1. u.sends \in Seq(Commands) /\ v.sends = Append(u.sends, x)
  BY DEF Windows, OneMore
<1>2. \A n, y : Made(v, y, n) = Made(u, y, n)
  BY DEF Made, SameLink
<1>3. /\ Len(v.sends) = Len(u.sends) + 1 /\ Len(u.sends) \in Nat
      /\ DOMAIN v.sends = DOMAIN u.sends \cup {Len(u.sends) + 1}
      /\ v.sends[Len(u.sends) + 1] = x
      /\ \A i \in DOMAIN u.sends : v.sends[i] = u.sends[i] /\ i \in Nat
  BY <1>1
<1>4. m + (Len(u.sends) + 1) = m + Len(u.sends) + 1
  BY <1>3
<1> DEFINE k == Len(u.sends) + 1
           last == Made(u, x, m + k)
<1>5. Sent(v, m) = {Made(u, v.sends[i], m + i) : i \in DOMAIN v.sends}
  BY <1>2 DEF Sent
<1>6. DOMAIN v.sends = DOMAIN u.sends \cup {k} /\ Made(u, v.sends[k], m + k) = last
  BY <1>3
<1>7. \A i \in DOMAIN u.sends : Made(u, v.sends[i], m + i) = Made(u, u.sends[i], m + i)
  BY <1>3
<1>8. Sent(v, m) = Sent(u, m) \cup {last}
  <2> HIDE DEF k, last
  <2>. QED
    BY <1>5, <1>6, <1>7 DEF Sent
<1>. QED
  BY <1>3, <1>4, <1>8

(* The same, of a call that is named by an expression. *)
SentMore(u, v, m, x) ==
    /\ Sent(v, m) = Sent(u, m) \cup {Made(u, x, m + Len(u.sends) + 1)}
    /\ m + Len(v.sends) = m + Len(u.sends) + 1

LEMMA SentGrows ==
    ASSUME NEW u \in Windows, NEW v \in Windows, NEW m \in Nat, NEW x \in Commands,
           SameLink(u, v), OneMore(u, v, x)
    PROVE  SentMore(u, v, m, x)
BY SentAppend DEF SentMore

(* The end of a turn puts in flight what was sent. *)
LEMMA TurnEnds ==
    ASSUME NEW u \in Windows, NEW left, made \in Nat, Turn(u, left)
    PROVE  /\ ui' \in Windows /\ ui'.sends = <<>>
           /\ SameLink(u, ui') /\ SameControl(u, ui') /\ SameShown(u, ui') /\ SameTask(u, ui')
           /\ SameTrace(u, ui') /\ ui'.told = u.told
           /\ calls' = left \cup Sent(u, made)
           /\ made' = made + Len(u.sends)
<1>1. PICK v : v = [u EXCEPT !.sends = <<>>]
  OBVIOUS
<1>2. v \in Windows
  <2>1. <<>> \in Seq(Commands)
    OBVIOUS
  <2>. QED
    BY <1>1, <2>1 DEF Windows
<1>3. /\ v.sends = <<>> /\ SameLink(u, v) /\ SameControl(u, v) /\ SameShown(u, v)
      /\ SameTask(u, v) /\ SameTrace(u, v) /\ v.told = u.told
  BY <1>1 DEF Windows, SameLink, SameControl, SameShown, SameTask, SameTrace
<1>4. ui' = v /\ made' = made + Len(u.sends)
  BY <1>1 DEF Turn
<1>5. calls' = left \cup Sent(u, made)
  BY DEF Turn, Sent, Made
<1>. QED
  BY <1>2, <1>3, <1>4, <1>5

-----------------------------------------------------------------------------
(* What each function of the controller does.                              *)

Frame(u, v) == SameLink(u, v) /\ SameControl(u, v) /\ SameTask(u, v) /\ SameTrace(u, v)

LEMMA SendsTyped ==
    ASSUME NEW u \in Windows, NEW q \in Seq(Commands), NEW r, r = [u EXCEPT !.sends = q]
    PROVE  r \in Windows /\ r.sends = q
<1>1. r.sends = q
  BY DEF Windows
<1>2. r \in Windows
  BY DEF Windows
<1>. QED
  BY <1>1, <1>2

(* A failure is noted. *)
LEMMA Noted ==
    ASSUME NEW u \in Windows, NEW r, r = [u EXCEPT !.problem = TRUE]
    PROVE  r \in Windows /\ r.sends = u.sends /\ r.told = u.told /\ Frame(u, r) /\ SameShown(u, r)
<1>1. r \in Windows
  BY DEF Windows
<1>2. r.sends = u.sends /\ r.told = u.told /\ Frame(u, r) /\ SameShown(u, r)
  BY DEF Windows, Frame, SameLink, SameControl, SameShown, SameTask, SameTrace
<1>. QED
  BY <1>1, <1>2

(* The machine shown gives way to a later observation, or to none. *)
Advances(old, new) ==
    old # Absent /\ new # Absent =>
        \/ old = new
        \/ old.session < new.session
        \/ old.session = new.session /\ old.sequence < new.sequence

(* publish keeps what is shown, or replaces it by a later observation. *)
LEMMA Publishes ==
    ASSUME NEW u \in Windows, NEW g \in Guests, NEW r, r = Publish(u, g)
    PROVE  /\ r \in Windows /\ r.sends = u.sends
           /\ Frame(u, r) /\ r.subscription = u.subscription /\ r.told = u.told
           /\ r.snapshot \in {u.snapshot, g} /\ Advances(u.snapshot, r.snapshot)
           /\ u.snapshot = Absent => r.snapshot = g
<1>1. CASE r = u
  <2>1. u.snapshot \in Guests
    BY DEF Windows
  <2>2. u.snapshot = Absent => g = Absent
    <3>1. SUFFICES ASSUME u.snapshot = Absent PROVE g = Absent
      OBVIOUS
    <3>2. r.snapshot = g
      BY <3>1 DEF Publish, Windows
    <3>. QED
      BY <1>1, <3>1, <3>2
  <2>. QED
    BY <1>1, <2>2 DEF Frame, SameLink, SameControl, SameTask, SameTrace, Advances
<1>2. CASE r = [u EXCEPT !.snapshot = g] /\ ~(u.snapshot # Absent /\ Older(g, u.snapshot))
  <2>1. /\ r \in Windows /\ r.sends = u.sends /\ r.snapshot = g
        /\ r.subscription = u.subscription /\ r.told = u.told
    BY <1>2 DEF Windows
  <2>2. Frame(u, r)
    BY <1>2 DEF Frame, Windows, SameLink, SameControl, SameTask, SameTrace
  <2>3. Advances(u.snapshot, g)
    <3>1. PICK o \in Guests : o = u.snapshot
      BY DEF Windows
    <3>2. /\ o.session \in Nat /\ o.generation \in Nat /\ o.sequence \in Nat
          /\ g.session \in Nat /\ g.generation \in Nat /\ g.sequence \in Nat
      BY DEF Guests
    <3>3. o = Absent \/ ~Older(g, o)
      BY <1>2, <3>1
    <3>4. Advances(o, g)
      BY <3>2, <3>3 DEF Older, Advances
    <3>. QED
      BY <3>1, <3>4
  <2>. QED
    BY <2>1, <2>2, <2>3
<1>. QED
  BY <1>1, <1>2 DEF Publish

(* applyObservation changes what is shown, to another observation of the same  *)
(* session, or ends the subscription and says so.                              *)
LEMMA Applies ==
    ASSUME NEW u \in Windows, NEW e \in Events, NEW r, r = Applied(u, e)
    PROVE  /\ r \in Windows /\ r.sends = u.sends /\ Frame(u, r)
           /\ Advances(u.snapshot, r.snapshot)
           /\ \/ SameShown(u, r) /\ r.told = u.told
              \/ r.snapshot = u.snapshot /\ r.subscription = 0 /\ r.told
              \/ /\ r.subscription = u.subscription /\ r.told = u.told
                 /\ u.subscription = e.id /\ u.snapshot # Absent
                 /\ r.snapshot = e.guest /\ SameKey(u.snapshot, e.guest)
           /\ u.subscription = e.id /\ u.snapshot # Absent /\ e.type = "ended" => r.told
<1>1. e.guest \in Guests
  BY DEF Events
<1>2. CASE u.subscription # e.id \/ u.snapshot = Absent
  <2>1. r = u
    BY <1>2 DEF Applied
  <2>. QED
    BY <1>2, <2>1 DEF Frame, SameLink, SameControl, SameTask, SameTrace, SameShown, Advances
<1>3. CASE u.subscription = e.id /\ u.snapshot # Absent /\ e.type = "ended"
  <2>1. PICK v : v = [u EXCEPT !.problem = TRUE, !.told = TRUE]
    OBVIOUS
  <2>2. /\ v \in Windows /\ v.sends = u.sends /\ Frame(u, v) /\ v.told
        /\ v.snapshot = u.snapshot
    BY <2>1 DEF Windows, Frame, SameLink, SameControl, SameTask, SameTrace
  <2>3. r = [v EXCEPT !.subscription = 0]
    BY <1>3, <2>1 DEF Applied
  <2>4. /\ r.sends = v.sends /\ r.snapshot = v.snapshot
        /\ r.subscription = 0 /\ r.told = v.told
    BY <2>2, <2>3 DEF Windows
  <2>6. r \in Windows
    <3>1. v \in Windows
      BY <2>2
    <3>2. \A n \in Nat : [v EXCEPT !.subscription = n] \in Windows
      BY <3>1 DEF Windows
    <3>. QED
      BY <3>2, <2>3
  <2>5. Frame(v, r)
    BY <2>2, <2>3 DEF Frame, Windows, SameLink, SameControl, SameTask, SameTrace
  <2>. QED
    BY <2>2, <2>4, <2>5, <2>6 DEF Advances, Frame, SameLink, SameControl, SameTask, SameTrace
<1>4. CASE u.subscription = e.id /\ u.snapshot # Absent /\ e.type # "ended"
  <2>1. CASE SameKey(u.snapshot, e.guest)
    <3>1. r = Publish(u, e.guest)
      BY <1>4, <2>1 DEF Applied
    <3>. QED
      BY <1>1, <1>4, <2>1, <3>1, Publishes DEF SameShown
  <2>2. CASE ~SameKey(u.snapshot, e.guest)
    <3>1. r = u
      BY <1>4, <2>2 DEF Applied
    <3>. QED
      BY <1>4, <3>1 DEF Frame, SameLink, SameControl, SameTask, SameTrace, SameShown, Advances
  <2>. QED
    BY <2>1, <2>2
<1>. QED
  BY <1>2, <1>3, <1>4

(* What is sent of an event's credit, and what asks for a subscription. *)
AckOf(e) == Call("ack", Absent, e)
AskOf(u) == Call("subscribe", u.snapshot, NoEvent)

(* The calls that the window makes of itself are typed.                       *)
LEMMA CallsTyped ==
    /\ \A e \in Events : /\ AckOf(e) \in Commands /\ AckOf(e).kind = "ack"
                         /\ AckOf(e).event = e
    /\ \A u \in Windows : /\ AskOf(u) \in Commands /\ AskOf(u).kind = "subscribe"
                          /\ AskOf(u).guest = u.snapshot
BY NoneTyped DEF AckOf, AskOf, Call, Commands, Kinds, Windows

(* acknowledge returns credit while attached, and changes nothing else. *)
LEMMA Acknowledges ==
    ASSUME NEW u \in Windows, NEW e \in Events, NEW r, r = Acknowledge(u, e)
    PROVE  /\ r \in Windows /\ Frame(u, r) /\ SameShown(u, r) /\ r.told = u.told
           /\ u.attachment = 0 => r = u
           /\ u.attachment # 0 => r.sends = Append(u.sends, AckOf(e))
<1>1. CASE u.attachment = 0
  BY <1>1 DEF Acknowledge, Frame, SameLink, SameControl, SameTask, SameTrace, SameShown
<1>2. CASE u.attachment # 0
  <2>1. r = [u EXCEPT !.sends = Append(@, AckOf(e))]
    BY <1>2 DEF Acknowledge, AckOf
  <2>2. u.sends \in Seq(Commands) /\ AckOf(e) \in Commands
    BY CallsTyped DEF Windows
  <2>3. Append(u.sends, AckOf(e)) \in Seq(Commands)
    BY <2>2
  <2>4. r \in Windows /\ r.sends = Append(u.sends, AckOf(e))
    BY <2>1, <2>3 DEF Windows
  <2>5. Frame(u, r) /\ SameShown(u, r) /\ r.told = u.told
    BY <2>1 DEF Windows, Frame, SameLink, SameControl, SameTask, SameTrace, SameShown
  <2>. QED
    BY <1>2, <2>4, <2>5
<1>. QED
  BY <1>1, <1>2

(* updateSubscription asks for the session that is shown. *)
LEMMA Asks ==
    ASSUME NEW u \in Windows, NEW r, r = Ask(u)
    PROVE  /\ r \in Windows /\ r.sends = Append(u.sends, AskOf(u))
           /\ SameLink(u, r) /\ SameControl(u, r) /\ SameShown(u, r) /\ SameTrace(u, r)
           /\ r.told = u.told /\ r.pending = u.pending
           /\ r.subscribing /\ ~r.refresh
<1> DEFINE v == [u EXCEPT !.refresh = FALSE, !.subscribing = TRUE]
<1>1. /\ v \in Windows /\ v.sends = u.sends
      /\ SameLink(u, v) /\ SameControl(u, v) /\ SameShown(u, v) /\ SameTrace(u, v)
      /\ v.told = u.told /\ v.pending = u.pending /\ v.subscribing /\ ~v.refresh
  BY DEF Windows, SameLink, SameControl, SameTrace, SameShown
<1>2. r = [v EXCEPT !.sends = Append(@, AskOf(u))]
  BY DEF Ask, Request, AskOf
<1>3. v.sends \in Seq(Commands) /\ AskOf(u) \in Commands
  BY <1>1, CallsTyped DEF Windows
<1>4. Append(v.sends, AskOf(u)) \in Seq(Commands)
  BY <1>3
<1> HIDE DEF v
<1>5. r \in Windows /\ r.sends = Append(v.sends, AskOf(u))
  BY <1>1, <1>2, <1>4 DEF Windows
<1>6. /\ SameLink(v, r) /\ SameControl(v, r) /\ SameShown(v, r) /\ SameTrace(v, r)
      /\ r.told = v.told /\ r.pending = v.pending
      /\ r.subscribing = v.subscribing /\ r.refresh = v.refresh
  BY <1>1, <1>2 DEF Windows, SameLink, SameControl, SameTrace, SameShown
<1>. QED
  BY <1>1, <1>5, <1>6 DEF SameLink, SameControl, SameTrace, SameShown

(* subscribe starts the task, or asks the task under way to ask again; it does *)
(* nothing while no machine is shown, and reports that it is not attached.     *)
LEMMA Subscribes ==
    ASSUME NEW u \in Windows, NEW r, r = Subscribe(u)
    PROVE  /\ r \in Windows
           /\ SameLink(u, r) /\ SameControl(u, r) /\ SameShown(u, r) /\ SameTrace(u, r)
           /\ r.pending = u.pending
           /\ \/ r = u /\ u.snapshot = Absent
              \/ r.sends = u.sends /\ u.subscribing /\ r.subscribing /\ r.refresh /\ r.told = u.told
              \/ /\ r.sends = u.sends /\ ~u.subscribing /\ ~r.subscribing /\ ~r.refresh
                 /\ u.attachment = 0
              \/ /\ r = Ask(u) /\ ~u.subscribing /\ u.attachment # 0 /\ u.snapshot # Absent
                 /\ r.told = u.told
<1>1. CASE u.snapshot = Absent
  BY <1>1 DEF Subscribe, SameLink, SameControl, SameTrace, SameShown
<1>2. CASE u.snapshot # Absent /\ u.subscribing
  <2>1. r = [u EXCEPT !.refresh = TRUE]
    BY <1>2 DEF Subscribe
  <2>. QED
    BY <1>2, <2>1 DEF Windows, SameLink, SameControl, SameTrace, SameShown
<1>3. CASE u.snapshot # Absent /\ ~u.subscribing /\ u.attachment = 0
  <2>1. r = [u EXCEPT !.refresh = FALSE, !.problem = TRUE, !.told = TRUE]
    BY <1>3 DEF Subscribe
  <2>. QED
    BY <1>3, <2>1 DEF Windows, SameLink, SameControl, SameTrace, SameShown
<1>4. CASE u.snapshot # Absent /\ ~u.subscribing /\ u.attachment # 0
  <2>1. r = Ask(u)
    BY <1>4 DEF Subscribe
  <2>. QED
    BY <1>4, <2>1, Asks
<1>. QED
  BY <1>1, <1>2, <1>3, <1>4

(***************************************************************************)
(* The inductive invariant, over a window u with the calls cs it has made  *)
(* so far in its turn, channel ch, supervisor h, number of calls m, last   *)
(* call b before it was attached to its present view, and the event e it   *)
(* has in hand.  Between turns it has none and the state is the variables'.*)
(*                                                                         *)
(* Names are drawn once, and those of an older connection are the older.   *)
(***************************************************************************)
Drawn(n, b, m) == b < n /\ n <= m
Named(e, b, m) == e = NoEvent \/ Drawn(e.id, b, m)

Names(u, cs, ch, h, m, b, e) ==
    /\ b <= m
    /\ \A c \in cs : /\ Drawn(c.id, 0, m) /\ c.epoch <= u.epoch
                     /\ c.epoch = u.epoch => b < c.id
    /\ \A c, d \in cs : c.id = d.id => c = d
    /\ h.subscription = 0 \/ Drawn(h.subscription, b, m)
    /\ Named(h.waiting, b, m) /\ Named(h.latest, b, m)
    /\ \A i \in DOMAIN ch : ch[i].type = "failed" \/ Drawn(ch[i].id, 0, m)
    /\ Named(u.pending, 0, m) /\ Named(e, 0, m)
    /\ u.attachment # 0 => u.subscription = 0 \/ Drawn(u.subscription, b, m)

(* The window is attached to the supervisor's present view or to none, and  *)
(* not connected to a view that has failed only once it has heard of it.    *)
Link(u, ch, h) ==
    /\ u.attachment \in {0, h.view}
    /\ u.connected => u.attachment # 0
    /\ u.attachment # 0 => u.connected \/ h.failed
    /\ h.view = 0 => u.snapshot = Absent /\ ~h.failed
    /\ u.attachment = 0 \/ h.failed => h.subscription = 0 /\ h.waiting = NoEvent
    /\ u.attachment = 0 /\ ~h.failed => ch = <<>>
    /\ h.failed => h.guest = Absent
    /\ h.subscription # 0 => h.guest # Absent
    /\ h.guest # Absent => h.guest.session = h.sessions

(* At most one call connects, while no view is attached; a view without a   *)
(* window has its answer under way; and no other call is of another view.   *)
Connecting(u, c, ch, h) ==
    /\ u.attachment = 0 /\ u.connecting = "attaching" /\ c.epoch = u.epoch
    /\ c.answer.type # "ok" => (h.failed \/ h.view = 0) /\ ch = <<>>
    /\ c.answer.type = "ok" => c.answer.view = h.view /\ h.view # 0
    /\ c.answer.type = "ok" /\ c.answer.guest # Absent => u.snapshot = Absent

Working(u, c, h) ==
    /\ 0 < c.view /\ c.view <= h.view
    /\ c.epoch = u.epoch => u.attachment # 0 /\ c.view = u.attachment
    /\ c.view = h.view /\ ~h.failed => u.attachment # 0 /\ c.epoch = u.epoch

Calling(u, cs, ch, h) ==
    /\ \A c \in cs : IF c.call.kind = "connect" THEN Connecting(u, c, ch, h) ELSE Working(u, c, h)
    /\ \A c, d \in cs : c.call.kind = "connect" /\ d.call.kind = "connect" => c = d
    /\ ~h.failed /\ h.view # 0 /\ u.attachment = 0 =>
         \E c \in cs : c.call.kind = "connect" /\ c.answer.type = "ok"

(* The task has one call out, and so has a control that is requested. *)
Tasks(u, cs) ==
    /\ u.subscribing <=> \E c \in cs : c.call.kind = "subscribe"
    /\ \A c, d \in cs : c.call.kind = "subscribe" /\ d.call.kind = "subscribe" => c = d
    /\ \A c \in cs : c.call.kind \in Controls => u.controlling = "requested"
    /\ \A c, d \in cs : c.call.kind \in Controls /\ d.call.kind \in Controls => c = d
    /\ u.awaited # 0 => u.controlling = "reading"

(* The trace that is shown was read by a call that is gone. *)
Traces(u, cs, m) ==
    /\ u.trace.request <= u.traceRequest /\ u.traceRequest <= m
    /\ \A c \in cs : c.id # u.trace.request

(* Whatever comes from the worker is not later than the worker is. *)
Past(g, h) ==
    \/ g.session < h.sessions
    \/ g.session = h.sessions /\ (h.guest # Absent => g.sequence <= h.guest.sequence)

Pasts(u, cs, ch, h, b, e) ==
    ~h.failed =>
        /\ Past(h.waiting.guest, h) /\ Past(h.latest.guest, h)
        /\ \A i \in DOMAIN ch : Past(ch[i].guest, h)
        /\ \A c \in cs : c.epoch = u.epoch /\ c.answer.type = "ok" => Past(c.answer.guest, h)
        /\ u.attachment # 0 =>
             /\ Past(u.snapshot, h)
             /\ u.pending.id <= b \/ Past(u.pending.guest, h)
             /\ e.id <= b \/ Past(e.guest, h)

(* A load that succeeded brings a session later than the one shown. *)
Loads(u, cs) ==
    \A c \in cs : c.call.kind = "load" /\ c.epoch = u.epoch /\ c.answer.type = "ok" =>
        u.snapshot.session < c.answer.guest.session

(* The event sent and not acknowledged is in exactly one place: the channel, *)
(* the hand of the window, its pending event, or an acknowledgement.         *)
Returns(c, h, b) ==
    c.call.kind = "ack" /\ c.answer.type = "none" /\ c.view = h.view /\ b < c.call.event.id

Credit(u, cs, ch, h, b, e) ==
    /\ \A c \in cs : c.call.kind = "ack" => c.call.event.id # 0
    /\ h.waiting = NoEvent => h.latest = NoEvent
    /\ h.waiting.type # "failed" /\ h.latest.type # "failed"
    /\ ~h.failed /\ u.attachment # 0 =>
        /\ ch = <<>> \/ (ch = <<h.waiting>> /\ h.waiting # NoEvent)
        /\ \A c, d \in cs : Returns(c, h, b) /\ Returns(d, h, b) => c = d
        /\ b < u.pending.id => u.pending = h.waiting /\ ch = <<>>
        /\ b < e.id => e = h.waiting /\ ch = <<>> /\ u.pending.id <= b
        /\ \A c \in cs : Returns(c, h, b) =>
             c.call.event = h.waiting /\ ch = <<>> /\ u.pending.id <= b /\ e.id <= b
        /\ h.waiting # NoEvent =>
             ch # <<>> \/ b < u.pending.id \/ b < e.id \/ \E c \in cs : Returns(c, h, b)

(* While a control is under way the same session is shown. *)
Controlling(u, cs, h) ==
    ~h.failed /\ u.attachment # 0 =>
        \A c \in cs : c.call.kind \in Controls /\ c.epoch = u.epoch =>
            /\ SameKey(c.call.guest, u.snapshot)
            /\ c.call.kind # "load" => c.call.guest # Absent
            /\ c.call.kind \in {"run", "patch", "record"} /\ c.answer.type = "ok" =>
                 SameKey(c.answer.guest, c.call.guest)

(* The supervisor has this subscription; or none, and it is known to end or *)
(* the answer of a control that ends it is under way.                       *)
EndOf(id) == [type |-> "ended", id |-> id, guest |-> Absent]
Changing(u, cs) ==
    \E c \in cs : /\ c.call.kind \in {"load", "reset", "close"}
                  /\ c.epoch = u.epoch /\ c.answer.type = "ok"
Follows(id, u, cs, ch, h, e) ==
    \/ h.subscription = id
    \/ /\ h.subscription = 0
       /\ \/ h.latest = EndOf(id) \/ ch = <<EndOf(id)>>
          \/ u.pending = EndOf(id) \/ e = EndOf(id)
          \/ Changing(u, cs)

Following(u, cs, ch, h, e) ==
    ~h.failed /\ u.attachment # 0 /\ u.snapshot # Absent =>
        /\ \A c \in cs : c.call.kind = "subscribe" /\ c.epoch = u.epoch /\ ~u.refresh =>
             /\ SameKey(u.snapshot, c.call.guest)
             /\ c.answer.type = "ok" => Follows(c.id, u, cs, ch, h, e)
        /\ ~u.subscribing /\ ~u.refresh /\ ~u.told =>
             u.subscription # 0 /\ Follows(u.subscription, u, cs, ch, h, e)

Most(u, cs, ch, h, m, b, e) ==
    /\ Typed(u, cs, ch, h, m) /\ b \in Nat /\ e \in Events
    /\ Names(u, cs, ch, h, m, b, e) /\ Link(u, ch, h) /\ Calling(u, cs, ch, h)
    /\ Tasks(u, cs) /\ Traces(u, cs, m) /\ Pasts(u, cs, ch, h, b, e) /\ Loads(u, cs)
    /\ Credit(u, cs, ch, h, b, e) /\ Controlling(u, cs, h)

(* At the end of a turn nothing is held back that no task would release. *)
Settled(u, h) ==
    /\ ~u.subscribing => u.pending = NoEvent
    /\ ~h.failed /\ u.attachment # 0 /\ ~u.subscribing /\ u.refresh => u.snapshot = Absent

Whole(u, cs, ch, h, m, b) ==
    Most(u, cs, ch, h, m, b, NoEvent) /\ Following(u, cs, ch, h, NoEvent) /\ Settled(u, h)

IInv ==
    /\ ui.sends = <<>>
    /\ \E b \in Nat : Whole(ui, calls, channel, host, made, b)

-----------------------------------------------------------------------------
(* A call is made.                                                         *)

(* The invariant speaks of the window's fields, not of what it sends. *)
LEMMA SameMost ==
    ASSUME NEW u, NEW cs, NEW ch, NEW h, NEW m, NEW b, NEW e, Most(u, cs, ch, h, m, b, e),
           NEW v \in Windows, Frame(u, v), SameShown(u, v)
    PROVE  /\ Most(v, cs, ch, h, m, b, e)
           /\ v.told = u.told /\ Following(u, cs, ch, h, e) => Following(v, cs, ch, h, e)
<1> USE DEF Frame, SameLink, SameControl, SameTask, SameTrace, SameShown
<1>1. Names(v, cs, ch, h, m, b, e)
  BY DEF Most, Names
<1>2. Link(v, ch, h) /\ Calling(v, cs, ch, h)
  BY DEF Most, Link, Calling, Connecting, Working
<1>3. Tasks(v, cs) /\ Traces(v, cs, m) /\ Loads(v, cs) /\ Controlling(v, cs, h)
  BY DEF Most, Tasks, Traces, Loads, Controlling
<1>4. Pasts(v, cs, ch, h, b, e) /\ Credit(v, cs, ch, h, b, e)
  BY DEF Most, Pasts, Credit
<1>5. v.told = u.told /\ Following(u, cs, ch, h, e) => Following(v, cs, ch, h, e)
  BY DEF Following, Follows, Changing
<1>. QED
  BY <1>1, <1>2, <1>3, <1>4, <1>5 DEF Most, Typed

(* A call of the attached window is drawn after all others. *)
LEMMA Adds ==
    ASSUME NEW u, NEW cs, NEW ch, NEW h, NEW m, NEW b, NEW e, Most(u, cs, ch, h, m, b, e),
           u.attachment # 0, NEW x \in Commands, x.kind # "connect",
           NEW y, y = Made(u, x, m + 1)
    PROVE  /\ y \in Records /\ y.call = x /\ y.answer.type = "none" /\ y.epoch = u.epoch
           /\ y.view = h.view
           /\ Typed(u, cs \cup {y}, ch, h, m + 1) /\ Names(u, cs \cup {y}, ch, h, m + 1, b, e)
           /\ Calling(u, cs \cup {y}, ch, h) /\ Traces(u, cs \cup {y}, m + 1)
           /\ Pasts(u, cs \cup {y}, ch, h, b, e) /\ Loads(u, cs \cup {y})
<1>1. u \in Windows /\ cs \subseteq Records /\ h \in Hosts /\ m \in Nat /\ b \in Nat
  BY DEF Most, Typed
<1>2. y \in Records /\ y.call = x /\ y.id = m + 1 /\ y.epoch = u.epoch /\ y.view = u.attachment
      /\ y.answer.type = "none"
  BY <1>1, MadeTyped DEF Unanswered
<1>3. u.attachment = h.view /\ h.view \in Nat /\ u.epoch \in Nat
  BY <1>1 DEF Most, Link, Windows, Hosts
<1>4. Typed(u, cs \cup {y}, ch, h, m + 1)
  BY <1>2 DEF Most, Typed
<1>5. Names(u, cs \cup {y}, ch, h, m + 1, b, e)
  <2>0. b <= m /\ b < m + 1 /\ b <= m + 1
    BY <1>1 DEF Most, Names
  <2>1. \A n \in Nat, k \in Nat : Drawn(n, k, m) => Drawn(n, k, m + 1)
    BY <1>1 DEF Drawn
  <2>2. \A d \in Events, k \in Nat : Named(d, k, m) => Named(d, k, m + 1)
    BY <2>1 DEF Named, Events
  <2>3. \A c \in cs : c.id \in Nat /\ c.id # m + 1 /\ Drawn(c.id, 0, m)
    BY <1>1 DEF Most, Names, Drawn, Records
  <2>4. Drawn(m + 1, 0, m + 1) /\ 0 \in Nat
    BY <1>1 DEF Drawn
  <2>5. /\ \A c \in cs \cup {y} : /\ Drawn(c.id, 0, m + 1) /\ c.epoch <= u.epoch
                                  /\ c.epoch = u.epoch => b < c.id
        /\ \A c, d \in cs \cup {y} : c.id = d.id => c = d
    BY <1>2, <1>3, <2>0, <2>1, <2>3, <2>4 DEF Most, Names
  <2>6. /\ h.subscription \in Nat /\ h.waiting \in Events /\ h.latest \in Events
        /\ u.pending \in Events /\ e \in Events /\ u.subscription \in Nat
    BY DEF Most, Typed, Hosts, Windows
  <2>7. \A i \in DOMAIN ch : ch[i].id \in Nat
    <3>1. \A i \in DOMAIN ch : ch[i] \in Events
      BY DEF Most, Typed
    <3>. QED
      BY <3>1 DEF Events
  <2>. QED
    BY <1>1, <2>0, <2>1, <2>2, <2>4, <2>5, <2>6, <2>7 DEF Most, Names
<1>6. Calling(u, cs \cup {y}, ch, h)
  BY <1>2, <1>3 DEF Most, Calling, Working
<1>7. Traces(u, cs \cup {y}, m + 1)
  <2>1. u.trace.request \in Nat /\ u.traceRequest \in Nat
    BY <1>1 DEF Windows
  <2>. QED
    BY <1>1, <1>2, <2>1 DEF Most, Traces
<1>8. Pasts(u, cs \cup {y}, ch, h, b, e) /\ Loads(u, cs \cup {y})
  BY <1>2 DEF Most, Pasts, Loads
<1>. QED
  BY <1>2, <1>3, <1>4, <1>5, <1>6, <1>7, <1>8

(* A trace is read: nothing waits for the call. *)
LEMMA AddsTrace ==
    ASSUME NEW u, NEW cs, NEW ch, NEW h, NEW m, NEW b, NEW e, Most(u, cs, ch, h, m, b, e),
           u.attachment # 0, NEW x \in Commands, x.kind = "trace"
    PROVE  /\ Most(u, cs \cup {Made(u, x, m + 1)}, ch, h, m + 1, b, e)
           /\ Following(u, cs, ch, h, e) =>
                Following(u, cs \cup {Made(u, x, m + 1)}, ch, h, e)
<1> DEFINE y == Made(u, x, m + 1)
<1>1. /\ y.call = x /\ y.answer.type = "none"
      /\ Typed(u, cs \cup {y}, ch, h, m + 1) /\ Names(u, cs \cup {y}, ch, h, m + 1, b, e)
      /\ Calling(u, cs \cup {y}, ch, h) /\ Traces(u, cs \cup {y}, m + 1)
      /\ Pasts(u, cs \cup {y}, ch, h, b, e) /\ Loads(u, cs \cup {y})
  BY Adds
<1> HIDE DEF y
<1>2. Tasks(u, cs \cup {y}) /\ Controlling(u, cs \cup {y}, h)
  BY <1>1 DEF Most, Tasks, Controlling, Controls
<1>3. Credit(u, cs \cup {y}, ch, h, b, e)
  BY <1>1 DEF Most, Credit, Returns
<1>4. Following(u, cs, ch, h, e) => Following(u, cs \cup {y}, ch, h, e)
  BY <1>1 DEF Following, Follows, Changing
<1>. QED
  BY <1>1, <1>2, <1>3, <1>4 DEF Most, y

(* Credit is returned: the event is in an acknowledgement, and no longer in hand. *)
LEMMA AddsAck ==
    ASSUME NEW u, NEW cs, NEW ch, NEW h, NEW m, NEW b, NEW e, Most(u, cs, ch, h, m, b, e),
           u.attachment # 0, e # NoEvent
    PROVE  /\ Most(u, cs \cup {Made(u, AckOf(e), m + 1)}, ch, h, m + 1, b, NoEvent)
           /\ Following(u, cs, ch, h, NoEvent) =>
                Following(u, cs \cup {Made(u, AckOf(e), m + 1)}, ch, h, NoEvent)
<1> DEFINE y == Made(u, AckOf(e), m + 1)
<1>0. e \in Events /\ AckOf(e) \in Commands /\ AckOf(e).kind = "ack" /\ AckOf(e).event = e
  BY CallsTyped DEF Most
<1>1. /\ y.call = AckOf(e) /\ y.answer.type = "none" /\ y.view = h.view
      /\ Typed(u, cs \cup {y}, ch, h, m + 1) /\ Names(u, cs \cup {y}, ch, h, m + 1, b, e)
      /\ Calling(u, cs \cup {y}, ch, h) /\ Traces(u, cs \cup {y}, m + 1)
      /\ Pasts(u, cs \cup {y}, ch, h, b, e) /\ Loads(u, cs \cup {y})
  BY <1>0, Adds
<1> HIDE DEF y
<1>2. Tasks(u, cs \cup {y}) /\ Controlling(u, cs \cup {y}, h)
  BY <1>0, <1>1 DEF Most, Tasks, Controlling, Controls
<1>3. /\ b \in Nat /\ NoEvent.id = 0 /\ ~(b < NoEvent.id) /\ NoEvent.id <= b
      /\ e.id \in Nat /\ e.id # 0 /\ NoEvent \in Events
      /\ u.pending.id \in Nat
  BY <1>0, NoneTyped DEF Most, Names, Named, Drawn, NoEvent, Events, Typed, Windows
<1>4. Names(u, cs \cup {y}, ch, h, m + 1, b, NoEvent) /\ Pasts(u, cs \cup {y}, ch, h, b, NoEvent)
  BY <1>1, <1>3 DEF Names, Named, Pasts
<1>5. Credit(u, cs \cup {y}, ch, h, b, NoEvent)
  <2>1. \A c \in cs : Returns(c, h, b) => e.id <= b \/ h.failed
    BY DEF Most, Credit
  <2>2. Returns(y, h, b) <=> b < e.id
    BY <1>0, <1>1 DEF Returns
  <2>3. b < e.id <=> ~(e.id <= b)
    BY <1>3
  <2>. QED
    BY <1>0, <1>1, <1>3, <2>1, <2>2, <2>3 DEF Most, Credit
<1>6. Following(u, cs, ch, h, NoEvent) => Following(u, cs \cup {y}, ch, h, NoEvent)
  BY <1>0, <1>1 DEF Following, Follows, Changing
<1>. QED
  BY <1>1, <1>2, <1>3, <1>4, <1>5, <1>6 DEF Most, y

(* The states of connecting and of a control change, as long as no call that *)
(* connects or controls is forgotten.                                        *)
LEMMA ChangesControl ==
    ASSUME NEW u, NEW cs, NEW ch, NEW h, NEW m, NEW b, NEW e, Most(u, cs, ch, h, m, b, e),
           NEW v \in Windows, SameLink(u, v), SameShown(u, v), SameTask(u, v), SameTrace(u, v),
           v.connecting = u.connecting \/ \A c \in cs : c.call.kind # "connect",
           v.controlling = u.controlling \/ \A c \in cs : c.call.kind \notin Controls,
           v.awaited # 0 => v.controlling = "reading"
    PROVE  /\ Most(v, cs, ch, h, m, b, e)
           /\ v.told = u.told /\ Following(u, cs, ch, h, e) => Following(v, cs, ch, h, e)
<1> USE DEF SameLink, SameTask, SameTrace, SameShown
<1>1. Names(v, cs, ch, h, m, b, e)
  BY DEF Most, Names
<1>2. Link(v, ch, h)
  BY DEF Most, Link
<1>3. Calling(v, cs, ch, h)
  BY DEF Most, Calling, Connecting, Working
<1>4. Tasks(v, cs) /\ Traces(v, cs, m) /\ Loads(v, cs) /\ Controlling(v, cs, h)
  BY DEF Most, Tasks, Traces, Loads, Controlling
<1>5. Pasts(v, cs, ch, h, b, e) /\ Credit(v, cs, ch, h, b, e)
  BY DEF Most, Pasts, Credit
<1>6. v.told = u.told /\ Following(u, cs, ch, h, e) => Following(v, cs, ch, h, e)
  BY DEF Following, Follows, Changing
<1>. QED
  BY <1>1, <1>2, <1>3, <1>4, <1>5, <1>6 DEF Most, Typed

(* A control is requested, of the machine that is shown. *)
LEMMA AddsControl ==
    ASSUME NEW u, NEW cs, NEW ch, NEW h, NEW m, NEW b, NEW e, Most(u, cs, ch, h, m, b, e),
           u.attachment # 0, u.controlling = "requested",
           \A c \in cs : c.call.kind \notin Controls,
           NEW x \in Commands, x.kind \in Controls, x.guest = u.snapshot,
           x.kind # "load" => x.guest # Absent
    PROVE  /\ Most(u, cs \cup {Made(u, x, m + 1)}, ch, h, m + 1, b, e)
           /\ Following(u, cs, ch, h, e) =>
                Following(u, cs \cup {Made(u, x, m + 1)}, ch, h, e)
<1> DEFINE y == Made(u, x, m + 1)
<1>0. x.kind # "connect" /\ x.kind # "subscribe" /\ x.kind # "ack"
  BY DEF Controls
<1>1. /\ y.call = x /\ y.answer.type = "none"
      /\ Typed(u, cs \cup {y}, ch, h, m + 1) /\ Names(u, cs \cup {y}, ch, h, m + 1, b, e)
      /\ Calling(u, cs \cup {y}, ch, h) /\ Traces(u, cs \cup {y}, m + 1)
      /\ Pasts(u, cs \cup {y}, ch, h, b, e) /\ Loads(u, cs \cup {y})
  BY <1>0, Adds
<1> HIDE DEF y
<1>2. Tasks(u, cs \cup {y}) /\ Controlling(u, cs \cup {y}, h)
  BY <1>0, <1>1 DEF Most, Tasks, Controlling, SameKey
<1>3. Credit(u, cs \cup {y}, ch, h, b, e)
  BY <1>0, <1>1 DEF Most, Credit, Returns
<1>4. Following(u, cs, ch, h, e) => Following(u, cs \cup {y}, ch, h, e)
  BY <1>0, <1>1 DEF Following, Follows, Changing
<1>. QED
  BY <1>1, <1>2, <1>3, <1>4 DEF Most, y

(* The task asks: it has one call out, for the session that is shown. *)
LEMMA AddsAsk ==
    ASSUME NEW u, NEW cs, NEW ch, NEW h, NEW m, NEW b, NEW e, Most(u, cs, ch, h, m, b, e),
           u.attachment # 0, ~u.subscribing, NEW r, r = Ask(u)
    PROVE  /\ Most(r, cs \cup {Made(u, AskOf(u), m + 1)}, ch, h, m + 1, b, e)
           /\ Following(r, cs \cup {Made(u, AskOf(u), m + 1)}, ch, h, e)
<1> DEFINE y == Made(u, AskOf(u), m + 1)
<1>0. u \in Windows /\ AskOf(u) \in Commands /\ AskOf(u).kind = "subscribe"
      /\ AskOf(u).guest = u.snapshot
  BY CallsTyped DEF Most, Typed
<1>1. /\ y.call = AskOf(u) /\ y.answer.type = "none"
      /\ Typed(u, cs \cup {y}, ch, h, m + 1) /\ Names(u, cs \cup {y}, ch, h, m + 1, b, e)
      /\ Calling(u, cs \cup {y}, ch, h) /\ Traces(u, cs \cup {y}, m + 1)
      /\ Pasts(u, cs \cup {y}, ch, h, b, e) /\ Loads(u, cs \cup {y})
  BY <1>0, Adds
<1>2. /\ r \in Windows /\ r.subscribing /\ ~r.refresh /\ r.pending = u.pending
      /\ SameLink(u, r) /\ SameControl(u, r) /\ SameShown(u, r) /\ SameTrace(u, r)
  BY <1>0, Asks
<1> HIDE DEF y
<1>3. \A c \in cs : c.call.kind # "subscribe"
  BY DEF Most, Tasks
<1> USE DEF SameLink, SameControl, SameShown, SameTrace
<1>4. Names(r, cs \cup {y}, ch, h, m + 1, b, e)
  BY <1>1, <1>2 DEF Names
<1>5. Link(r, ch, h) /\ Calling(r, cs \cup {y}, ch, h)
  BY <1>1, <1>2 DEF Most, Link, Calling, Connecting, Working
<1>6. Traces(r, cs \cup {y}, m + 1) /\ Loads(r, cs \cup {y}) /\ Pasts(r, cs \cup {y}, ch, h, b, e)
  BY <1>1, <1>2 DEF Traces, Loads, Pasts
<1>7. Tasks(r, cs \cup {y})
  BY <1>0, <1>1, <1>2, <1>3 DEF Most, Tasks, Controls
<1>8. Controlling(r, cs \cup {y}, h)
  BY <1>0, <1>1, <1>2 DEF Most, Controlling, Controls
<1>9. Credit(r, cs \cup {y}, ch, h, b, e)
  BY <1>0, <1>1, <1>2 DEF Most, Credit, Returns
<1>10. Following(r, cs \cup {y}, ch, h, e)
  BY <1>0, <1>1, <1>2, <1>3 DEF Following, SameKey
<1>. QED
  BY <1>1, <1>2, <1>4, <1>5, <1>6, <1>7, <1>8, <1>9, <1>10 DEF Most, Typed, y

-----------------------------------------------------------------------------
(* The turn of the window, from call to call.                              *)

Turning(u, left, ch, h, m, b, e) == Most(u, left \cup Sent(u, m), ch, h, m + Len(u.sends), b, e)
Tracking(u, left, ch, h, m, e) == Following(u, left \cup Sent(u, m), ch, h, e)

(* subscribe, wherever it is called, leaves the machine that is shown followed. *)
LEMMA TurnSubscribes ==
    ASSUME NEW u \in Windows, NEW left, NEW ch, NEW h, NEW m \in Nat, NEW b,
           Turning(u, left, ch, h, m, b, NoEvent), NEW r, r = Subscribe(u)
    PROVE  /\ Turning(r, left, ch, h, m, b, NoEvent) /\ Tracking(r, left, ch, h, m, NoEvent)
           /\ ~h.failed /\ r.attachment # 0 /\ ~r.subscribing /\ r.refresh => r.snapshot = Absent
           /\ \A c \in left \cup Sent(r, m) :
                c \in left \cup Sent(u, m) \/ c.call.kind = "subscribe"
<1> DEFINE cs == left \cup Sent(u, m)
           n == m + Len(u.sends)
<1>0. Most(u, cs, ch, h, n, b, NoEvent)
  BY DEF Turning
<1>1. /\ r \in Windows /\ r.pending = u.pending
      /\ SameLink(u, r) /\ SameControl(u, r) /\ SameShown(u, r) /\ SameTrace(u, r)
  BY Subscribes
<1>2. CASE r = Ask(u) /\ ~u.subscribing /\ u.attachment # 0
  <2>1. /\ Most(r, cs \cup {Made(u, AskOf(u), n + 1)}, ch, h, n + 1, b, NoEvent)
        /\ Following(r, cs \cup {Made(u, AskOf(u), n + 1)}, ch, h, NoEvent)
    BY <1>0, <1>2, AddsAsk
  <2>2. r.sends = Append(u.sends, AskOf(u)) /\ AskOf(u) \in Commands /\ r.subscribing
    BY <1>2, Asks, CallsTyped
  <2>3. left \cup Sent(r, m) = cs \cup {Made(u, AskOf(u), n + 1)} /\ m + Len(r.sends) = n + 1
    <3>1. SameLink(u, r)
      BY <1>1
    <3>2. r \in Windows /\ AskOf(u) \in Commands /\ OneMore(u, r, AskOf(u))
      BY <1>1, <2>2 DEF OneMore
    <3>3. SentMore(u, r, m, AskOf(u))
      <4> HIDE DEF n, cs
      <4>. QED
        BY <3>1, <3>2, SentGrows
    <3>. QED
      BY <3>3 DEF SentMore
  <2>4. Made(u, AskOf(u), n + 1).call.kind = "subscribe"
    BY CallsTyped DEF Made
  <2>. QED
    BY <2>1, <2>2, <2>3, <2>4 DEF Turning, Tracking
<1>3. CASE /\ r.sends = u.sends
           /\ \/ r = u /\ u.snapshot = Absent
              \/ u.subscribing /\ r.subscribing /\ r.refresh
              \/ ~u.subscribing /\ ~r.subscribing /\ ~r.refresh /\ u.attachment = 0
  <2>1. Sent(r, m) = Sent(u, m)
    BY <1>1, <1>3, SentSame
  <2> HIDE DEF cs, n
  <2>2. r.subscribing = u.subscribing /\ r.snapshot = u.snapshot /\ r.attachment = u.attachment
    BY <1>1, <1>3 DEF Windows, SameShown, SameLink
  <2>3. Following(r, cs, ch, h, NoEvent)
    BY <1>3, <2>2 DEF Following
  <2> USE <1>1, <2>2 DEF SameLink, SameControl, SameShown, SameTrace
  <2>4. Names(r, cs, ch, h, n, b, NoEvent) /\ Traces(r, cs, n) /\ Loads(r, cs)
    BY <1>0 DEF Most, Names, Traces, Loads
  <2>5. Link(r, ch, h) /\ Calling(r, cs, ch, h)
    BY <1>0 DEF Most, Link, Calling, Connecting, Working
  <2>6. Tasks(r, cs) /\ Controlling(r, cs, h)
    BY <1>0 DEF Most, Tasks, Controlling
  <2>7. Pasts(r, cs, ch, h, b, NoEvent) /\ Credit(r, cs, ch, h, b, NoEvent)
    BY <1>0 DEF Most, Pasts, Credit
  <2>8. Most(r, cs, ch, h, n, b, NoEvent)
    BY <1>0, <2>4, <2>5, <2>6, <2>7 DEF Most, Typed
  <2>9. ~h.failed /\ r.attachment # 0 /\ ~r.subscribing /\ r.refresh => r.snapshot = Absent
    BY <1>3
  <2>. QED
    BY <1>3, <2>1, <2>3, <2>8, <2>9 DEF Turning, Tracking, cs, n
<1>4. r.sends = u.sends \/ r = Ask(u)
  BY Subscribes
<1>. QED
  BY <1>2, <1>3, <1>4, Subscribes

(* An event in hand is applied, and what it changes is as the worker said. *)
LEMMA AppliesMost ==
    ASSUME NEW u, NEW cs, NEW ch, NEW h, NEW m, NEW b, NEW e, Most(u, cs, ch, h, m, b, e),
           e # NoEvent, NEW r, r = Applied(u, e)
    PROVE  /\ Most(r, cs, ch, h, m, b, e)
           /\ ~u.subscribing /\ Following(u, cs, ch, h, e) => Following(r, cs, ch, h, NoEvent)
<1>0. u \in Windows /\ e \in Events /\ u.snapshot \in Guests /\ e.guest \in Guests
  <2>1. u \in Windows /\ e \in Events
    BY DEF Most, Typed
  <2>. QED
    BY <2>1 DEF Windows, Events
<1>1. /\ r \in Windows /\ Frame(u, r)
      /\ \/ SameShown(u, r) /\ r.told = u.told
         \/ r.snapshot = u.snapshot /\ r.subscription = 0 /\ r.told
         \/ /\ r.subscription = u.subscription /\ r.told = u.told
            /\ u.subscription = e.id /\ u.snapshot # Absent
            /\ r.snapshot = e.guest /\ SameKey(u.snapshot, e.guest)
      /\ u.subscription = e.id /\ u.snapshot # Absent /\ e.type = "ended" => r.told
  BY <1>0, Applies
<1>2. SameLink(u, r) /\ SameControl(u, r) /\ SameTask(u, r) /\ SameTrace(u, r)
  BY <1>1 DEF Frame
<1>3. \/ r.snapshot = u.snapshot
      \/ /\ r.snapshot = e.guest /\ SameKey(u.snapshot, e.guest) /\ u.snapshot # Absent
         /\ e.guest # Absent /\ u.subscription = e.id
  BY <1>0, <1>1 DEF SameShown, SameKey, Guests, Absent
<1>4. r.subscription \in {0, u.subscription}
  BY <1>1 DEF SameShown
<1>5. Names(r, cs, ch, h, m, b, e)
  BY <1>2, <1>4 DEF Most, Names, SameLink, SameTask
<1>6. Link(r, ch, h) /\ Calling(r, cs, ch, h)
  BY <1>2, <1>3 DEF Most, Link, Calling, Connecting, Working, SameLink, SameControl
<1>7. Tasks(r, cs) /\ Traces(r, cs, m)
  BY <1>2 DEF Most, Tasks, Traces, SameTask, SameControl, SameTrace
<1>8. Pasts(r, cs, ch, h, b, e)
  <2>1. u.attachment # 0 /\ ~h.failed /\ r.snapshot # u.snapshot => Past(e.guest, h)
    <3>1. SUFFICES ASSUME u.attachment # 0, ~h.failed, r.snapshot # u.snapshot
                   PROVE  Past(e.guest, h)
      OBVIOUS
    <3>2. e.id # 0 /\ u.subscription = e.id
      BY <1>0, <1>3, <3>1 DEF Most, Names, Named, Drawn, Events
    <3>3. b < e.id /\ b \in Nat /\ e.id \in Nat
      BY <1>0, <3>1, <3>2 DEF Most, Names, Drawn, Events
    <3>. QED
      BY <3>1, <3>3 DEF Most, Pasts
  <2>. QED
    BY <1>2, <1>3, <2>1 DEF Most, Pasts, SameLink, SameTask
<1>9. Loads(r, cs) /\ Controlling(r, cs, h)
  BY <1>2, <1>3 DEF Most, Loads, Controlling, SameLink, SameKey
<1>10. Credit(r, cs, ch, h, b, e)
  BY <1>2 DEF Most, Credit, SameLink, SameTask
<1>11. ~u.subscribing /\ Following(u, cs, ch, h, e) => Following(r, cs, ch, h, NoEvent)
  <2>1. SUFFICES ASSUME ~u.subscribing, Following(u, cs, ch, h, e),
                        ~h.failed, r.attachment # 0, r.snapshot # Absent
                 PROVE  /\ \A c \in cs : c.call.kind # "subscribe"
                        /\ ~r.subscribing /\ ~r.refresh /\ ~r.told =>
                             /\ r.subscription # 0
                             /\ Follows(r.subscription, r, cs, ch, h, NoEvent)
    BY DEF Following
  <2>2. \A c \in cs : c.call.kind # "subscribe"
    BY <2>1 DEF Most, Tasks
  <2>3. SUFFICES ASSUME ~r.refresh, ~r.told
                 PROVE  /\ r.subscription # 0
                        /\ Follows(r.subscription, r, cs, ch, h, NoEvent)
    BY <2>2
  <2>4. u.snapshot # Absent /\ r.subscription = u.subscription /\ r.told = u.told
    BY <1>1, <1>3, <2>1, <2>3 DEF SameShown
  <2>5. u.subscription # 0 /\ Follows(u.subscription, u, cs, ch, h, e)
    BY <1>2, <2>1, <2>3, <2>4 DEF Following, SameLink, SameTask
  <2>6. e # EndOf(u.subscription)
    BY <1>1, <2>3, <2>4 DEF EndOf
  <2>. QED
    BY <1>2, <2>4, <2>5, <2>6 DEF Follows, Changing, SameLink, SameTask
<1>. QED
  BY <1>1, <1>5, <1>6, <1>7, <1>8, <1>9, <1>10, <1>11 DEF Most, Typed

(* receive, while nothing is asked for, leaves nothing in hand. *)
LEMMA TurnTakes ==
    ASSUME NEW u \in Windows, NEW left, NEW ch, NEW h, NEW m \in Nat, NEW b, NEW e,
           Turning(u, left, ch, h, m, b, e), Tracking(u, left, ch, h, m, e),
           ~u.subscribing, e # NoEvent, NEW r, r = Acknowledge(Applied(u, e), e)
    PROVE  /\ Turning(r, left, ch, h, m, b, NoEvent) /\ Tracking(r, left, ch, h, m, NoEvent)
           /\ r \in Windows /\ SameLink(u, r) /\ SameControl(u, r) /\ SameTask(u, r)
           /\ SameTrace(u, r) /\ Advances(u.snapshot, r.snapshot)
<1> DEFINE cs == left \cup Sent(u, m)
           n == m + Len(u.sends)
<1>0. Most(u, cs, ch, h, n, b, e) /\ Following(u, cs, ch, h, e) /\ e \in Events
  BY DEF Turning, Tracking, Most
<1>1. PICK v : v = Applied(u, e)
  OBVIOUS
<1>2. v \in Windows /\ v.sends = u.sends /\ Frame(u, v) /\ Advances(u.snapshot, v.snapshot)
  BY <1>0, <1>1, Applies
<1>3. Most(v, cs, ch, h, n, b, e) /\ Following(v, cs, ch, h, NoEvent)
  BY <1>0, <1>1, AppliesMost
<1>4. Sent(v, m) = Sent(u, m)
  BY <1>2, SentSame DEF Frame
<1>5. r = Acknowledge(v, e)
  BY <1>1
<1>6. /\ r \in Windows /\ Frame(v, r) /\ SameShown(v, r) /\ r.told = v.told
      /\ v.attachment = 0 => r = v
      /\ v.attachment # 0 => r.sends = Append(v.sends, AckOf(e))
  BY <1>0, <1>2, <1>5, Acknowledges
<1>7. SameLink(u, r) /\ SameControl(u, r) /\ SameTask(u, r) /\ SameTrace(u, r)
  BY <1>2, <1>6 DEF Frame, SameLink, SameControl, SameTask, SameTrace
<1>8. Advances(u.snapshot, r.snapshot)
  BY <1>2, <1>6 DEF SameShown
<1>9. CASE v.attachment = 0
  <2>1. r = v /\ r.sends = u.sends
    BY <1>2, <1>6, <1>9
  <2>2. Most(v, cs, ch, h, n, b, NoEvent)
    <3>1. Names(v, cs, ch, h, n, b, NoEvent)
      BY <1>3 DEF Most, Names, Named
    <3>2. Pasts(v, cs, ch, h, b, NoEvent) /\ Credit(v, cs, ch, h, b, NoEvent)
      BY <1>3, <1>9 DEF Most, Pasts, Credit
    <3>. QED
      BY <1>3, <3>1, <3>2, NoneTyped DEF Most
  <2>. QED
    BY <1>3, <1>4, <1>6, <1>7, <1>8, <2>1, <2>2 DEF Turning, Tracking
<1>10. CASE v.attachment # 0
  <2> DEFINE y == Made(v, AckOf(e), n + 1)
  <2>1. Most(v, cs \cup {y}, ch, h, n + 1, b, NoEvent) /\ Following(v, cs \cup {y}, ch, h, NoEvent)
    BY <1>3, <1>10, AddsAck
  <2>2. AckOf(e) \in Commands /\ SameLink(v, r) /\ r.sends = Append(v.sends, AckOf(e))
    BY <1>0, <1>6, <1>10, CallsTyped DEF Frame
  <2>3. Sent(r, m) = Sent(v, m) \cup {Made(v, AckOf(e), m + Len(v.sends) + 1)}
        /\ m + Len(r.sends) = m + Len(v.sends) + 1
    <3>1. v \in Windows /\ r \in Windows /\ SameLink(v, r)
      BY <1>2, <1>6, <2>2
    <3>2. AckOf(e) \in Commands /\ OneMore(v, r, AckOf(e))
      BY <2>2 DEF OneMore
    <3>3. SentMore(v, r, m, AckOf(e))
      <4> HIDE DEF cs, n, y
      <4>. QED
        BY <3>1, <3>2, SentGrows
    <3>. QED
      BY <3>3 DEF SentMore
  <2>4. left \cup Sent(r, m) = cs \cup {y} /\ m + Len(r.sends) = n + 1
    BY <1>2, <1>4, <2>3
  <2>5. Most(r, cs \cup {y}, ch, h, n + 1, b, NoEvent) /\ Following(r, cs \cup {y}, ch, h, NoEvent)
    BY <1>6, <2>1, SameMost
  <2>. QED
    BY <1>6, <1>7, <1>8, <2>4, <2>5 DEF Turning, Tracking
<1>. QED
  BY <1>9, <1>10

(***************************************************************************)
(* The task ends, of window w that may have the subscription it asked for: *)
(* u is the window when the answer c came.                                 *)
(***************************************************************************)
Released(w, idle) ==
    /\ SameLink(w, idle) /\ SameShown(w, idle) /\ SameTrace(w, idle)
    /\ idle.awaited = w.awaited /\ idle.told = w.told /\ idle.refresh = w.refresh
    /\ ~idle.subscribing /\ idle.pending = NoEvent
    /\ idle.connecting = Freed(w.connecting) /\ idle.controlling = Freed(w.controlling)

Taken(u, c, w) ==
    /\ SameLink(u, w) /\ SameControl(u, w) /\ SameTask(u, w) /\ SameTrace(u, w)
    /\ w.snapshot = u.snapshot
    /\ \/ w.subscription = u.subscription
       \/ w.subscription = c.id /\ c.epoch = u.epoch

(* The end of a subscription task: the event held back is taken and its       *)
(* credit returned, and another subscription is asked for when one is due.    *)
LEMMA Ends ==
    ASSUME NEW w \in Windows
    PROVE  \E idle, after :
             /\ idle \in Windows /\ Released(w, idle) /\ idle.sends = w.sends
             /\ w.pending = NoEvent => after = idle
             /\ w.pending # NoEvent => after = Acknowledge(Applied(idle, w.pending), w.pending)
             /\ after.refresh => Ended(w) = Subscribe(after)
             /\ ~after.refresh => Ended(w) = after
<1>1. PICK v : v = [w EXCEPT !.subscribing = FALSE, !.pending = NoEvent]
  OBVIOUS
<1>2. /\ v \in Windows /\ v.sends = w.sends /\ SameLink(w, v) /\ SameControl(w, v)
      /\ SameShown(w, v) /\ SameTrace(w, v) /\ v.told = w.told /\ v.refresh = w.refresh
      /\ ~v.subscribing /\ v.pending = NoEvent
  BY <1>1, NoneTyped DEF Windows, SameLink, SameControl, SameShown, SameTrace
<1>3. PICK idle : idle = [v EXCEPT !.connecting = Freed(@), !.controlling = Freed(@)]
  OBVIOUS
<1>4. idle \in Windows
  <2>1. v \in Windows
    BY <1>2
  <2>2. /\ Freed(v.connecting) \in {"no", "attaching", "subscribing"}
        /\ Freed(v.controlling) \in {"no", "requested", "subscribing", "reading"}
    BY <2>1 DEF Freed, Windows
  <2>. QED
    BY <1>3, <2>1, <2>2 DEF Windows
<1>5. Released(w, idle) /\ idle.sends = w.sends
  <2>1. v \in Windows
    BY <1>2
  <2>2. /\ SameLink(v, idle) /\ SameShown(v, idle) /\ SameTrace(v, idle)
        /\ idle.awaited = v.awaited /\ idle.told = v.told /\ idle.refresh = v.refresh
        /\ idle.subscribing = v.subscribing /\ idle.pending = v.pending
        /\ idle.connecting = Freed(v.connecting) /\ idle.controlling = Freed(v.controlling)
        /\ idle.sends = v.sends
    BY <1>3, <2>1 DEF Windows, SameLink, SameShown, SameTrace
  <2>. QED
    BY <1>2, <2>2 DEF Released, SameLink, SameControl, SameShown, SameTrace
<1>6. PICK after : after = IF w.pending = NoEvent THEN idle
                           ELSE Acknowledge(Applied(idle, w.pending), w.pending)
  OBVIOUS
<1>7. idle = [w EXCEPT !.subscribing = FALSE, !.pending = NoEvent,
                       !.connecting = Freed(@), !.controlling = Freed(@)]
  BY <1>1, <1>3 DEF Windows
<1>8. w.pending # NoEvent => Receive(idle, w.pending) = after
  BY <1>5, <1>6 DEF Receive, Released
<1>9. Ended(w) = IF after.refresh THEN Subscribe(after) ELSE after
  BY <1>6, <1>7, <1>8 DEF Ended
<1>. QED
  BY <1>4, <1>5, <1>6, <1>9

(* When the task has its answer the event held back is in hand. *)
LEMMA Releases ==
    ASSUME NEW u, NEW cs, NEW ch, NEW h, NEW m, NEW b, Most(u, cs, ch, h, m, b, NoEvent),
           NEW c \in cs, c.call.kind = "subscribe",
           NEW w \in Windows, Taken(u, c, w), NEW idle \in Windows, Released(w, idle)
    PROVE  /\ Most(idle, cs \ {c}, ch, h, m, b, u.pending)
           /\ \/ idle.told
              \/ /\ Following(u, cs, ch, h, NoEvent) /\ c.epoch = u.epoch
                 /\ \/ ~SameKey(u.snapshot, c.call.guest)
                    \/ w.subscription = c.id /\ c.answer.type = "ok"
              => Following(idle, cs \ {c}, ch, h, u.pending)
<1> DEFINE ds == cs \ {c}
           e == u.pending
<1>0. /\ u \in Windows /\ e \in Events /\ m \in Nat /\ b \in Nat /\ idle.pending.id = 0
      /\ NoEvent.id = 0 /\ c \in Records /\ e.id \in Nat
  <2>1. u \in Windows /\ m \in Nat /\ b \in Nat /\ c \in Records
    BY DEF Most, Typed
  <2>2. e \in Events
    BY <2>1 DEF Windows
  <2>. QED
    BY <2>1, <2>2 DEF Released, NoEvent, Events
<1>1. /\ SameLink(u, idle) /\ SameTrace(u, idle) /\ idle.snapshot = u.snapshot
      /\ idle.subscription = w.subscription /\ idle.awaited = u.awaited
      /\ idle.refresh = u.refresh /\ ~idle.subscribing /\ idle.pending = NoEvent
      /\ w.subscription = u.subscription \/ (w.subscription = c.id /\ c.epoch = u.epoch)
  BY DEF Released, Taken, SameLink, SameControl, SameTask, SameTrace, SameShown
<1>2. /\ u.connecting = "attaching" => idle.connecting = "attaching"
      /\ u.controlling = "requested" => idle.controlling = "requested"
      /\ u.controlling = "reading" => idle.controlling = "reading"
  BY DEF Released, Taken, SameControl, Freed
<1>3. \A d \in cs : d.call.kind = "subscribe" => d = c
  BY DEF Most, Tasks
<1>4. Names(idle, ds, ch, h, m, b, e)
  <2>1. c.epoch = u.epoch => Drawn(c.id, b, m)
    BY DEF Most, Names, Drawn
  <2>. QED
    BY <1>1, <2>1 DEF Most, Names, Named, SameLink
<1>5. Link(idle, ch, h) /\ Calling(idle, ds, ch, h)
  BY <1>1, <1>2 DEF Most, Link, Calling, Connecting, Working, SameLink
<1>6. Tasks(idle, ds)
  BY <1>1, <1>2, <1>3 DEF Most, Tasks
<1>7. Traces(idle, ds, m) /\ Loads(idle, ds) /\ Controlling(idle, ds, h)
  BY <1>1 DEF Most, Traces, Loads, Controlling, SameTrace, SameLink
<1>8. Pasts(idle, ds, ch, h, b, e)
  BY <1>0, <1>1 DEF Most, Pasts, SameLink
<1>9. Credit(idle, ds, ch, h, b, e)
  <2>1. \A d \in cs : Returns(d, h, b) => d # c
    BY DEF Returns
  <2>2. ~(b < 0) /\ 0 <= b
    BY <1>0
  <2>. QED
    BY <1>0, <1>1, <2>1, <2>2 DEF Most, Credit, SameLink
<1>10. ASSUME \/ idle.told
              \/ /\ Following(u, cs, ch, h, NoEvent) /\ c.epoch = u.epoch
                 /\ \/ ~SameKey(u.snapshot, c.call.guest)
                    \/ w.subscription = c.id /\ c.answer.type = "ok"
       PROVE  Following(idle, ds, ch, h, e)
  <2>1. SUFFICES ASSUME ~h.failed, idle.attachment # 0, idle.snapshot # Absent,
                        ~idle.refresh, ~idle.told
                 PROVE  /\ idle.subscription # 0
                        /\ Follows(idle.subscription, idle, ds, ch, h, e)
    BY <1>3 DEF Following
  <2>2. /\ Following(u, cs, ch, h, NoEvent) /\ c.epoch = u.epoch
        /\ \/ ~SameKey(u.snapshot, c.call.guest)
           \/ w.subscription = c.id /\ c.answer.type = "ok"
    BY <1>10, <2>1
  <2>3. u.attachment # 0 /\ u.snapshot # Absent /\ ~u.refresh
    BY <1>1, <2>1 DEF SameLink
  <2>4. /\ SameKey(u.snapshot, c.call.guest)
        /\ c.answer.type = "ok" => Follows(c.id, u, cs, ch, h, NoEvent)
    BY <2>1, <2>2, <2>3 DEF Following
  <2>5. w.subscription = c.id /\ c.answer.type = "ok"
    BY <2>2, <2>4
  <2>6. c.id # 0
    BY <1>0 DEF Most, Names, Drawn, Records
  <2>7. Follows(c.id, u, cs, ch, h, NoEvent) => Follows(c.id, idle, ds, ch, h, e)
    <3>1. NoEvent # EndOf(c.id)
      BY DEF NoEvent, EndOf
    <3>2. Changing(u, cs) => Changing(idle, ds)
      BY <1>1 DEF Changing, SameLink
    <3>. QED
      BY <3>1, <3>2 DEF Follows
  <2>. QED
    BY <1>1, <2>4, <2>5, <2>6, <2>7
<1>. QED
  BY <1>0, <1>4, <1>5, <1>6, <1>7, <1>8, <1>9, <1>10 DEF Most, Typed

(* The end of the task, with all that it does in the same turn. *)
LEMMA TurnEndsTask ==
    ASSUME NEW u, NEW cs, NEW ch, NEW h, NEW m, NEW b, Most(u, cs, ch, h, m, b, NoEvent),
           NEW c \in cs, c.call.kind = "subscribe", NEW w \in Windows, Taken(u, c, w),
           w.sends = <<>>, NEW r, r = Ended(w),
           \/ w.told
           \/ /\ Following(u, cs, ch, h, NoEvent) /\ c.epoch = u.epoch
              /\ \/ ~SameKey(u.snapshot, c.call.guest)
                 \/ w.subscription = c.id /\ c.answer.type = "ok"
    PROVE  /\ r \in Windows /\ SameLink(u, r) /\ SameTrace(u, r) /\ Advances(u.snapshot, r.snapshot)
           /\ Turning(r, cs \ {c}, ch, h, m, b, NoEvent)
           /\ Tracking(r, cs \ {c}, ch, h, m, NoEvent) /\ Settled(r, h)
<1> DEFINE left == cs \ {c}
<1>0. u \in Windows /\ m \in Nat /\ u.pending = w.pending /\ w.snapshot = u.snapshot
  BY DEF Most, Typed, Taken, SameTask
<1>1. PICK idle, after :
             /\ idle \in Windows /\ Released(w, idle) /\ idle.sends = w.sends
             /\ w.pending = NoEvent => after = idle
             /\ w.pending # NoEvent => after = Acknowledge(Applied(idle, w.pending), w.pending)
             /\ after.refresh => Ended(w) = Subscribe(after)
             /\ ~after.refresh => Ended(w) = after
  BY Ends
<1>2. idle.told = w.told
  BY <1>1 DEF Released
<1>3. /\ Most(idle, left, ch, h, m, b, u.pending) /\ Following(idle, left, ch, h, u.pending)
  BY <1>1, <1>2, Releases
<1>4. left \cup Sent(idle, m) = left /\ m + Len(idle.sends) = m
  <2>1. Sent(idle, m) = {}
    BY <1>0, <1>1, SentNone
  <2>2. Len(idle.sends) = 0
    BY <1>1
  <2>. QED
    BY <1>0, <2>1, <2>2
<1>5. Turning(idle, left, ch, h, m, b, w.pending) /\ Tracking(idle, left, ch, h, m, w.pending)
  BY <1>0, <1>3, <1>4 DEF Turning, Tracking
<1>6. /\ SameLink(u, idle) /\ SameTrace(u, idle) /\ ~idle.subscribing
      /\ idle.pending = NoEvent /\ idle.snapshot = u.snapshot
  BY <1>1 DEF Released, Taken, SameLink, SameTrace, SameShown
<1>7. /\ Turning(after, left, ch, h, m, b, NoEvent) /\ Tracking(after, left, ch, h, m, NoEvent)
      /\ after \in Windows /\ SameLink(u, after) /\ SameTrace(u, after)
      /\ ~after.subscribing /\ after.pending = NoEvent /\ Advances(u.snapshot, after.snapshot)
  <2>1. CASE w.pending = NoEvent
    BY <1>1, <1>5, <1>6, <2>1 DEF Advances
  <2>2. CASE w.pending # NoEvent
    <3>1. after = Acknowledge(Applied(idle, w.pending), w.pending)
      BY <1>1, <2>2
    <3>2. /\ Turning(after, left, ch, h, m, b, NoEvent) /\ Tracking(after, left, ch, h, m, NoEvent)
          /\ after \in Windows /\ SameLink(idle, after) /\ SameTask(idle, after)
          /\ SameTrace(idle, after) /\ Advances(idle.snapshot, after.snapshot)
      BY <1>0, <1>1, <1>5, <1>6, <2>2, <3>1, TurnTakes
    <3>. QED
      BY <1>6, <3>2 DEF SameLink, SameTask, SameTrace
  <2>. QED
    BY <2>1, <2>2
<1>8. CASE ~after.refresh
  BY <1>1, <1>7, <1>8 DEF Settled
<1>9. CASE after.refresh
  <2>1. r = Subscribe(after)
    BY <1>1, <1>9
  <2>2. /\ Turning(r, left, ch, h, m, b, NoEvent) /\ Tracking(r, left, ch, h, m, NoEvent)
        /\ ~h.failed /\ r.attachment # 0 /\ ~r.subscribing /\ r.refresh => r.snapshot = Absent
    BY <1>0, <1>7, <2>1, TurnSubscribes
  <2>3. /\ r \in Windows /\ r.pending = after.pending
        /\ SameLink(after, r) /\ SameShown(after, r) /\ SameTrace(after, r)
    BY <1>7, <2>1, Subscribes
  <2>. QED
    BY <1>7, <2>2, <2>3 DEF Settled, SameLink, SameTrace, SameShown
<1>. QED
  BY <1>8, <1>9

-----------------------------------------------------------------------------
(* The steps of the window.                                                *)

Steps(u, r) ==
    /\ r.epoch = u.epoch => Advances(u.snapshot, r.snapshot)
    /\ r.trace = u.trace \/ r.trace = NoTrace \/ r.trace.request > u.trace.request

(* The window is ready to end its turn with r, which began with u. *)
Ready(u, r, left, ch, h, m, b) ==
    /\ r \in Windows
    /\ Turning(r, left, ch, h, m, b, NoEvent) /\ Tracking(r, left, ch, h, m, NoEvent)
    /\ Settled(r, h) /\ Steps(u, r)

(* The turn ends, and the invariant holds of the variables. *)
LEMMA TurnIsWhole ==
    ASSUME made \in Nat, NEW r, NEW left, NEW ch, NEW h, NEW b,
           Ready(ui, r, left, ch, h, made, b), Turn(r, left)
    PROVE  ui'.sends = <<>> /\ Whole(ui', calls', ch, h, made', b) /\ Steps(ui, ui')
<1>1. r \in Windows
  BY DEF Ready
<1>2. /\ ui' \in Windows /\ ui'.sends = <<>>
      /\ SameLink(r, ui') /\ SameControl(r, ui') /\ SameShown(r, ui') /\ SameTask(r, ui')
      /\ SameTrace(r, ui') /\ ui'.told = r.told
      /\ calls' = left \cup Sent(r, made) /\ made' = made + Len(r.sends)
  BY <1>1, TurnEnds
<1>3. Most(r, calls', ch, h, made', b, NoEvent) /\ Following(r, calls', ch, h, NoEvent)
  BY <1>2 DEF Ready, Turning, Tracking
<1>4. Most(ui', calls', ch, h, made', b, NoEvent) /\ Following(ui', calls', ch, h, NoEvent)
  <2>1. Frame(r, ui')
    BY <1>2 DEF Frame
  <2>. QED
    BY <1>2, <1>3, <2>1, SameMost
<1>5. Settled(ui', h) /\ Steps(ui, ui')
  BY <1>2 DEF Ready, Settled, Steps, SameTask, SameLink, SameShown, SameTrace
<1>. QED
  BY <1>2, <1>4, <1>5 DEF Whole

(* Nothing is sent: the window is as it was but for what the lemma before says. *)
LEMMA TurnSilent ==
    ASSUME NEW u, NEW r \in Windows, r.sends = <<>>, NEW left, NEW ch, NEW h, NEW m, NEW b,
           Most(r, left, ch, h, m, b, NoEvent)
    PROVE  /\ Turning(r, left, ch, h, m, b, NoEvent)
           /\ Following(r, left, ch, h, NoEvent) => Tracking(r, left, ch, h, m, NoEvent)
<1>1. m \in Nat
  BY DEF Most, Typed
<1>2. left \cup Sent(r, m) = left
  BY <1>1, SentNone
<1>3. m + Len(r.sends) = m
  BY <1>1
<1>. QED
  BY <1>2, <1>3 DEF Turning, Tracking

(* An answer is taken out of flight; that of a task and that of a connection *)
(* that succeeds are not among these.                                        *)
LEMMA Removes ==
    ASSUME NEW u, NEW cs, NEW ch, NEW h, NEW m, NEW b, Most(u, cs, ch, h, m, b, NoEvent),
           NEW c \in cs, c.answer.type # "none", c.call.kind # "subscribe",
           c.call.kind # "connect" \/ c.answer.type # "ok"
    PROVE  /\ Most(u, cs \ {c}, ch, h, m, b, NoEvent)
           /\ /\ Following(u, cs, ch, h, NoEvent)
              /\ \/ c.call.kind \notin {"load", "reset", "close"}
                 \/ c.epoch # u.epoch \/ c.answer.type # "ok"
              => Following(u, cs \ {c}, ch, h, NoEvent)
<1>1. Typed(u, cs \ {c}, ch, h, m) /\ Names(u, cs \ {c}, ch, h, m, b, NoEvent)
  BY DEF Most, Typed, Names
<1>2. Calling(u, cs \ {c}, ch, h)
  BY DEF Most, Calling
<1>3. Tasks(u, cs \ {c}) /\ Traces(u, cs \ {c}, m) /\ Loads(u, cs \ {c}) /\ Controlling(u, cs \ {c}, h)
  BY DEF Most, Tasks, Traces, Loads, Controlling
<1>4. Pasts(u, cs \ {c}, ch, h, b, NoEvent)
  BY DEF Most, Pasts
<1>5. Credit(u, cs \ {c}, ch, h, b, NoEvent)
  <2>1. ~Returns(c, h, b)
    BY DEF Returns
  <2>. QED
    BY <2>1 DEF Most, Credit
<1>6. ASSUME Following(u, cs, ch, h, NoEvent),
             \/ c.call.kind \notin {"load", "reset", "close"}
             \/ c.epoch # u.epoch \/ c.answer.type # "ok"
      PROVE  Following(u, cs \ {c}, ch, h, NoEvent)
  <2>1. Changing(u, cs) => Changing(u, cs \ {c})
    BY <1>6 DEF Changing
  <2>. QED
    BY <1>6, <2>1 DEF Following, Follows
<1>. QED
  BY <1>1, <1>2, <1>3, <1>4, <1>5, <1>6 DEF Most

(* The trace that is shown changes, or the one that is asked for. *)
LEMMA ChangesTrace ==
    ASSUME NEW u, NEW cs, NEW ch, NEW h, NEW m, NEW b, NEW e, Most(u, cs, ch, h, m, b, e),
           NEW v \in Windows, SameLink(u, v), SameControl(u, v), SameShown(u, v), SameTask(u, v),
           Traces(v, cs, m)
    PROVE  /\ Most(v, cs, ch, h, m, b, e)
           /\ v.told = u.told /\ Following(u, cs, ch, h, e) => Following(v, cs, ch, h, e)
<1> USE DEF SameLink, SameControl, SameTask, SameShown
<1>1. Names(v, cs, ch, h, m, b, e)
  BY DEF Most, Names
<1>2. Link(v, ch, h) /\ Calling(v, cs, ch, h)
  BY DEF Most, Link, Calling, Connecting, Working
<1>3. Tasks(v, cs) /\ Loads(v, cs) /\ Controlling(v, cs, h)
  BY DEF Most, Tasks, Loads, Controlling
<1>4. Pasts(v, cs, ch, h, b, e) /\ Credit(v, cs, ch, h, b, e)
  BY DEF Most, Pasts, Credit
<1>5. v.told = u.told /\ Following(u, cs, ch, h, e) => Following(v, cs, ch, h, e)
  BY DEF Following, Follows, Changing
<1>. QED
  BY <1>1, <1>2, <1>3, <1>4, <1>5 DEF Most, Typed

(* What is shown changes to a machine of the worker, or to none, while no *)
(* control is under way.                                                  *)
LEMMA ChangesShown ==
    ASSUME NEW u, NEW cs, NEW ch, NEW h, NEW m, NEW b, NEW e, Most(u, cs, ch, h, m, b, e),
           u.attachment # 0, \A c \in cs : c.call.kind \notin Controls,
           NEW v \in Windows, SameLink(u, v), SameControl(u, v), SameTask(u, v), SameTrace(u, v),
           v.subscription \in {0, u.subscription},
           v.snapshot \in {u.snapshot, Absent} \/ (h.view # 0 /\ (h.failed \/ Past(v.snapshot, h)))
    PROVE  Most(v, cs, ch, h, m, b, e)
<1> USE DEF SameLink, SameControl, SameTask, SameTrace
<1>1. Names(v, cs, ch, h, m, b, e)
  BY DEF Most, Names
<1>2. Link(v, ch, h) /\ Calling(v, cs, ch, h)
  BY DEF Most, Link, Calling, Connecting, Working
<1>3. Tasks(v, cs) /\ Traces(v, cs, m) /\ Loads(v, cs) /\ Controlling(v, cs, h)
  BY DEF Most, Tasks, Traces, Loads, Controlling, Controls
<1>4. Pasts(v, cs, ch, h, b, e)
  <2>1. Past(Absent, h)
    <3>1. h \in Hosts
      BY DEF Most, Typed
    <3>2. h.sessions \in Nat /\ h.guest \in Guests
      BY <3>1 DEF Hosts
    <3>3. h.sessions = 0 => h.guest = Absent
      BY <3>2 DEF Most, Link, Guests
    <3>. QED
      BY <3>2, <3>3 DEF Past, Absent
  <2>. QED
    BY <2>1 DEF Most, Pasts
<1>5. Credit(v, cs, ch, h, b, e)
  BY DEF Most, Credit
<1>. QED
  BY <1>1, <1>2, <1>3, <1>4, <1>5 DEF Most, Typed

(* The answer of a read: the control that awaits it ends, and the trace read *)
(* last is shown.                                                            *)
LEMMA AnswersTrace ==
    ASSUME NEW ch, NEW h, NEW m, NEW b, Whole(ui, calls, ch, h, m, b), ui.sends = <<>>,
           NEW c \in calls, c.answer.type # "none", c.call.kind = "trace",
           NEW r, r = TraceAnswered(ui, c)
    PROVE  Ready(ui, r, calls \ {c}, ch, h, m, b)
<1> DEFINE u == ui
           left == calls \ {c}
<1>0. /\ Most(u, calls, ch, h, m, b, NoEvent) /\ u \in Windows /\ c \in Records
      /\ Following(u, calls, ch, h, NoEvent) /\ Settled(u, h) /\ m \in Nat
  BY DEF Whole, Most, Typed
<1>1. Most(u, left, ch, h, m, b, NoEvent) /\ Following(u, left, ch, h, NoEvent)
  BY <1>0, Removes
<1>2. PICK v : v = IF u.awaited = c.id THEN [u EXCEPT !.controlling = "no", !.awaited = 0] ELSE u
  OBVIOUS
<1>3. /\ v \in Windows /\ v.sends = <<>> /\ v.told = u.told
      /\ SameLink(u, v) /\ SameShown(u, v) /\ SameTask(u, v) /\ SameTrace(u, v)
      /\ v.connecting = u.connecting
      /\ \/ v.controlling = u.controlling /\ v.awaited = u.awaited
         \/ v.controlling = "no" /\ v.awaited = 0 /\ u.awaited = c.id
  BY <1>0, <1>2 DEF Windows, SameLink, SameShown, SameTask, SameTrace
<1>4. Most(v, left, ch, h, m, b, NoEvent) /\ Following(v, left, ch, h, NoEvent)
  <2>1. v.awaited # 0 => v.controlling = "reading"
    BY <1>0, <1>3 DEF Most, Tasks
  <2>2. c.id # 0
    BY <1>0 DEF Most, Names, Drawn, Records
  <2>3. v.controlling = u.controlling \/ \A d \in left : d.call.kind \notin Controls
    <3>1. u.awaited # 0 => \A d \in left : d.call.kind \notin Controls
      BY <1>0 DEF Most, Tasks
    <3>. QED
      BY <1>3, <2>2, <3>1
  <2>. QED
    BY <1>1, <1>3, <2>1, <2>3, ChangesControl
<1>5. CASE ~Latest(u, c) \/ (~Succeeds(c) /\ Aborted(c))
  <2>1. r = v
    BY <1>2, <1>5 DEF TraceAnswered, Reported
  <2>2. Settled(v, h) /\ Steps(u, v)
    BY <1>0, <1>3 DEF Settled, Steps, SameTask, SameLink, SameShown, SameTrace, Advances
  <2>. QED
    BY <1>3, <1>4, <2>1, <2>2, TurnSilent DEF Ready
<1>6. CASE Latest(u, c) /\ ~Succeeds(c) /\ ~Aborted(c)
  <2>1. r = [v EXCEPT !.problem = TRUE]
    BY <1>2, <1>6 DEF TraceAnswered, Reported
  <2>2. r \in Windows /\ r.sends = <<>> /\ r.told = v.told /\ Frame(v, r) /\ SameShown(v, r)
    BY <1>3, <2>1, Noted
  <2>3. Most(r, left, ch, h, m, b, NoEvent) /\ Following(r, left, ch, h, NoEvent)
    BY <1>4, <2>2, SameMost
  <2>4. Settled(r, h) /\ Steps(u, r)
    BY <1>0, <1>3, <2>2
       DEF Settled, Steps, Frame, SameTask, SameLink, SameShown, SameTrace, Advances
  <2>. QED
    BY <2>2, <2>3, <2>4, TurnSilent DEF Ready
<1>7. CASE Latest(u, c) /\ Succeeds(c)
  <2>0. c.answer.guest \in Guests /\ c.id \in Nat
    BY <1>0 DEF Records, Answers
  <2>1. r = [v EXCEPT !.trace = [guest |-> c.answer.guest, request |-> c.id]]
    BY <1>2, <1>7 DEF TraceAnswered
  <2>2. /\ r \in Windows /\ r.sends = <<>> /\ r.told = v.told
        /\ SameLink(v, r) /\ SameControl(v, r) /\ SameShown(v, r) /\ SameTask(v, r)
        /\ r.traceRequest = v.traceRequest /\ r.trace.request = c.id
    <3>1. PICK t \in [guest : Guests, request : Nat] : t = [guest |-> c.answer.guest, request |-> c.id]
      BY <2>0
    <3>2. r = [v EXCEPT !.trace = t]
      BY <2>1, <3>1
    <3>3. r \in Windows /\ r.trace = t /\ t.request = c.id
      BY <1>3, <3>1, <3>2 DEF Windows
    <3>4. /\ r.sends = v.sends /\ r.told = v.told /\ r.traceRequest = v.traceRequest
          /\ SameLink(v, r) /\ SameControl(v, r) /\ SameShown(v, r) /\ SameTask(v, r)
      BY <1>3, <3>2 DEF Windows, SameLink, SameControl, SameShown, SameTask
    <3>. QED
      BY <1>3, <3>3, <3>4
  <2>3. u.traceRequest = c.id
    BY <1>7 DEF Latest
  <2>4. /\ u.trace.request # c.id /\ u.trace.request <= c.id /\ c.id <= m
        /\ \A d \in left : d.id # c.id
    BY <1>0, <2>3 DEF Most, Traces, Names
  <2>5. Traces(r, left, m)
    BY <1>3, <2>0, <2>2, <2>3, <2>4 DEF Traces, SameTrace
  <2>6. Most(r, left, ch, h, m, b, NoEvent) /\ Following(r, left, ch, h, NoEvent)
    BY <1>4, <2>2, <2>5, ChangesTrace
  <2>7. Settled(r, h)
    BY <1>0, <1>3, <2>2 DEF Settled, SameTask, SameLink, SameShown
  <2>8. Steps(u, r)
    <3>1. u.trace.request \in Nat
      BY <1>0 DEF Windows
    <3>2. r.trace.request > u.trace.request
      BY <2>0, <2>2, <2>4, <3>1
    <3>. QED
      BY <1>3, <2>2, <3>2 DEF Steps, SameShown, Advances
  <2>. QED
    BY <2>2, <2>6, <2>7, <2>8, TurnSilent DEF Ready
<1>. QED
  BY <1>5, <1>6, <1>7

(* The answer of an acknowledgement, which is at most reported. *)
LEMMA AnswersAck ==
    ASSUME NEW ch, NEW h, NEW m, NEW b, Whole(ui, calls, ch, h, m, b), ui.sends = <<>>,
           NEW c \in calls, c.answer.type # "none", c.call.kind = "ack",
           NEW r, r = IF Succeeds(c) THEN ui ELSE Reported(c, ui)
    PROVE  Ready(ui, r, calls \ {c}, ch, h, m, b)
<1>0. /\ Most(ui, calls, ch, h, m, b, NoEvent) /\ ui \in Windows
      /\ Following(ui, calls, ch, h, NoEvent) /\ Settled(ui, h)
  BY DEF Whole, Most, Typed
<1>1. Most(ui, calls \ {c}, ch, h, m, b, NoEvent) /\ Following(ui, calls \ {c}, ch, h, NoEvent)
  BY <1>0, Removes
<1>2. r = ui \/ r = [ui EXCEPT !.problem = TRUE]
  BY DEF Reported
<1>3. r \in Windows /\ r.sends = <<>> /\ r.told = ui.told /\ Frame(ui, r) /\ SameShown(ui, r)
  <2>1. CASE r = ui
    BY <1>0, <2>1 DEF Frame, SameLink, SameControl, SameShown, SameTask, SameTrace
  <2>2. CASE r = [ui EXCEPT !.problem = TRUE]
    BY <1>0, <2>2, Noted
  <2>. QED
    BY <1>2, <2>1, <2>2
<1>4. Most(r, calls \ {c}, ch, h, m, b, NoEvent) /\ Following(r, calls \ {c}, ch, h, NoEvent)
  BY <1>1, <1>3, SameMost
<1>5. Settled(r, h) /\ Steps(ui, r)
  BY <1>0, <1>3 DEF Settled, Steps, Frame, SameTask, SameLink, SameShown, SameTrace, Advances
<1>. QED
  BY <1>3, <1>4, <1>5, TurnSilent DEF Ready

(* Repeating, the task has its answer and asks again; the event stays held back. *)
LEMMA Repeated ==
    ASSUME NEW u, NEW cs, NEW ch, NEW h, NEW m, NEW b, Most(u, cs, ch, h, m, b, NoEvent),
           u.attachment # 0, NEW c \in cs, c.call.kind = "subscribe", c.epoch = u.epoch,
           NEW w \in Windows, Taken(u, c, w), w.sends = <<>>, NEW r, r = Ask(w)
    PROVE  /\ Turning(r, cs \ {c}, ch, h, m, b, NoEvent)
           /\ Tracking(r, cs \ {c}, ch, h, m, NoEvent)
           /\ r \in Windows /\ SameLink(u, r) /\ SameTrace(u, r) /\ r.snapshot = u.snapshot
           /\ r.subscribing
<1> DEFINE ds == cs \ {c}
<1>1. PICK idle : idle = [w EXCEPT !.subscribing = FALSE]
  OBVIOUS
<1>2. /\ idle \in Windows /\ idle.sends = <<>> /\ ~idle.subscribing
      /\ idle.pending = w.pending /\ idle.refresh = w.refresh
      /\ SameLink(w, idle) /\ SameControl(w, idle) /\ SameShown(w, idle) /\ SameTrace(w, idle)
  BY <1>1 DEF Windows, SameLink, SameControl, SameShown, SameTrace
<1>3. /\ SameLink(u, idle) /\ SameControl(u, idle) /\ SameTrace(u, idle)
      /\ idle.snapshot = u.snapshot /\ idle.pending = u.pending
      /\ idle.subscription \in {u.subscription, c.id}
  BY <1>2 DEF Taken, SameLink, SameControl, SameTask, SameTrace, SameShown
<1>4. Most(idle, ds, ch, h, m, b, NoEvent)
  <2>0. Drawn(c.id, b, m)
    BY DEF Most, Names, Drawn
  <2>1. \A d \in cs : d.call.kind = "subscribe" => d = c
    BY DEF Most, Tasks
  <2> USE <1>2, <1>3, <2>1 DEF SameLink, SameControl, SameTrace
  <2>2. Names(idle, ds, ch, h, m, b, NoEvent)
    BY <2>0 DEF Most, Names
  <2>3. Link(idle, ch, h) /\ Calling(idle, ds, ch, h)
    BY DEF Most, Link, Calling, Connecting, Working
  <2>4. Tasks(idle, ds) /\ Traces(idle, ds, m) /\ Loads(idle, ds) /\ Controlling(idle, ds, h)
    BY DEF Most, Tasks, Traces, Loads, Controlling
  <2>5. Pasts(idle, ds, ch, h, b, NoEvent)
    BY DEF Most, Pasts
  <2>6. Credit(idle, ds, ch, h, b, NoEvent)
    <3>1. \A d \in cs : Returns(d, h, b) => d # c
      BY DEF Returns
    <3>. QED
      BY <3>1 DEF Most, Credit
  <2>. QED
    BY <2>2, <2>3, <2>4, <2>5, <2>6 DEF Most, Typed
<1>5. r = Ask(idle)
  <2>1. Call("subscribe", w.snapshot, NoEvent) = Call("subscribe", idle.snapshot, NoEvent)
    BY <1>2 DEF SameShown
  <2>2. [w EXCEPT !.refresh = FALSE, !.subscribing = TRUE]
          = [idle EXCEPT !.refresh = FALSE, !.subscribing = TRUE]
    BY <1>1 DEF Windows
  <2>. QED
    BY <2>1, <2>2 DEF Ask, Request
<1>6. Turning(idle, ds, ch, h, m, b, NoEvent) /\ m \in Nat
  BY <1>2, <1>4, TurnSilent DEF Most, Typed
<1>8. /\ Most(r, ds \cup {Made(idle, AskOf(idle), m + 1)}, ch, h, m + 1, b, NoEvent)
      /\ Following(r, ds \cup {Made(idle, AskOf(idle), m + 1)}, ch, h, NoEvent)
  BY <1>2, <1>3, <1>4, <1>5, AddsAsk DEF SameLink
<1>9. /\ r \in Windows /\ r.sends = Append(idle.sends, AskOf(idle)) /\ AskOf(idle) \in Commands
      /\ SameLink(idle, r) /\ SameTrace(idle, r) /\ r.snapshot = idle.snapshot /\ r.subscribing
  BY <1>2, <1>5, Asks, CallsTyped DEF SameShown
<1>10. ds \cup Sent(r, m) = ds \cup {Made(idle, AskOf(idle), m + 1)} /\ m + Len(r.sends) = m + 1
  <2>0. m \in Nat
    BY <1>6
  <2>1. /\ Sent(r, m) = Sent(idle, m) \cup {Made(idle, AskOf(idle), m + Len(idle.sends) + 1)}
        /\ m + Len(r.sends) = m + Len(idle.sends) + 1
    <3>1. idle \in Windows /\ r \in Windows /\ SameLink(idle, r)
      BY <1>2, <1>9
    <3>2. AskOf(idle) \in Commands /\ OneMore(idle, r, AskOf(idle))
      BY <1>9 DEF OneMore
    <3>3. Sent(r, m) = Sent(idle, m) \cup {Made(idle, AskOf(idle), m + Len(idle.sends) + 1)}
      BY <2>0, <3>1, <3>2, SentAppend
    <3>4. m + Len(r.sends) = m + Len(idle.sends) + 1
      BY <2>0, <3>1, <3>2, SentAppend
    <3>. QED
      BY <3>3, <3>4
  <2>2. Sent(idle, m) = {}
    BY <1>2, <2>0, SentNone
  <2>3. m + Len(idle.sends) + 1 = m + 1
    BY <1>2, <2>0
  <2>. QED
    BY <2>1, <2>2, <2>3
<1>. QED
  BY <1>3, <1>8, <1>9, <1>10 DEF Turning, Tracking, SameLink, SameTrace

(* The answer of the task: it asks again or ends. *)
LEMMA AnswersSubscribe ==
    ASSUME NEW ch, NEW h, NEW m, NEW b, Whole(ui, calls, ch, h, m, b), ui.sends = <<>>,
           NEW c \in calls, c.answer.type # "none", c.call.kind = "subscribe",
           NEW r, r = Answered(ui, c)
    PROVE  Ready(ui, r, calls \ {c}, ch, h, m, b)
<1> DEFINE u == ui
           left == calls \ {c}
<1>0. /\ Most(u, calls, ch, h, m, b, NoEvent) /\ u \in Windows /\ c \in Records
      /\ Following(u, calls, ch, h, NoEvent)
  BY DEF Whole, Most, Typed
<1>1. ASSUME NEW w \in Windows, Taken(u, c, w), w.sends = <<>>, r = Ended(w),
             \/ w.told
             \/ /\ c.epoch = u.epoch
                /\ \/ ~SameKey(u.snapshot, c.call.guest)
                   \/ w.subscription = c.id /\ c.answer.type = "ok"
      PROVE  Ready(u, r, left, ch, h, m, b)
  <2>1. /\ r \in Windows /\ SameLink(u, r) /\ SameTrace(u, r) /\ Advances(u.snapshot, r.snapshot)
        /\ Turning(r, left, ch, h, m, b, NoEvent)
        /\ Tracking(r, left, ch, h, m, NoEvent) /\ Settled(r, h)
    BY <1>0, <1>1, TurnEndsTask
  <2>. QED
    BY <2>1 DEF Ready, Steps, SameTrace
<1>2. CASE ~Succeeds(c) /\ (Aborted(c) \/ SameKey(u.snapshot, c.call.guest) \/ c.answer.type = "failed")
  <2>1. PICK w : w = [Reported(c, u) EXCEPT !.told = TRUE]
    OBVIOUS
  <2>2. w \in Windows /\ Taken(u, c, w) /\ w.sends = <<>> /\ w.told
    BY <1>0, <2>1 DEF Reported, Windows, Taken, SameLink, SameControl, SameTask, SameTrace
  <2>3. r = Ended(w)
    BY <1>2, <2>1 DEF Answered
  <2>. QED
    BY <1>1, <2>2, <2>3
<1>3. CASE ~(~Succeeds(c) /\ (Aborted(c) \/ SameKey(u.snapshot, c.call.guest) \/ c.answer.type = "failed"))
  <2>0. /\ c.epoch = u.epoch /\ c.id \in Nat /\ u.attachment # 0
        /\ SameKey(u.snapshot, c.call.guest) => c.answer.type = "ok"
    BY <1>0, <1>3 DEF Succeeds, Aborted, Records, Most, Calling, Working
  <2>1. PICK v : v = IF SameKey(u.snapshot, c.call.guest)
                     THEN [u EXCEPT !.subscription = c.id, !.told = FALSE] ELSE u
    OBVIOUS
  <2>2. v \in Windows /\ Taken(u, c, v) /\ v.sends = <<>>
    <3>1. CASE SameKey(u.snapshot, c.call.guest)
      <4>1. PICK x : x = [u EXCEPT !.told = FALSE]
        OBVIOUS
      <4>2. x \in Windows /\ x.sends = <<>> /\ Frame(u, x) /\ x.snapshot = u.snapshot
        BY <1>0, <4>1 DEF Windows, Frame, SameLink, SameControl, SameTask, SameTrace
      <4>3. v = [x EXCEPT !.subscription = c.id]
        BY <1>0, <2>1, <3>1, <4>1 DEF Windows
      <4>4. v \in Windows
        <5>1. \A n \in Nat : [x EXCEPT !.subscription = n] \in Windows
          BY <4>2 DEF Windows
        <5>. QED
          BY <2>0, <4>3, <5>1
      <4>5. v.sends = <<>> /\ Frame(x, v) /\ v.snapshot = x.snapshot /\ v.subscription = c.id
        BY <4>2, <4>3 DEF Windows, Frame, SameLink, SameControl, SameTask, SameTrace
      <4>. QED
        BY <2>0, <4>2, <4>4, <4>5
           DEF Taken, Frame, SameLink, SameControl, SameTask, SameTrace
    <3>2. CASE ~SameKey(u.snapshot, c.call.guest)
      BY <1>0, <2>1, <3>2 DEF Taken, SameLink, SameControl, SameTask, SameTrace
    <3>. QED
      BY <3>1, <3>2
  <2>3. r = IF Repeats(v) THEN Ask(v) ELSE Ended(v)
    BY <1>3, <2>1 DEF Answered
  <2>4. CASE Repeats(v)
    <3>0. r = Ask(v)
      BY <2>3, <2>4
    <3>1. /\ Turning(r, left, ch, h, m, b, NoEvent) /\ Tracking(r, left, ch, h, m, NoEvent)
          /\ r \in Windows /\ SameLink(u, r) /\ SameTrace(u, r) /\ r.snapshot = u.snapshot
          /\ r.subscribing
      <4>1. Most(u, calls, ch, h, m, b, NoEvent) /\ u.attachment # 0 /\ c.epoch = u.epoch
        BY <1>0, <2>0
      <4>2. v \in Windows /\ Taken(u, c, v) /\ v.sends = <<>>
        BY <2>2
      <4>. HIDE DEF u
      <4>. QED
        BY <3>0, <4>1, <4>2, Repeated
    <3>. QED
      BY <3>1 DEF Ready, Settled, Steps, SameTrace, Advances
  <2>5. CASE ~Repeats(v)
    <3>1. SameKey(u.snapshot, c.call.guest) => v.subscription = c.id /\ c.answer.type = "ok"
      BY <1>0, <2>0, <2>1 DEF Windows
    <3>. QED
      BY <1>1, <2>0, <2>2, <2>3, <2>5, <3>1
  <2>. QED
    BY <2>4, <2>5
<1>. QED
  BY <1>2, <1>3

(* readTrace asks for the trace of the machine that is shown. *)
LEMMA TurnReads ==
    ASSUME made \in Nat, NEW u \in Windows, NEW left, NEW ch, NEW h, NEW b,
           Turning(u, left, ch, h, made, b, NoEvent), NEW r, r = Traced(u)
    PROVE  /\ Turning(r, left, ch, h, made, b, NoEvent)
           /\ Tracking(u, left, ch, h, made, NoEvent) => Tracking(r, left, ch, h, made, NoEvent)
           /\ r \in Windows /\ SameLink(u, r) /\ SameControl(u, r) /\ SameShown(u, r)
           /\ SameTask(u, r) /\ r.trace = u.trace
           /\ \A c \in left \cup Sent(r, made) :
                c \in left \cup Sent(u, made) \/ c.call.kind = "trace"
<1> DEFINE x == Call("trace", u.snapshot, NoEvent)
           n == made + Len(u.sends)
           cs == left \cup Sent(u, made)
<1>1. CASE r = u
  BY <1>1 DEF SameLink, SameControl, SameShown, SameTask
<1>2. CASE u.connected /\ r = Request([u EXCEPT !.traceRequest = n + 1], "trace", u.snapshot)
  <2>0. Most(u, cs, ch, h, n, b, NoEvent) /\ n \in Nat
    BY DEF Turning, Most, Typed
  <2>1. u.attachment # 0
    BY <1>2, <2>0 DEF Most, Link
  <2>2. x \in Commands /\ x.kind = "trace"
    BY NoneTyped DEF Call, Commands, Kinds, Windows
  <2> DEFINE y == Made(u, x, n + 1)
  <2>3. /\ Most(u, cs \cup {y}, ch, h, n + 1, b, NoEvent)
        /\ Following(u, cs, ch, h, NoEvent) => Following(u, cs \cup {y}, ch, h, NoEvent)
    <3> HIDE DEF n, cs, x
    <3>. QED
      BY <2>0, <2>1, <2>2, AddsTrace
  <2>4. PICK v : v = [u EXCEPT !.traceRequest = n + 1]
    OBVIOUS
  <2>5. v \in Windows
    <3>1. \A k \in Nat : [u EXCEPT !.traceRequest = k] \in Windows
      BY DEF Windows
    <3>2. n + 1 \in Nat
      BY <2>0
    <3>. QED
      BY <2>4, <3>1, <3>2
  <2>6. /\ v.sends = u.sends /\ v.told = u.told /\ v.trace = u.trace /\ v.traceRequest = n + 1
        /\ SameLink(u, v) /\ SameControl(u, v) /\ SameShown(u, v) /\ SameTask(u, v)
    BY <2>4 DEF Windows, SameLink, SameControl, SameShown, SameTask
  <2>7. Traces(v, cs \cup {y}, n + 1)
    <3>1. u.trace.request <= u.traceRequest /\ u.traceRequest <= n
          /\ u.trace.request \in Nat /\ u.traceRequest \in Nat
      BY <2>0 DEF Most, Traces, Windows
    <3>2. \A c \in cs \cup {y} : c.id # u.trace.request
      BY <2>3 DEF Most, Traces
    <3> HIDE DEF n, cs, y
    <3>. QED
      BY <2>0, <2>6, <3>1, <3>2 DEF Traces
  <2>8. /\ Most(v, cs \cup {y}, ch, h, n + 1, b, NoEvent)
        /\ Following(u, cs, ch, h, NoEvent) => Following(v, cs \cup {y}, ch, h, NoEvent)
    <3> HIDE DEF n, cs, y
    <3>. QED
      BY <2>3, <2>5, <2>6, <2>7, ChangesTrace
  <2>9. r = [v EXCEPT !.sends = Append(@, x)]
    BY <1>2, <2>4 DEF Request
  <2>10. Append(v.sends, x) \in Seq(Commands)
    <3>1. v.sends \in Seq(Commands)
      BY <2>5 DEF Windows
    <3>. QED
      BY <2>2, <3>1
  <2>11. /\ r \in Windows /\ r.sends = Append(v.sends, x) /\ r.told = v.told
         /\ Frame(v, r) /\ SameShown(v, r)
    <3> HIDE DEF x
    <3>1. PICK q \in Seq(Commands) : q = Append(v.sends, x)
      BY <2>10
    <3>2. r = [v EXCEPT !.sends = q]
      BY <2>9, <3>1
    <3>3. r \in Windows /\ r.sends = q
      BY <2>5, <3>1, <3>2, SendsTyped
    <3>4. r.told = v.told /\ Frame(v, r) /\ SameShown(v, r)
      BY <2>5, <3>2
         DEF Windows, Frame, SameLink, SameControl, SameShown, SameTask, SameTrace
    <3>. QED
      BY <3>1, <3>3, <3>4
  <2>12. /\ Most(r, cs \cup {y}, ch, h, n + 1, b, NoEvent)
         /\ Following(u, cs, ch, h, NoEvent) => Following(r, cs \cup {y}, ch, h, NoEvent)
    <3> HIDE DEF n, cs, y
    <3>. QED
      BY <2>8, <2>11, SameMost
  <2>13. /\ SameLink(u, r) /\ SameControl(u, r) /\ SameShown(u, r) /\ SameTask(u, r)
         /\ r.trace = u.trace
    BY <2>6, <2>11 DEF Frame, SameLink, SameControl, SameShown, SameTask, SameTrace
  <2>14. Sent(r, made) = Sent(u, made) \cup {y}
    <3>1. SameLink(u, r) /\ r \in Windows /\ x \in Commands /\ OneMore(u, r, x)
      BY <2>2, <2>6, <2>11, <2>13 DEF OneMore
    <3> HIDE DEF x
    <3>. QED
      BY <3>1, SentAppend
  <2>15. made + Len(r.sends) = n + 1
    <3>1. SameLink(u, r) /\ r \in Windows /\ x \in Commands /\ OneMore(u, r, x)
      BY <2>2, <2>6, <2>11, <2>13 DEF OneMore
    <3> HIDE DEF x
    <3>. QED
      BY <3>1, SentAppend
  <2>16. y.call.kind = "trace"
    <3> HIDE DEF x
    <3>. QED
      BY <2>2 DEF Made
  <2>17. left \cup Sent(r, made) = cs \cup {y}
    BY <2>14
  <2> HIDE DEF y, n, x
  <2>. QED
    BY <2>11, <2>12, <2>13, <2>15, <2>16, <2>17 DEF Turning, Tracking
<1>3. r = u \/ (u.connected /\ r = Request([u EXCEPT !.traceRequest = n + 1], "trace", u.snapshot))
  BY DEF Traced
<1>. QED
  BY <1>1, <1>2, <1>3

(* The states of connecting and of a control change in a turn. *)
LEMMA TurnChanges ==
    ASSUME NEW u \in Windows, NEW left, NEW ch, NEW h, NEW m \in Nat, NEW b,
           Turning(u, left, ch, h, m, b, NoEvent), Tracking(u, left, ch, h, m, NoEvent),
           NEW v \in Windows, v.sends = u.sends, v.told = u.told,
           SameLink(u, v), SameShown(u, v), SameTask(u, v), SameTrace(u, v),
           \/ v.connecting = u.connecting
           \/ \A c \in left \cup Sent(u, m) : c.call.kind # "connect",
           \/ v.controlling = u.controlling
           \/ \A c \in left \cup Sent(u, m) : c.call.kind \notin Controls,
           v.awaited # 0 => v.controlling = "reading"
    PROVE  Turning(v, left, ch, h, m, b, NoEvent) /\ Tracking(v, left, ch, h, m, NoEvent)
<1>1. Sent(v, m) = Sent(u, m)
  BY SentSame
<1>2. /\ Most(u, left \cup Sent(u, m), ch, h, m + Len(u.sends), b, NoEvent)
      /\ Following(u, left \cup Sent(u, m), ch, h, NoEvent)
  BY DEF Turning, Tracking
<1> DEFINE cs == left \cup Sent(u, m)
<1> HIDE DEF cs
<1>3. Most(v, cs, ch, h, m + Len(u.sends), b, NoEvent) /\ Following(v, cs, ch, h, NoEvent)
  BY <1>2, ChangesControl DEF cs
<1>. QED
  BY <1>1, <1>3 DEF Turning, Tracking, cs

(* The answer of a control, which ends or awaits the task or the read it asks for. *)
LEMMA AnswersControl ==
    ASSUME made \in Nat, NEW ch, NEW h, NEW b, Whole(ui, calls, ch, h, made, b), ui.sends = <<>>,
           NEW c \in calls, c.answer.type # "none", c.call.kind \in Controls,
           NEW r, r = Controlled(ui, c)
    PROVE  Ready(ui, r, calls \ {c}, ch, h, made, b)
<1> DEFINE left == calls \ {c}
<1>0. /\ Most(ui, calls, ch, h, made, b, NoEvent) /\ ui \in Windows /\ c \in Records
      /\ Following(ui, calls, ch, h, NoEvent) /\ Settled(ui, h) /\ h \in Hosts
  BY DEF Whole, Most, Typed
<1>1. /\ c.call.kind \notin {"connect", "subscribe"} /\ ui.controlling = "requested"
      /\ ui.awaited = 0 /\ \A d \in left : d.call.kind \notin Controls
  BY <1>0 DEF Most, Tasks, Controls
<1>2. Most(ui, left, ch, h, made, b, NoEvent)
  BY <1>0, <1>1, Removes
<1>3. ASSUME NEW w \in Windows, Turning(w, left, ch, h, made, b, NoEvent),
             Tracking(w, left, ch, h, made, NoEvent), Settled(w, h),
             \A d \in left \cup Sent(w, made) : d.call.kind \notin Controls,
             SameLink(ui, w), w.trace = ui.trace, Advances(ui.snapshot, w.snapshot),
             NEW controlling \in {"no", "subscribing", "reading"}, NEW awaited \in Nat,
             awaited # 0 => controlling = "reading",
             r = [w EXCEPT !.controlling = controlling, !.awaited = awaited]
      PROVE  Ready(ui, r, left, ch, h, made, b)
  <2>1. r \in Windows
    <3>1. PICK v : v = [w EXCEPT !.controlling = controlling]
      OBVIOUS
    <3>2. v \in Windows
      BY <1>3, <3>1 DEF Windows
    <3>3. r = [v EXCEPT !.awaited = awaited]
      BY <1>3, <3>1 DEF Windows
    <3>4. \A n \in Nat : [v EXCEPT !.awaited = n] \in Windows
      BY <3>2 DEF Windows
    <3>. QED
      BY <1>3, <3>3, <3>4
  <2>2. /\ r.sends = w.sends /\ r.told = w.told /\ r.connecting = w.connecting
        /\ r.controlling = controlling /\ r.awaited = awaited
        /\ SameLink(w, r) /\ SameShown(w, r) /\ SameTask(w, r) /\ SameTrace(w, r)
    BY <1>3 DEF Windows, SameLink, SameShown, SameTask, SameTrace
  <2>3. Turning(r, left, ch, h, made, b, NoEvent) /\ Tracking(r, left, ch, h, made, NoEvent)
    <3> HIDE DEF left
    <3>. QED
      BY <1>3, <2>1, <2>2, TurnChanges
  <2>4. Settled(r, h) /\ Steps(ui, r)
    BY <1>3, <2>2 DEF Settled, Steps, SameLink, SameShown, SameTask, SameTrace
  <2>. QED
    BY <2>1, <2>3, <2>4 DEF Ready
<1>4. ASSUME NEW v \in Windows, v.sends = <<>>, SameLink(ui, v), SameTask(ui, v), v.trace = ui.trace,
             Most(v, left, ch, h, made, b, NoEvent), Advances(ui.snapshot, v.snapshot)
      PROVE  /\ Turning(v, left, ch, h, made, b, NoEvent) /\ Sent(v, made) = {}
             /\ ~v.subscribing => v.pending = NoEvent
             /\ Following(v, left, ch, h, NoEvent) => Tracking(v, left, ch, h, made, NoEvent)
  <2>1. Sent(v, made) = {}
    BY <1>4, SentNone
  <2>. QED
    BY <1>0, <1>4, <2>1, TurnSilent DEF Settled, SameTask
<1>5. ASSUME NEW v \in Windows, v.sends = <<>>, SameLink(ui, v), SameTask(ui, v), v.trace = ui.trace,
             Most(v, left, ch, h, made, b, NoEvent), Advances(ui.snapshot, v.snapshot),
             NEW w, w = Subscribe(v)
      PROVE  /\ w \in Windows /\ Turning(w, left, ch, h, made, b, NoEvent)
             /\ Tracking(w, left, ch, h, made, NoEvent) /\ Settled(w, h)
             /\ \A d \in left \cup Sent(w, made) : d.call.kind \notin Controls
             /\ SameLink(ui, w) /\ w.trace = ui.trace /\ Advances(ui.snapshot, w.snapshot)
             /\ SameControl(v, w)
  <2>1. /\ Turning(v, left, ch, h, made, b, NoEvent) /\ Sent(v, made) = {}
        /\ ~v.subscribing => v.pending = NoEvent
    BY <1>4, <1>5
  <2>2. /\ Turning(w, left, ch, h, made, b, NoEvent) /\ Tracking(w, left, ch, h, made, NoEvent)
        /\ ~h.failed /\ w.attachment # 0 /\ ~w.subscribing /\ w.refresh => w.snapshot = Absent
        /\ \A d \in left \cup Sent(w, made) :
             d \in left \cup Sent(v, made) \/ d.call.kind = "subscribe"
    BY <1>5, <2>1, TurnSubscribes
  <2>3. /\ w \in Windows /\ w.pending = v.pending
        /\ SameLink(v, w) /\ SameControl(v, w) /\ SameShown(v, w) /\ SameTrace(v, w)
        /\ ~w.subscribing => ~v.subscribing
    <3>1. w.subscribing \/ w = v \/ ~v.subscribing
      BY <1>5, Subscribes, Asks
    <3>. QED
      BY <1>5, <3>1, Subscribes
  <2>4. Settled(w, h)
    BY <2>1, <2>2, <2>3 DEF Settled
  <2>5. \A d \in left \cup Sent(w, made) : d.call.kind \notin Controls
    BY <1>1, <2>1, <2>2 DEF Controls
  <2>. QED
    BY <1>5, <2>2, <2>3, <2>4, <2>5 DEF SameLink, SameShown, SameTrace
<1>6. CASE ~Succeeds(c)
  <2>1. PICK v : v = Reported(c, ui)
    OBVIOUS
  <2>2. v \in Windows /\ v.sends = <<>> /\ v.told = ui.told /\ Frame(ui, v) /\ SameShown(ui, v)
    BY <1>0, <2>1 DEF Reported, Windows, Frame, SameLink, SameControl, SameShown, SameTask, SameTrace
  <2>3. Most(v, left, ch, h, made, b, NoEvent) /\ Following(v, left, ch, h, NoEvent)
    <3>1. Following(ui, left, ch, h, NoEvent)
      BY <1>0, <1>1, <1>6, Removes DEF Succeeds, Aborted
    <3>. QED
      BY <1>2, <2>2, <3>1, SameMost
  <2>4. /\ Turning(v, left, ch, h, made, b, NoEvent) /\ Sent(v, made) = {}
        /\ Tracking(v, left, ch, h, made, NoEvent)
    BY <1>4, <2>2, <2>3 DEF Frame, SameShown, SameTrace, Advances
  <2>5. Settled(v, h) /\ Advances(ui.snapshot, v.snapshot) /\ SameLink(ui, v) /\ v.trace = ui.trace
    BY <1>0, <2>2 DEF Settled, Frame, SameTask, SameLink, SameShown, SameTrace, Advances
  <2>6. r = [v EXCEPT !.controlling = "no", !.awaited = 0]
    <3>1. r = [v EXCEPT !.controlling = "no"]
      BY <1>6, <2>1 DEF Controlled
    <3>2. v.awaited = 0
      BY <1>1, <2>2 DEF Frame, SameControl
    <3>. QED
      BY <2>2, <3>1, <3>2 DEF Windows
  <2>7. \A d \in left \cup Sent(v, made) : d.call.kind \notin Controls
    BY <1>1, <2>4
  <2>. QED
    BY <1>3, <2>2, <2>4, <2>5, <2>6, <2>7
<1>7. CASE Succeeds(c)
  <2>0. /\ c.epoch = ui.epoch /\ c.answer.type = "ok" /\ c.answer.guest \in Guests
        /\ ui.attachment # 0 /\ h.view # 0 /\ ui.snapshot \in Guests
        /\ h.failed \/ Past(c.answer.guest, h)
    <3>1. c.epoch = ui.epoch /\ c.answer.type = "ok" /\ c.answer.guest \in Guests
          /\ ui.snapshot \in Guests
      BY <1>0, <1>7 DEF Succeeds, Aborted, Records, Answers, Windows
    <3>2. ui.attachment # 0
      BY <1>0, <1>1, <3>1 DEF Most, Calling, Working
    <3>3. h.view # 0
      BY <1>0, <3>2 DEF Most, Link
    <3>. QED
      BY <1>0, <3>1, <3>2, <3>3 DEF Most, Pasts
  <2>1. ASSUME NEW v \in Windows, SameLink(ui, v), SameControl(ui, v), SameTask(ui, v),
               SameTrace(ui, v), v.subscription \in {0, ui.subscription},
               v.snapshot \in {ui.snapshot, c.answer.guest, Absent}
        PROVE  Most(v, left, ch, h, made, b, NoEvent)
    <3> HIDE DEF left
    <3>. QED
      BY <1>1, <1>2, <2>0, <2>1, ChangesShown DEF left
  <2>2. CASE c.call.kind = "load"
    <3>1. PICK v : v = [ui EXCEPT !.snapshot = c.answer.guest]
      OBVIOUS
    <3>2. /\ v \in Windows /\ v.sends = <<>> /\ v.snapshot = c.answer.guest
          /\ v.subscription = ui.subscription
          /\ SameLink(ui, v) /\ SameControl(ui, v) /\ SameTask(ui, v) /\ SameTrace(ui, v)
      BY <1>0, <2>0, <3>1 DEF Windows, SameLink, SameControl, SameTask, SameTrace
    <3>3. Most(v, left, ch, h, made, b, NoEvent)
      BY <2>1, <3>2
    <3>4. Advances(ui.snapshot, v.snapshot)
      BY <1>0, <2>0, <2>2, <3>2 DEF Most, Loads, Advances
    <3>5. PICK w : w = Subscribe(v)
      OBVIOUS
    <3>6. /\ w \in Windows /\ Turning(w, left, ch, h, made, b, NoEvent)
          /\ Tracking(w, left, ch, h, made, NoEvent) /\ Settled(w, h)
          /\ \A d \in left \cup Sent(w, made) : d.call.kind \notin Controls
          /\ SameLink(ui, w) /\ w.trace = ui.trace /\ Advances(ui.snapshot, w.snapshot)
          /\ SameControl(v, w)
      BY <1>5, <3>2, <3>3, <3>4, <3>5 DEF SameTrace
    <3>7. r = [w EXCEPT !.controlling = Waiting(w, "subscribing"), !.awaited = 0]
      <4>1. r = [w EXCEPT !.controlling = Waiting(w, "subscribing")]
        BY <1>7, <2>2, <3>1, <3>5 DEF Controlled, LoadAnswered
      <4>2. w.awaited = 0
        BY <1>1, <3>2, <3>6 DEF SameControl
      <4>. QED
        BY <3>6, <4>1, <4>2 DEF Windows
    <3>8. Waiting(w, "subscribing") \in {"no", "subscribing", "reading"}
      BY DEF Waiting
    <3>. QED
      BY <1>3, <3>6, <3>7, <3>8
  <2>3. CASE c.call.kind = "close"
    <3>1. PICK v : v = [ui EXCEPT !.snapshot = Absent, !.subscription = 0]
      OBVIOUS
    <3>2. /\ v \in Windows /\ v.sends = <<>> /\ v.snapshot = Absent /\ v.subscription = 0
          /\ SameLink(ui, v) /\ SameControl(ui, v) /\ SameTask(ui, v) /\ SameTrace(ui, v)
      <4>1. PICK x : x = [ui EXCEPT !.snapshot = Absent]
        OBVIOUS
      <4>2. x \in Windows /\ x.sends = <<>> /\ x.snapshot = Absent /\ Frame(ui, x)
        BY <1>0, <4>1, NoneTyped DEF Windows, Frame, SameLink, SameControl, SameTask, SameTrace
      <4>3. v = [x EXCEPT !.subscription = 0]
        BY <3>1, <4>1
      <4>4. \A n \in Nat : [x EXCEPT !.subscription = n] \in Windows
        BY <4>2 DEF Windows
      <4>5. v \in Windows
        BY <4>3, <4>4
      <4>6. v.sends = <<>> /\ v.snapshot = Absent /\ v.subscription = 0 /\ Frame(x, v)
        BY <4>2, <4>3 DEF Windows, Frame, SameLink, SameControl, SameTask, SameTrace
      <4>. QED
        BY <4>2, <4>5, <4>6 DEF Frame, SameLink, SameControl, SameTask, SameTrace
    <3>3. Most(v, left, ch, h, made, b, NoEvent) /\ Following(v, left, ch, h, NoEvent)
      BY <2>1, <3>2 DEF Following
    <3>4. Advances(ui.snapshot, v.snapshot) /\ Settled(v, h) /\ v.trace = ui.trace
      BY <1>0, <3>2 DEF Advances, Settled, SameTask, SameTrace
    <3>5. /\ Turning(v, left, ch, h, made, b, NoEvent) /\ Sent(v, made) = {}
          /\ Tracking(v, left, ch, h, made, NoEvent)
      BY <1>4, <3>2, <3>3, <3>4
    <3>6. r = [v EXCEPT !.controlling = "no", !.awaited = 0]
      <4>1. r = [v EXCEPT !.controlling = "no"]
        BY <1>7, <2>3, <3>1 DEF Controlled, Closed
      <4>2. v.awaited = 0
        BY <1>1, <3>2 DEF SameControl
      <4>. QED
        BY <3>2, <4>1, <4>2 DEF Windows
    <3>7. \A d \in left \cup Sent(v, made) : d.call.kind \notin Controls
      BY <1>1, <3>5
    <3>8. "no" \in {"no", "subscribing", "reading"} /\ v \in Windows /\ SameLink(ui, v)
      BY <3>2
    <3>. QED
      BY <1>3, <3>4, <3>5, <3>6, <3>7, <3>8
  <2>4. CASE c.call.kind \in {"run", "reset", "patch", "record"}
    <3>1. PICK v : v = Publish(ui, c.answer.guest)
      OBVIOUS
    <3>2. /\ v \in Windows /\ v.sends = <<>> /\ v.told = ui.told
          /\ Frame(ui, v) /\ v.subscription = ui.subscription
          /\ v.snapshot \in {ui.snapshot, c.answer.guest} /\ Advances(ui.snapshot, v.snapshot)
      BY <1>0, <2>0, <3>1, Publishes
    <3>3. /\ Most(v, left, ch, h, made, b, NoEvent) /\ SameLink(ui, v) /\ SameTask(ui, v)
          /\ v.trace = ui.trace /\ SameControl(ui, v)
      BY <2>1, <3>2 DEF Frame, SameTrace
    <3>4. r = Observed(ui, c)
      BY <1>7, <2>4 DEF Controlled
    <3>5. CASE c.call.kind \in {"reset", "patch"}
      <4>1. PICK w : w = Subscribe(v)
        OBVIOUS
      <4>2. /\ w \in Windows /\ Turning(w, left, ch, h, made, b, NoEvent)
            /\ Tracking(w, left, ch, h, made, NoEvent) /\ Settled(w, h)
            /\ \A d \in left \cup Sent(w, made) : d.call.kind \notin Controls
            /\ SameLink(ui, w) /\ w.trace = ui.trace /\ Advances(ui.snapshot, w.snapshot)
        BY <1>5, <3>2, <3>3, <4>1
      <4>3. r = [w EXCEPT !.controlling = Waiting(w, "subscribing"), !.awaited = 0]
        BY <3>1, <3>4, <3>5, <4>1 DEF Observed
      <4>4. Waiting(w, "subscribing") \in {"no", "subscribing", "reading"}
        BY DEF Waiting
      <4>. QED
        BY <1>3, <4>2, <4>3, <4>4
    <3>6. ASSUME c.call.kind \in {"run", "record"}
          PROVE  /\ Turning(v, left, ch, h, made, b, NoEvent) /\ Sent(v, made) = {}
                 /\ Tracking(v, left, ch, h, made, NoEvent) /\ Settled(v, h)
      <4>1. Following(ui, left, ch, h, NoEvent)
        BY <1>0, <1>1, <3>6, Removes
      <4>2. (SameKey(c.answer.guest, ui.snapshot) /\ ui.snapshot # Absent) \/ h.failed
        <5>1. \/ h.failed
              \/ /\ SameKey(c.call.guest, ui.snapshot) /\ c.call.guest # Absent
                 /\ SameKey(c.answer.guest, c.call.guest)
          BY <1>0, <2>0, <3>6 DEF Most, Controlling, Controls
        <5>2. c.call.guest \in Guests
          BY <1>0 DEF Records, Commands
        <5>. QED
          BY <2>0, <5>1, <5>2 DEF SameKey, Guests, Absent
      <4>3. Following(v, left, ch, h, NoEvent)
        BY <3>2, <3>3, <4>1, <4>2
           DEF Following, Follows, Changing, SameKey, SameLink, SameTask
      <4>4. Settled(v, h)
        BY <1>0, <2>0, <3>2, <3>3, <4>2 DEF Settled, SameTask, SameLink
      <4>. QED
        BY <1>4, <3>2, <3>3, <4>3, <4>4
    <3>7. CASE c.call.kind = "run"
      <4>1. r = [v EXCEPT !.controlling = "no", !.awaited = 0]
        BY <3>1, <3>4, <3>7 DEF Observed
      <4>2. \A d \in left \cup Sent(v, made) : d.call.kind \notin Controls
        BY <1>1, <3>6, <3>7
      <4>. QED
        BY <1>3, <3>2, <3>3, <3>6, <3>7, <4>1, <4>2
    <3>8. CASE c.call.kind = "record"
      <4>1. PICK w : w = Traced(v)
        OBVIOUS
      <4>2. /\ Turning(w, left, ch, h, made, b, NoEvent) /\ Tracking(w, left, ch, h, made, NoEvent)
            /\ w \in Windows /\ SameLink(v, w) /\ SameControl(v, w) /\ SameShown(v, w)
            /\ SameTask(v, w) /\ w.trace = v.trace
            /\ \A d \in left \cup Sent(w, made) :
                 d \in left \cup Sent(v, made) \/ d.call.kind = "trace"
        BY <3>2, <3>6, <3>8, <4>1, TurnReads
      <4>3. Settled(w, h) /\ SameLink(ui, w) /\ w.trace = ui.trace
            /\ Advances(ui.snapshot, w.snapshot)
        BY <3>2, <3>3, <3>6, <3>8, <4>2 DEF Settled, SameTask, SameLink, SameShown
      <4>4. \A d \in left \cup Sent(w, made) : d.call.kind \notin Controls
        BY <1>1, <3>6, <3>8, <4>2 DEF Controls
      <4>5. r = [w EXCEPT !.controlling = IF w.sends # <<>> THEN "reading" ELSE "no",
                          !.awaited = IF w.sends # <<>> THEN w.traceRequest ELSE 0]
        BY <3>1, <3>4, <3>8, <4>1 DEF Observed
      <4>6. w.traceRequest \in Nat
        BY <4>2 DEF Windows
      <4>7. CASE w.sends # <<>>
        <5>1. r = [w EXCEPT !.controlling = "reading", !.awaited = w.traceRequest]
          BY <4>5, <4>7
        <5>. QED
          BY <1>3, <4>2, <4>3, <4>4, <4>6, <5>1
      <4>8. CASE w.sends = <<>>
        <5>1. r = [w EXCEPT !.controlling = "no", !.awaited = 0]
          BY <4>5, <4>8
        <5>. QED
          BY <1>3, <4>2, <4>3, <4>4, <5>1
      <4>. QED
        BY <4>7, <4>8
    <3>. QED
      BY <2>4, <3>5, <3>7, <3>8
  <2>. QED
    BY <2>2, <2>3, <2>4 DEF Controls
<1>. QED
  BY <1>6, <1>7

(* The supervisor's view is attached, with the machine of its worker. *)
LEMMA Attaches ==
    ASSUME NEW u \in Windows, NEW cs, NEW ch, NEW h, NEW m, NEW b, Most(u, cs, ch, h, m, b, NoEvent),
           NEW c \in cs, c.call.kind = "connect", c.answer.type = "ok", NEW v \in Windows,
           v.attachment = c.answer.view, v.connected, v.snapshot = c.answer.guest,
           v.subscription = 0, v.epoch = u.epoch,
           SameControl(u, v), SameTask(u, v), SameTrace(u, v)
    PROVE  Most(v, cs \ {c}, ch, h, m, m, NoEvent)
<1> DEFINE ds == cs \ {c}
<1>1. /\ u.attachment = 0 /\ u.connecting = "attaching" /\ c.epoch = u.epoch
      /\ c.answer.view = h.view /\ h.view # 0
  BY DEF Most, Calling, Connecting
<1>2. /\ c \in Records /\ m \in Nat /\ b \in Nat /\ u.pending \in Events /\ h \in Hosts
  BY DEF Most, Typed, Windows
<1>3. \A d \in ds : /\ d.call.kind # "connect" /\ d.epoch # u.epoch
                    /\ d.view = h.view => h.failed
  BY <1>1 DEF Most, Calling, Working
<1>4. /\ h.subscription = 0 /\ h.waiting = NoEvent /\ h.latest = NoEvent
      /\ ~h.failed => ch = <<>>
  BY <1>1 DEF Most, Link, Credit
<1>5. NoEvent.id = 0 /\ ~(m < 0) /\ 0 <= m
  BY <1>2 DEF NoEvent
<1>6. u.pending.id <= m /\ u.pending.id \in Nat
  BY <1>2, <1>5 DEF Most, Names, Named, Drawn, Events
<1> USE DEF SameControl, SameTask, SameTrace
<1>7. Names(v, ds, ch, h, m, m, NoEvent)
  BY <1>2, <1>3, <1>4, <1>5 DEF Most, Names, Named
<1>8. Link(v, ch, h)
  BY <1>1 DEF Most, Link
<1>9. Calling(v, ds, ch, h)
  BY <1>1, <1>3 DEF Most, Calling, Working
<1>10. Tasks(v, ds) /\ Traces(v, ds, m)
  BY DEF Most, Tasks, Traces
<1>11. Pasts(v, ds, ch, h, m, NoEvent)
  BY <1>1, <1>3, <1>5, <1>6 DEF Most, Pasts
<1>12. Loads(v, ds) /\ Controlling(v, ds, h)
  BY <1>3 DEF Loads, Controlling
<1>13. Credit(v, ds, ch, h, m, NoEvent)
  <2>1. ~(m < u.pending.id)
    BY <1>2, <1>6
  <2>2. ~h.failed => \A d \in ds : ~Returns(d, h, m)
    BY <1>3 DEF Returns
  <2>. QED
    BY <1>4, <1>5, <2>1, <2>2 DEF Most, Credit
<1>. QED
  BY <1>2, <1>7, <1>8, <1>9, <1>10, <1>11, <1>12, <1>13 DEF Most, Typed

(* The answer of a connection: the window is attached and asks to follow the *)
(* machine, or may be connected again.                                       *)
LEMMA AnswersConnect ==
    ASSUME NEW ch, NEW h, NEW m, NEW b, Whole(ui, calls, ch, h, m, b), ui.sends = <<>>,
           NEW c \in calls, c.answer.type # "none", c.call.kind = "connect",
           NEW r, r = ConnectAnswered(ui, c)
    PROVE  \E k \in Nat : Ready(ui, r, calls \ {c}, ch, h, m, k)
<1> DEFINE left == calls \ {c}
<1>0. /\ Most(ui, calls, ch, h, m, b, NoEvent) /\ ui \in Windows /\ c \in Records
      /\ Following(ui, calls, ch, h, NoEvent) /\ Settled(ui, h) /\ m \in Nat /\ b \in Nat
  BY DEF Whole, Most, Typed
<1>1. /\ c.epoch = ui.epoch /\ ui.attachment = 0 /\ \A d \in left : d.call.kind # "connect"
      /\ c.answer.type = "ok" /\ c.answer.guest # Absent => ui.snapshot = Absent
  BY <1>0 DEF Most, Calling, Connecting
<1>2. CASE c.answer.type # "ok"
  <2>1. r = [ui EXCEPT !.connecting = "no", !.problem = TRUE]
    BY <1>1, <1>2 DEF ConnectAnswered, Succeeds, Aborted, Reported
  <2>2. /\ r \in Windows /\ r.sends = <<>> /\ r.told = ui.told /\ r.controlling = ui.controlling
        /\ r.awaited = ui.awaited
        /\ SameLink(ui, r) /\ SameShown(ui, r) /\ SameTask(ui, r) /\ SameTrace(ui, r)
    BY <1>0, <2>1 DEF Windows, SameLink, SameShown, SameTask, SameTrace
  <2>3. Most(ui, left, ch, h, m, b, NoEvent) /\ Following(ui, left, ch, h, NoEvent)
    BY <1>0, <1>2, Removes
  <2>4. r.awaited # 0 => r.controlling = "reading"
    BY <1>0, <2>2 DEF Most, Tasks
  <2>5. Most(r, left, ch, h, m, b, NoEvent) /\ Following(r, left, ch, h, NoEvent)
    BY <1>1, <2>2, <2>3, <2>4, ChangesControl
  <2>6. Settled(r, h) /\ Steps(ui, r)
    BY <1>0, <2>2 DEF Settled, Steps, SameTask, SameLink, SameShown, SameTrace, Advances
  <2>7. Ready(ui, r, left, ch, h, m, b)
    BY <2>2, <2>5, <2>6, TurnSilent DEF Ready
  <2>. QED
    BY <1>0, <2>7
<1>3. CASE c.answer.type = "ok"
  <2>0. c.answer.guest \in Guests /\ c.answer.view \in Nat
    BY <1>0 DEF Records, Answers
  <2>1. PICK v : v = [ui EXCEPT !.attachment = c.answer.view, !.connected = TRUE,
                               !.subscription = 0, !.told = FALSE, !.snapshot = c.answer.guest]
    OBVIOUS
  <2>2. v \in Windows
    <3>1. PICK x : x = [ui EXCEPT !.connected = TRUE, !.told = FALSE]
      OBVIOUS
    <3>2. PICK y : y = [x EXCEPT !.attachment = c.answer.view]
      OBVIOUS
    <3>3. PICK z : z = [y EXCEPT !.subscription = 0]
      OBVIOUS
    <3>4. x \in Windows
      BY <1>0, <3>1 DEF Windows
    <3>5. \A n \in Nat : [x EXCEPT !.attachment = n] \in Windows
      BY <3>4 DEF Windows
    <3>6. y \in Windows
      BY <2>0, <3>2, <3>5
    <3>7. \A n \in Nat : [y EXCEPT !.subscription = n] \in Windows
      BY <3>6 DEF Windows
    <3>8. z \in Windows
      BY <3>3, <3>7
    <3>9. [z EXCEPT !.snapshot = c.answer.guest] \in Windows
      BY <2>0, <3>8 DEF Windows
    <3>10. v = [z EXCEPT !.snapshot = c.answer.guest]
      BY <1>0, <2>1, <3>1, <3>2, <3>3 DEF Windows
    <3>. QED
      BY <3>9, <3>10
  <2>3. /\ v.attachment = c.answer.view /\ v.connected /\ v.snapshot = c.answer.guest
        /\ v.subscription = 0 /\ v.epoch = ui.epoch /\ v.sends = <<>>
        /\ SameControl(ui, v) /\ SameTask(ui, v) /\ SameTrace(ui, v)
    BY <1>0, <2>1 DEF Windows, SameControl, SameTask, SameTrace
  <2>4. Most(v, left, ch, h, m, m, NoEvent)
    <3>1. Most(ui, calls, ch, h, m, b, NoEvent) /\ ui \in Windows
      BY <1>0
    <3>. QED
      BY <1>3, <2>2, <2>3, <3>1, Attaches
  <2>5. PICK w : w = Subscribe(v)
    OBVIOUS
  <2>6. /\ Turning(v, left, ch, h, m, m, NoEvent) /\ Sent(v, m) = {}
    BY <1>0, <2>2, <2>3, <2>4, TurnSilent, SentNone
  <2>7. /\ Turning(w, left, ch, h, m, m, NoEvent) /\ Tracking(w, left, ch, h, m, NoEvent)
        /\ ~h.failed /\ w.attachment # 0 /\ ~w.subscribing /\ w.refresh => w.snapshot = Absent
        /\ \A d \in left \cup Sent(w, m) : d \in left \cup Sent(v, m) \/ d.call.kind = "subscribe"
    BY <1>0, <2>2, <2>5, <2>6, TurnSubscribes
  <2>8. /\ w \in Windows /\ w.pending = v.pending
        /\ SameLink(v, w) /\ SameControl(v, w) /\ SameShown(v, w) /\ SameTrace(v, w)
        /\ ~w.subscribing => ~v.subscribing
    <3>1. w.subscribing \/ w = v \/ ~v.subscribing
      BY <2>2, <2>5, Subscribes, Asks
    <3>. QED
      BY <2>2, <2>5, <3>1, Subscribes
  <2>9. r = [w EXCEPT !.connecting = Waiting(w, "subscribing")]
    BY <1>1, <1>3, <2>1, <2>5 DEF ConnectAnswered, Succeeds, Aborted, Attached
  <2>10. Waiting(w, "subscribing") \in {"no", "attaching", "subscribing"}
    BY DEF Waiting
  <2>11. /\ r \in Windows /\ r.sends = w.sends /\ r.told = w.told /\ r.controlling = w.controlling
         /\ r.awaited = w.awaited
         /\ SameLink(w, r) /\ SameShown(w, r) /\ SameTask(w, r) /\ SameTrace(w, r)
    BY <2>8, <2>9, <2>10 DEF Windows, SameLink, SameShown, SameTask, SameTrace
  <2>12. \A d \in left \cup Sent(w, m) : d.call.kind # "connect"
    BY <1>1, <2>6, <2>7
  <2>13. r.awaited # 0 => r.controlling = "reading"
    BY <1>0, <2>3, <2>8, <2>11 DEF Most, Tasks, SameControl
  <2>14. Turning(r, left, ch, h, m, m, NoEvent) /\ Tracking(r, left, ch, h, m, NoEvent)
    <3> HIDE DEF left
    <3>. QED
      BY <1>0, <2>7, <2>8, <2>11, <2>12, <2>13, TurnChanges
  <2>15. Settled(r, h)
    BY <1>0, <2>3, <2>7, <2>8, <2>11 DEF Settled, SameTask, SameLink, SameShown
  <2>16. Steps(ui, r)
    BY <1>1, <1>3, <2>3, <2>8, <2>11 DEF Steps, SameShown, SameTrace, Advances
  <2>17. Ready(ui, r, left, ch, h, m, m)
    BY <2>11, <2>14, <2>15, <2>16 DEF Ready
  <2>. QED
    BY <1>0, <2>17
<1>. QED
  BY <1>2, <1>3

(* A message taken from the channel is in hand. *)
LEMMA InHand ==
    ASSUME NEW u, NEW cs, NEW ch, NEW h, NEW m, NEW b, Most(u, cs, ch, h, m, b, NoEvent),
           ch # <<>>
    PROVE  /\ Head(ch) \in Events /\ Tail(ch) \in Seq(Events)
           /\ Head(ch).type = "failed" =>
                h.failed /\ Most(u, cs, Tail(ch), h, m, b, NoEvent)
           /\ Head(ch).type # "failed" =>
                /\ Head(ch) # NoEvent
                /\ Most(u, cs, Tail(ch), h, m, b, Head(ch))
                /\ Following(u, cs, ch, h, NoEvent) => Following(u, cs, Tail(ch), h, Head(ch))
<1> DEFINE x == Head(ch)
           dh == Tail(ch)
<1>0. /\ ch \in Seq(Events) /\ x \in Events /\ dh \in Seq(Events) /\ b \in Nat /\ x.id \in Nat
      /\ h \in Hosts /\ x = ch[1] /\ 1 \in DOMAIN ch
      /\ \A i \in DOMAIN dh : i + 1 \in DOMAIN ch /\ dh[i] = ch[i + 1]
  <2>1. ch \in Seq(Events) /\ b \in Nat /\ h \in Hosts
    BY DEF Most, Typed
  <2>2. /\ x \in Events /\ dh \in Seq(Events) /\ x = ch[1] /\ 1 \in DOMAIN ch
        /\ \A i \in DOMAIN dh : i + 1 \in DOMAIN ch /\ dh[i] = ch[i + 1]
    BY <2>1
  <2>. QED
    BY <2>1, <2>2 DEF Events
<1>1. /\ u.attachment = 0 => h.failed
      /\ ~h.failed => x = h.waiting /\ dh = <<>> /\ h.waiting # NoEvent
  <2>1. u.attachment = 0 => h.failed
    BY DEF Most, Link
  <2>2. ~h.failed => ch = <<h.waiting>> /\ h.waiting # NoEvent
    BY <2>1 DEF Most, Credit
  <2>3. \A w : ch = <<w>> => x = w /\ dh = <<>>
    <3>1. \A w : Head(<<w>>) = w /\ Tail(<<w>>) = <<>>
      OBVIOUS
    <3>. QED
      BY <3>1
  <2> HIDE DEF x, dh
  <2>. QED
    BY <2>1, <2>2, <2>3
<1> HIDE DEF x, dh
<1>2. x.type # "failed" => Drawn(x.id, 0, m) /\ x # NoEvent
  <2>1. x.type # "failed" => Drawn(x.id, 0, m)
    BY <1>0 DEF Most, Names
  <2>. QED
    BY <1>0, <2>1 DEF Drawn, NoEvent
<1>3. x.type = "failed" => h.failed
  BY <1>1 DEF Most, Credit
<1>4. ASSUME NEW e \in Events, e = NoEvent \/ (e = x /\ x.type # "failed"), e = NoEvent => h.failed
      PROVE  Most(u, cs, dh, h, m, b, e)
  <2>1. Names(u, cs, dh, h, m, b, e)
    BY <1>0, <1>2, <1>4 DEF Most, Names, Named
  <2>2. Link(u, dh, h)
    BY <1>1 DEF Most, Link
  <2>3. Calling(u, cs, dh, h)
    <3>1. \A c \in cs : c.call.kind = "connect" /\ c.answer.type # "ok" => ch = <<>>
      BY DEF Most, Calling, Connecting
    <3>2. ch # <<>>
      OBVIOUS
    <3>. QED
      BY <3>1, <3>2 DEF Most, Calling, Connecting, Working
  <2>4. Pasts(u, cs, dh, h, b, e)
    <3>1. ~h.failed => \A i \in DOMAIN dh : FALSE
      BY <1>1
    <3>. QED
      BY <1>0, <1>1, <1>4, <3>1 DEF Most, Pasts
  <2>5. Credit(u, cs, dh, h, b, e)
    <3>1. CASE h.failed
      BY <3>1 DEF Most, Credit
    <3>2. CASE ~h.failed
      <4>1. e = h.waiting /\ dh = <<>> /\ h.waiting # NoEvent /\ u.attachment # 0
        BY <1>1, <1>4, <3>2
      <4>2. b < h.waiting.id /\ u.pending.id \in Nat /\ h.waiting.id \in Nat
        BY <1>0, <4>1 DEF Most, Names, Named, Drawn, Typed, Windows, Hosts, Events
      <4>3. ~(b < u.pending.id) /\ \A c \in cs : ~Returns(c, h, b)
        BY <3>2, <4>1 DEF Most, Credit
      <4>4. u.pending.id <= b
        BY <1>0, <4>2, <4>3
      <4>. QED
        BY <3>2, <4>1, <4>2, <4>3, <4>4 DEF Most, Credit
    <3>. QED
      BY <3>1, <3>2
  <2>. QED
    BY <1>0, <1>4, <2>1, <2>2, <2>3, <2>4, <2>5 DEF Most, Typed
<1>5. x.type # "failed" => Most(u, cs, dh, h, m, b, x)
  BY <1>0, <1>2, <1>4
<1>6. x.type = "failed" => Most(u, cs, dh, h, m, b, NoEvent)
  BY <1>3, <1>4, NoneTyped
<1>7. ASSUME Following(u, cs, ch, h, NoEvent) PROVE Following(u, cs, dh, h, x)
  <2>1. \A k : ~h.failed /\ Follows(k, u, cs, ch, h, NoEvent) => Follows(k, u, cs, dh, h, x)
    <3>1. \A k : ~h.failed /\ ch = <<EndOf(k)>> => x = EndOf(k)
      BY <1>0
    <3>2. \A k : NoEvent # EndOf(k)
      BY DEF NoEvent, EndOf
    <3>. QED
      BY <3>1, <3>2 DEF Follows
  <2>. QED
    BY <1>7, <2>1 DEF Following
<1>. QED
  BY <1>0, <1>2, <1>3, <1>5, <1>6, <1>7 DEF x, dh

(* An event is held back while the task is under way. *)
LEMMA HoldsBack ==
    ASSUME NEW u, NEW cs, NEW ch, NEW h, NEW m, NEW b, NEW e, Most(u, cs, ch, h, m, b, e),
           e # NoEvent, u.subscribing,
           ~h.failed => e = h.waiting /\ ch = <<>>,
           NEW v \in Windows, SameLink(u, v), SameControl(u, v), SameShown(u, v), SameTrace(u, v),
           v.subscribing, v.refresh = u.refresh, v.pending = e
    PROVE  /\ Most(v, cs, ch, h, m, b, NoEvent)
           /\ v.told = u.told /\ Following(u, cs, ch, h, e) =>
                Following(v, cs, ch, h, NoEvent)
<1> USE DEF SameLink, SameControl, SameShown, SameTrace
<1>0. b \in Nat /\ NoEvent.id = 0 /\ ~(b < 0) /\ 0 <= b
  BY DEF Most, NoEvent
<1>1. Names(v, cs, ch, h, m, b, NoEvent)
  BY DEF Most, Names, Named
<1>2. Link(v, ch, h) /\ Calling(v, cs, ch, h)
  BY DEF Most, Link, Calling, Connecting, Working
<1>3. Tasks(v, cs) /\ Traces(v, cs, m) /\ Loads(v, cs) /\ Controlling(v, cs, h)
  BY DEF Most, Tasks, Traces, Loads, Controlling
<1>4. Pasts(v, cs, ch, h, b, NoEvent)
  BY <1>0 DEF Most, Pasts
<1>5. Credit(v, cs, ch, h, b, NoEvent)
  BY <1>0 DEF Most, Credit
<1>6. ASSUME v.told = u.told, Following(u, cs, ch, h, e)
      PROVE  Following(v, cs, ch, h, NoEvent)
  <2>1. ASSUME ~h.failed, v.attachment # 0, NEW k \in Nat, b < k, Follows(k, u, cs, ch, h, e)
        PROVE  Follows(k, v, cs, ch, h, NoEvent)
    <3>1. u.pending = EndOf(k) => e = EndOf(k)
      BY <2>1 DEF Most, Credit, EndOf
    <3>2. ch # <<EndOf(k)>>
      <4>1. ch = <<>> /\ Len(<<EndOf(k)>>) = 1 /\ Len(<<>>) = 0
        BY <2>1
      <4>. QED
        BY <4>1
    <3>. QED
      BY <2>1, <3>1, <3>2 DEF Follows, Changing
  <2>2. \A c \in cs : c.epoch = u.epoch => c.id \in Nat /\ b < c.id
    BY DEF Most, Names, Typed, Records
  <2>. QED
    BY <1>6, <2>1, <2>2 DEF Following
<1>. QED
  BY <1>1, <1>2, <1>3, <1>4, <1>5, <1>6, NoneTyped DEF Most, Typed

(* The worker failed, and the window shows nothing of it. *)
LEMMA Fails ==
    ASSUME NEW u \in Windows, NEW r, r = Failed(u)
    PROVE  /\ r \in Windows /\ r.sends = u.sends /\ r.told = u.told
           /\ r.epoch = u.epoch /\ r.attachment = u.attachment /\ ~r.connected
           /\ r.snapshot = Absent /\ r.subscription = 0
           /\ r.trace = NoTrace /\ r.traceRequest = 0
           /\ SameControl(u, r) /\ SameTask(u, r)
<1>1. PICK x : x = [u EXCEPT !.connected = FALSE, !.problem = TRUE]
  OBVIOUS
<1>2. PICK y : y = [x EXCEPT !.snapshot = Absent, !.trace = NoTrace]
  OBVIOUS
<1>3. PICK z : z = [y EXCEPT !.traceRequest = 0]
  OBVIOUS
<1>4. x \in Windows
  BY <1>1 DEF Windows
<1>5. y \in Windows
  <2>1. NoTrace \in [guest : Guests, request : Nat]
    BY NoneTyped DEF NoTrace
  <2>. QED
    BY <1>2, <1>4, <2>1, NoneTyped DEF Windows
<1>6. z \in Windows
  <2>1. \A n \in Nat : [y EXCEPT !.traceRequest = n] \in Windows
    BY <1>5 DEF Windows
  <2>. QED
    BY <1>3, <2>1
<1>7. r = [z EXCEPT !.subscription = 0]
  BY <1>1, <1>2, <1>3 DEF Failed, Windows
<1>8. r \in Windows
  <2>1. \A n \in Nat : [z EXCEPT !.subscription = n] \in Windows
    BY <1>6 DEF Windows
  <2>. QED
    BY <1>7, <2>1
<1>9. /\ r.sends = u.sends /\ r.told = u.told
      /\ r.epoch = u.epoch /\ r.attachment = u.attachment /\ ~r.connected
      /\ r.snapshot = Absent /\ r.subscription = 0
      /\ r.trace = NoTrace /\ r.traceRequest = 0
      /\ SameControl(u, r) /\ SameTask(u, r)
  BY DEF Failed, Windows, SameControl, SameTask
<1>. QED
  BY <1>8, <1>9

(* A message is heard. *)
LEMMA Hears ==
    ASSUME NEW ch, NEW h, NEW m, NEW b, Whole(ui, calls, ch, h, m, b), ui.sends = <<>>,
           ch # <<>>,
           NEW r, r = IF Head(ch).type = "failed" THEN Failed(ui) ELSE Receive(ui, Head(ch))
    PROVE  Ready(ui, r, calls, Tail(ch), h, m, b)
<1>0. /\ Most(ui, calls, ch, h, m, b, NoEvent) /\ ui \in Windows
      /\ Following(ui, calls, ch, h, NoEvent) /\ Settled(ui, h) /\ m \in Nat /\ b \in Nat
  BY DEF Whole, Most, Typed
<1>1. PICK x : x = Head(ch)
  OBVIOUS
<1>2. PICK dh : dh = Tail(ch)
  OBVIOUS
<1>3. /\ x \in Events
      /\ x.type = "failed" => h.failed /\ Most(ui, calls, dh, h, m, b, NoEvent)
      /\ x.type # "failed" => /\ x # NoEvent
                              /\ Most(ui, calls, dh, h, m, b, x)
                              /\ Following(ui, calls, dh, h, x)
  BY <1>0, <1>1, <1>2, InHand
<1>4. CASE x.type = "failed"
  <2>1. r = Failed(ui)
    BY <1>1, <1>4
  <2>2. /\ r \in Windows /\ r.sends = <<>> /\ r.told = ui.told
        /\ r.epoch = ui.epoch /\ r.attachment = ui.attachment /\ ~r.connected
        /\ r.snapshot = Absent /\ r.subscription = 0
        /\ r.trace = NoTrace /\ r.traceRequest = 0
        /\ SameControl(ui, r) /\ SameTask(ui, r)
    BY <1>0, <2>1, Fails
  <2>3. Most(r, calls, dh, h, m, b, NoEvent)
    <3> USE <1>3, <1>4, <2>2 DEF SameControl, SameTask
    <3>1. Names(r, calls, dh, h, m, b, NoEvent)
      BY DEF Most, Names
    <3>2. Link(r, dh, h) /\ Calling(r, calls, dh, h)
      BY DEF Most, Link, Calling, Connecting, Working
    <3>3. Traces(r, calls, m)
      <4>1. \A c \in calls : c.id # 0
        BY DEF Most, Typed, Names, Drawn, Records
      <4>. QED
        BY <1>0, <4>1 DEF Traces, NoTrace
    <3>4. Tasks(r, calls) /\ Controlling(r, calls, h)
      BY DEF Most, Tasks, Controlling
    <3>5. Loads(r, calls)
      <4>0. r.snapshot = Absent /\ ui \in Windows
        BY <1>0, <2>2
      <4>1. r.snapshot.session = 0 /\ ui.snapshot.session \in Nat
        <5>1. ui.snapshot \in Guests
          BY <4>0 DEF Windows
        <5>2. ui.snapshot.session \in Nat
          BY <5>1 DEF Guests
        <5>. QED
          BY <4>0, <5>2 DEF Absent
      <4>2. \A c \in calls : c.answer.guest.session \in Nat
        BY DEF Most, Typed, Records, Answers, Guests
      <4>. QED
        BY <4>1, <4>2 DEF Most, Loads
    <3>6. Pasts(r, calls, dh, h, b, NoEvent) /\ Credit(r, calls, dh, h, b, NoEvent)
      BY DEF Most, Pasts, Credit
    <3>. QED
      BY <3>1, <3>2, <3>3, <3>4, <3>5, <3>6 DEF Most, Typed
  <2>4. Following(r, calls, dh, h, NoEvent) /\ Settled(r, h)
    BY <1>0, <1>3, <1>4, <2>2 DEF Following, Settled, SameTask
  <2>5. Steps(ui, r)
    BY <2>2 DEF Steps, Advances
  <2>. QED
    BY <1>2, <2>2, <2>3, <2>4, <2>5, TurnSilent DEF Ready
<1>5. CASE x.type # "failed" /\ ui.subscribing
  <2>1. r = [ui EXCEPT !.pending = x]
    BY <1>1, <1>5 DEF Receive
  <2>2. /\ r \in Windows /\ r.sends = <<>> /\ r.told = ui.told /\ r.subscribing
        /\ r.refresh = ui.refresh /\ r.pending = x
        /\ SameLink(ui, r) /\ SameControl(ui, r) /\ SameShown(ui, r) /\ SameTrace(ui, r)
    BY <1>0, <1>3, <1>5, <2>1 DEF Windows, SameLink, SameControl, SameShown, SameTrace
  <2>3. ~h.failed => x = h.waiting /\ dh = <<>>
    <3>1. ui.attachment = 0 => h.failed
      BY <1>0 DEF Most, Link
    <3>2. ~h.failed => ch = <<h.waiting>>
      BY <1>0, <3>1 DEF Most, Credit
    <3>3. \A w : Head(<<w>>) = w /\ Tail(<<w>>) = <<>>
      OBVIOUS
    <3>. QED
      BY <1>1, <1>2, <3>2, <3>3
  <2>4. Most(r, calls, dh, h, m, b, NoEvent) /\ Following(r, calls, dh, h, NoEvent)
    BY <1>3, <1>5, <2>2, <2>3, HoldsBack
  <2>5. Settled(r, h) /\ Steps(ui, r)
    BY <2>2 DEF Settled, Steps, SameShown, SameTrace, Advances
  <2>. QED
    BY <1>2, <2>2, <2>4, <2>5, TurnSilent DEF Ready
<1>6. CASE x.type # "failed" /\ ~ui.subscribing
  <2>1. r = Acknowledge(Applied(ui, x), x)
    BY <1>1, <1>6 DEF Receive
  <2>2. calls \cup Sent(ui, m) = calls /\ m + Len(ui.sends) = m
    <3>1. Sent(ui, m) = {}
      BY <1>0, SentNone
    <3>2. Len(ui.sends) = 0
      OBVIOUS
    <3>. QED
      BY <1>0, <3>1, <3>2
  <2>3. Turning(ui, calls, dh, h, m, b, x) /\ Tracking(ui, calls, dh, h, m, x)
    BY <1>3, <1>6, <2>2 DEF Turning, Tracking
  <2>4. /\ Turning(r, calls, dh, h, m, b, NoEvent) /\ Tracking(r, calls, dh, h, m, NoEvent)
        /\ r \in Windows /\ SameLink(ui, r) /\ SameControl(ui, r) /\ SameTask(ui, r)
        /\ SameTrace(ui, r) /\ Advances(ui.snapshot, r.snapshot)
    BY <1>0, <1>3, <1>6, <2>1, <2>3, TurnTakes
  <2>5. Settled(r, h)
    <3>1. ~h.failed /\ r.attachment # 0 /\ ~r.subscribing /\ r.refresh => ui.snapshot = Absent
      BY <1>0, <2>4 DEF Settled, SameTask, SameLink
    <3>2. ui.snapshot = Absent => r.snapshot = Absent
      <4>1. ui.snapshot = Absent => Applied(ui, x) = ui
        BY DEF Applied
      <4>2. SameShown(Applied(ui, x), r)
        <5>1. Applied(ui, x) \in Windows
          BY <1>0, <1>3, Applies
        <5>. QED
          BY <1>3, <2>1, <5>1, Acknowledges
      <4>. QED
        BY <4>1, <4>2 DEF SameShown
    <3>. QED
      BY <1>0, <2>4, <3>1, <3>2 DEF Settled, SameTask
  <2>. QED
    BY <1>2, <2>4, <2>5 DEF Ready, Steps, SameTrace
<1>. QED
  BY <1>4, <1>5, <1>6

(* A turn that makes one call. *)
LEMMA SendsOne ==
    ASSUME NEW v \in Windows, NEW kind \in Kinds, NEW g \in Guests,
           NEW m \in Nat, NEW left, NEW r, r = Request(v, kind, g)
    PROVE  /\ r \in Windows /\ Frame(v, r) /\ SameShown(v, r) /\ r.told = v.told
           /\ Call(kind, g, NoEvent) \in Commands
           /\ v.sends = <<>> =>
                /\ left \cup Sent(r, m) = left \cup {Made(v, Call(kind, g, NoEvent), m + 1)}
                /\ m + Len(r.sends) = m + 1
<1>1. PICK x : x = Call(kind, g, NoEvent)
  OBVIOUS
<1>2. x \in Commands
  BY <1>1, NoneTyped DEF Call, Commands
<1>3. r = [v EXCEPT !.sends = Append(@, x)]
  BY <1>1 DEF Request
<1>4. Append(v.sends, x) \in Seq(Commands)
  <2>1. v.sends \in Seq(Commands)
    BY DEF Windows
  <2>. QED
    BY <1>2, <2>1
<1>5. /\ r \in Windows /\ Frame(v, r) /\ SameShown(v, r) /\ r.told = v.told
      /\ r.sends = Append(v.sends, x)
  BY <1>3, <1>4 DEF Windows, Frame, SameLink, SameControl, SameShown, SameTask, SameTrace
<1>6. SameLink(v, r) /\ r \in Windows /\ OneMore(v, r, x)
  BY <1>5 DEF Frame, OneMore
<1>7. Sent(r, m) = Sent(v, m) \cup {Made(v, x, m + Len(v.sends) + 1)}
  BY <1>2, <1>6, SentAppend
<1>8. m + Len(r.sends) = m + Len(v.sends) + 1
  BY <1>2, <1>6, SentAppend
<1>9. ASSUME v.sends = <<>> PROVE Sent(v, m) = {} /\ m + Len(v.sends) + 1 = m + 1
  <2>1. Sent(v, m) = {}
    BY <1>9, SentNone
  <2>2. Len(v.sends) = 0
    BY <1>9
  <2>. QED
    BY <2>1, <2>2
<1>. QED
  BY <1>1, <1>2, <1>5, <1>7, <1>8, <1>9

(* The user connects, at first or to a new worker when that before is gone. *)
LEMMA Connects ==
    ASSUME made \in Nat, NEW h, NEW b, Whole(ui, calls, channel, h, made, b), ui.sends = <<>>,
           ui.connecting = "no", ~ui.connected,
           NEW r, r = Request([ui EXCEPT !.epoch = @ + 1, !.attachment = 0,
                                         !.connecting = "attaching", !.trace = NoTrace,
                                         !.traceRequest = 0, !.problem = FALSE],
                              "connect", Absent)
    PROVE  Ready(ui, r, calls, <<>>, h, made, b)
<1>0. /\ Most(ui, calls, channel, h, made, b, NoEvent) /\ ui \in Windows /\ b \in Nat
      /\ h \in Hosts /\ Settled(ui, h) /\ ui.epoch \in Nat /\ calls \subseteq Records
  BY DEF Whole, Most, Typed, Windows
<1>1. PICK v : v = [ui EXCEPT !.epoch = @ + 1, !.attachment = 0, !.connecting = "attaching",
                             !.trace = NoTrace, !.traceRequest = 0, !.problem = FALSE]
  OBVIOUS
<1>2. v \in Windows
  <2>1. PICK x : x = [ui EXCEPT !.epoch = @ + 1]
    OBVIOUS
  <2>2. PICK y : y = [x EXCEPT !.attachment = 0]
    OBVIOUS
  <2>3. PICK z : z = [y EXCEPT !.connecting = "attaching", !.trace = NoTrace, !.problem = FALSE]
    OBVIOUS
  <2>4. x \in Windows
    <3>1. PICK e \in Nat : e = ui.epoch + 1
      BY <1>0
    <3>2. x = [ui EXCEPT !.epoch = e]
      BY <2>1, <3>1
    <3>. QED
      BY <1>0, <3>2 DEF Windows
  <2>5. y \in Windows
    <3>1. \A n \in Nat : [x EXCEPT !.attachment = n] \in Windows
      BY <2>4 DEF Windows
    <3>. QED
      BY <2>2, <3>1
  <2>6. z \in Windows
    <3>1. NoTrace \in [guest : Guests, request : Nat]
      BY NoneTyped DEF NoTrace
    <3>. QED
      BY <2>3, <2>5, <3>1 DEF Windows
  <2>7. \A n \in Nat : [z EXCEPT !.traceRequest = n] \in Windows
    BY <2>6 DEF Windows
  <2>8. v = [z EXCEPT !.traceRequest = 0]
    BY <1>0, <1>1, <2>1, <2>2, <2>3 DEF Windows
  <2>. QED
    BY <2>7, <2>8
<1>3. /\ v.epoch = ui.epoch + 1 /\ v.attachment = 0 /\ v.connecting = "attaching"
      /\ ~v.connected /\ v.controlling = ui.controlling /\ v.awaited = ui.awaited
      /\ v.trace = NoTrace /\ v.traceRequest = 0 /\ v.sends = <<>>
      /\ SameShown(ui, v) /\ SameTask(ui, v)
  BY <1>0, <1>1 DEF Windows, SameShown, SameTask
<1>4. /\ r \in Windows /\ Frame(v, r) /\ SameShown(v, r)
      /\ Call("connect", Absent, NoEvent) \in Commands
      /\ calls \cup Sent(r, made) = calls \cup {Made(v, Call("connect", Absent, NoEvent), made + 1)}
      /\ made + Len(r.sends) = made + 1
  <2>1. "connect" \in Kinds /\ Absent \in Guests /\ r = Request(v, "connect", Absent)
    BY <1>1, NoneTyped DEF Kinds
  <2>. QED
    BY <1>2, <1>3, <2>1, SendsOne
<1>5. PICK y : y = Made(v, Call("connect", Absent, NoEvent), made + 1)
  OBVIOUS
<1>6. /\ y \in Records /\ y.call.kind = "connect" /\ y.id = made + 1 /\ y.epoch = ui.epoch + 1
      /\ y.answer.type = "none"
  <2>1. made + 1 \in Nat /\ Call("connect", Absent, NoEvent).kind = "connect"
    BY DEF Call
  <2>2. y \in Records /\ y.call = Call("connect", Absent, NoEvent) /\ y.id = made + 1
        /\ y.epoch = v.epoch /\ y.answer = Unanswered
    BY <1>2, <1>4, <1>5, <2>1, MadeTyped
  <2>. QED
    BY <1>3, <2>1, <2>2 DEF Unanswered
<1>7. /\ \A c \in calls : c.call.kind # "connect"
      /\ h.failed \/ h.view = 0
  <2>1. \A c \in calls : c.call.kind # "connect"
    BY <1>0 DEF Most, Calling, Connecting
  <2>. QED
    BY <1>0, <2>1 DEF Most, Link, Calling
<1>8. \A c \in calls : c.epoch \in Nat /\ c.epoch <= ui.epoch /\ c.epoch # ui.epoch + 1
  BY <1>0 DEF Most, Names, Records
<1>9. Most(v, calls \cup {y}, <<>>, h, made + 1, b, NoEvent)
  <2> DEFINE cs == calls \cup {y}
  <2> USE <1>3, <1>6, <1>7 DEF SameShown, SameTask
  <2>1. Typed(v, cs, <<>>, h, made + 1)
    <3>1. <<>> \in Seq(Events)
      OBVIOUS
    <3>. QED
      BY <1>0, <1>2, <3>1 DEF Typed
  <2>2. Names(v, cs, <<>>, h, made + 1, b, NoEvent)
    <3>1. b <= made /\ b <= made + 1 /\ b < made + 1 /\ Drawn(made + 1, 0, made + 1)
      BY <1>0 DEF Most, Names, Drawn
    <3>2. \A c \in calls : c.id \in Nat /\ Drawn(c.id, 0, made + 1) /\ c.id # made + 1
      BY <1>0 DEF Most, Names, Drawn, Records
    <3>3. \A e \in Events, k \in Nat : Named(e, k, made) => Named(e, k, made + 1)
      BY DEF Named, Drawn, Events
    <3>4. /\ h.waiting \in Events /\ h.latest \in Events /\ ui.pending \in Events
          /\ h.subscription \in Nat /\ 0 \in Nat
      BY <1>0 DEF Hosts, Windows
    <3>5. /\ \A c \in cs : /\ Drawn(c.id, 0, made + 1) /\ c.epoch <= v.epoch
                           /\ c.epoch = v.epoch => b < c.id
          /\ \A c, d \in cs : c.id = d.id => c = d
      <4>1. \A n \in Nat : n <= ui.epoch => n <= ui.epoch + 1
        BY <1>0
      <4>2. ui.epoch + 1 <= ui.epoch + 1
        BY <1>0
      <4>. QED
        BY <1>0, <1>8, <3>1, <3>2, <4>1, <4>2 DEF Most, Names
    <3>6. /\ h.subscription = 0 \/ Drawn(h.subscription, b, made + 1)
          /\ Named(h.waiting, b, made + 1) /\ Named(h.latest, b, made + 1)
          /\ Named(v.pending, 0, made + 1)
      <4>1. h.subscription = 0 \/ Drawn(h.subscription, b, made + 1)
        BY <1>0, <3>4 DEF Most, Names, Drawn
      <4>. QED
        BY <1>0, <3>3, <3>4, <4>1 DEF Most, Names
    <3>. QED
      BY <3>1, <3>5, <3>6 DEF Names, Named
  <2>3. Link(v, <<>>, h)
    BY <1>0 DEF Most, Link
  <2>4. Calling(v, cs, <<>>, h)
    <3>1. h.failed \/ \A c \in calls : c.view # h.view
      BY <1>0 DEF Most, Calling, Working, Typed, Records
    <3>. QED
      BY <1>0, <1>8, <3>1 DEF Most, Calling, Connecting, Working
  <2>5. Tasks(v, cs)
    BY <1>0 DEF Most, Tasks, Controls
  <2>6. Traces(v, cs, made + 1)
    <3>1. \A c \in cs : c.id # 0
      BY <1>0 DEF Most, Names, Drawn, Records
    <3>. QED
      BY <3>1 DEF Traces, NoTrace
  <2>7. Pasts(v, cs, <<>>, h, b, NoEvent)
    BY <1>0, <1>8 DEF Most, Pasts
  <2>8. Loads(v, cs) /\ Controlling(v, cs, h)
    BY <1>8 DEF Loads, Controlling
  <2>9. Credit(v, cs, <<>>, h, b, NoEvent)
    BY <1>0 DEF Most, Credit
  <2>. QED
    BY <1>0, <2>1, <2>2, <2>3, <2>4, <2>5, <2>6, <2>7, <2>8, <2>9, NoneTyped DEF Most
<1>10. Most(r, calls \cup {y}, <<>>, h, made + 1, b, NoEvent)
  BY <1>4, <1>9, SameMost
<1>11. Turning(r, calls, <<>>, h, made, b, NoEvent)
  BY <1>4, <1>5, <1>10 DEF Turning
<1>12. Tracking(r, calls, <<>>, h, made, NoEvent)
  BY <1>3, <1>4 DEF Tracking, Following, Frame, SameLink
<1>13. Settled(r, h)
  BY <1>0, <1>3, <1>4 DEF Settled, Frame, SameLink, SameTask
<1>14. Steps(ui, r)
  <2>1. r.epoch # ui.epoch
    BY <1>0, <1>3, <1>4 DEF Frame, SameLink
  <2>. QED
    BY <1>3, <1>4, <2>1 DEF Steps, Frame, SameTrace
<1>. QED
  BY <1>4, <1>11, <1>12, <1>13, <1>14 DEF Ready

(* The user controls the machine that is shown, or loads another. *)
LEMMA Commanded ==
    ASSUME made \in Nat, NEW ch, NEW h, NEW b, Whole(ui, calls, ch, h, made, b), ui.sends = <<>>,
           ui.connected, ui.controlling = "no", NEW action \in Controls,
           action # "load" => ui.snapshot # Absent,
           NEW r, r = Request([ui EXCEPT !.controlling = "requested", !.problem = FALSE], action,
                              ui.snapshot)
    PROVE  Ready(ui, r, calls, ch, h, made, b)
<1>0. /\ Most(ui, calls, ch, h, made, b, NoEvent) /\ Following(ui, calls, ch, h, NoEvent)
      /\ ui \in Windows /\ Settled(ui, h) /\ ui.snapshot \in Guests
  BY DEF Whole, Most, Typed, Windows
<1>1. PICK v : v = [ui EXCEPT !.controlling = "requested", !.problem = FALSE]
  OBVIOUS
<1>2. /\ v \in Windows /\ v.sends = <<>> /\ v.told = ui.told /\ v.connecting = ui.connecting
      /\ v.controlling = "requested" /\ v.awaited = ui.awaited
      /\ SameLink(ui, v) /\ SameShown(ui, v) /\ SameTask(ui, v) /\ SameTrace(ui, v)
  BY <1>0, <1>1 DEF Windows, SameLink, SameShown, SameTask, SameTrace
<1>3. (\A c \in calls : c.call.kind \notin Controls) /\ ui.awaited = 0 /\ ui.attachment # 0
  BY <1>0 DEF Most, Tasks, Link
<1>4. Most(v, calls, ch, h, made, b, NoEvent) /\ Following(v, calls, ch, h, NoEvent)
  BY <1>0, <1>2, <1>3, ChangesControl
<1>5. PICK x : x = Call(action, ui.snapshot, NoEvent)
  OBVIOUS
<1>6. /\ r \in Windows /\ Frame(v, r) /\ SameShown(v, r) /\ r.told = v.told /\ x \in Commands
      /\ calls \cup Sent(r, made) = calls \cup {Made(v, x, made + 1)}
      /\ made + Len(r.sends) = made + 1
  <2>1. action \in Kinds /\ r = Request(v, action, ui.snapshot)
    BY <1>1 DEF Kinds
  <2>. QED
    BY <1>0, <1>2, <1>5, <2>1, SendsOne
<1>7. /\ Most(v, calls \cup {Made(v, x, made + 1)}, ch, h, made + 1, b, NoEvent)
      /\ Following(v, calls \cup {Made(v, x, made + 1)}, ch, h, NoEvent)
  <2>1. x.kind = action /\ x.guest = v.snapshot /\ v.attachment # 0
    BY <1>2, <1>3, <1>5 DEF Call, SameShown, SameLink
  <2>2. x.kind # "load" => x.guest # Absent
    BY <1>2, <2>1 DEF SameShown
  <2>. QED
    BY <1>2, <1>3, <1>4, <1>6, <2>1, <2>2, AddsControl
<1>8. Turning(r, calls, ch, h, made, b, NoEvent) /\ Tracking(r, calls, ch, h, made, NoEvent)
  <2>1. /\ Most(r, calls \cup {Made(v, x, made + 1)}, ch, h, made + 1, b, NoEvent)
        /\ Following(r, calls \cup {Made(v, x, made + 1)}, ch, h, NoEvent)
    BY <1>6, <1>7, SameMost
  <2>. QED
    BY <1>6, <2>1 DEF Turning, Tracking
<1>9. Settled(r, h) /\ Steps(ui, r)
  BY <1>0, <1>2, <1>6
     DEF Settled, Steps, Frame, SameLink, SameShown, SameTask, SameTrace, Advances
<1>. QED
  BY <1>6, <1>8, <1>9 DEF Ready

(* The user asks to follow the machine that is shown, or for its trace. *)
LEMMA Inspects ==
    ASSUME made \in Nat, NEW ch, NEW h, NEW b, Whole(ui, calls, ch, h, made, b), ui.sends = <<>>,
           NEW r, r = Subscribe([ui EXCEPT !.problem = FALSE]) \/ r = Traced(ui)
    PROVE  Ready(ui, r, calls, ch, h, made, b)
<1>0. /\ Most(ui, calls, ch, h, made, b, NoEvent) /\ Following(ui, calls, ch, h, NoEvent)
      /\ ui \in Windows /\ Settled(ui, h)
  BY DEF Whole, Most, Typed
<1>1. CASE r = Subscribe([ui EXCEPT !.problem = FALSE])
  <2>1. PICK v : v = [ui EXCEPT !.problem = FALSE]
    OBVIOUS
  <2>2. v \in Windows /\ v.sends = <<>> /\ v.told = ui.told /\ Frame(ui, v) /\ SameShown(ui, v)
    BY <1>0, <2>1 DEF Windows, Frame, SameLink, SameControl, SameShown, SameTask, SameTrace
  <2>3. Turning(v, calls, ch, h, made, b, NoEvent)
    BY <1>0, <2>2, SameMost, TurnSilent
  <2>4. /\ Turning(r, calls, ch, h, made, b, NoEvent) /\ Tracking(r, calls, ch, h, made, NoEvent)
        /\ ~h.failed /\ r.attachment # 0 /\ ~r.subscribing /\ r.refresh => r.snapshot = Absent
    BY <1>1, <2>1, <2>2, <2>3, TurnSubscribes
  <2>5. /\ r \in Windows /\ r.pending = v.pending
        /\ SameLink(v, r) /\ SameShown(v, r) /\ SameTrace(v, r)
        /\ ~r.subscribing => ~v.subscribing
    <3>1. r.subscribing \/ r = v \/ ~v.subscribing
      BY <1>1, <2>1, <2>2, Subscribes, Asks
    <3>. QED
      BY <1>1, <2>1, <2>2, <3>1, Subscribes
  <2>6. Settled(r, h) /\ Steps(ui, r)
    <3>1. Settled(r, h)
      BY <1>0, <2>2, <2>4, <2>5 DEF Settled, Frame, SameTask
    <3>. QED
      BY <2>2, <2>5, <3>1 DEF Steps, Frame, SameShown, SameTrace, Advances
  <2>. QED
    BY <2>4, <2>5, <2>6 DEF Ready
<1>2. CASE r = Traced(ui)
  <2>1. Turning(ui, calls, ch, h, made, b, NoEvent) /\ Tracking(ui, calls, ch, h, made, NoEvent)
    BY <1>0, TurnSilent
  <2>2. /\ Turning(r, calls, ch, h, made, b, NoEvent) /\ Tracking(r, calls, ch, h, made, NoEvent)
        /\ r \in Windows /\ SameLink(ui, r) /\ SameShown(ui, r) /\ SameTask(ui, r)
        /\ r.trace = ui.trace
    BY <1>0, <1>2, <2>1, TurnReads
  <2>3. Settled(r, h) /\ Steps(ui, r)
    BY <1>0, <2>2 DEF Settled, Steps, SameLink, SameShown, SameTask, Advances
  <2>. QED
    BY <2>2, <2>3 DEF Ready
<1>. QED
  BY <1>1, <1>2

-----------------------------------------------------------------------------
(* The steps of the supervisor.                                            *)

(* The answer a of a call replaces it among the calls in flight. *)
Replies(cs, ds, c, y, a) ==
    /\ c \in cs /\ c.answer.type = "none" /\ a \in Answers /\ a.type # "none"
    /\ y = [c EXCEPT !.answer = a] /\ ds = (cs \ {c}) \cup {y}

(* Answering one call leaves all others, and of that one all but the answer.  *)
LEMMA Replaced ==
    ASSUME NEW cs \in SUBSET Records, NEW ds, NEW c, NEW y, NEW a, Replies(cs, ds, c, y, a)
    PROVE  /\ y \in Records /\ y.call = c.call /\ y.id = c.id /\ y.epoch = c.epoch
           /\ y.view = c.view /\ y.answer = a /\ ds \subseteq Records
           /\ \A d \in ds : d = y \/ (d \in cs /\ d # c)
           /\ \A d \in cs : d = c \/ d \in ds
           /\ y \in ds /\ c \in cs /\ c.answer.type = "none" /\ a.type # "none"
<1>1. c \in Records /\ a \in Answers /\ y = [c EXCEPT !.answer = a]
  BY DEF Replies
<1>2. /\ y \in Records /\ y.call = c.call /\ y.id = c.id /\ y.epoch = c.epoch
      /\ y.view = c.view /\ y.answer = a
  BY <1>1 DEF Records
<1>3. /\ ds = (cs \ {c}) \cup {y}
      /\ c \in cs /\ c.answer.type = "none" /\ a.type # "none"
  BY DEF Replies
<1>. QED
  BY <1>2, <1>3

(* The names, tasks and traces are those of the calls, whatever is answered. *)
LEMMA RepliesKeep ==
    ASSUME NEW u, NEW cs, NEW ch, NEW h, NEW m, NEW b, Most(u, cs, ch, h, m, b, NoEvent),
           NEW ds, NEW c, NEW y, NEW a, Replies(cs, ds, c, y, a)
    PROVE  /\ Typed(u, ds, ch, h, m) /\ Names(u, ds, ch, h, m, b, NoEvent)
           /\ Tasks(u, ds) /\ Traces(u, ds, m)
           /\ Changing(u, cs) => Changing(u, ds)
<1>0. /\ y \in Records /\ y.call = c.call /\ y.id = c.id /\ y.epoch = c.epoch
      /\ y.view = c.view /\ y.answer = a /\ ds \subseteq Records /\ c \in cs
      /\ \A d \in ds : d = y \/ (d \in cs /\ d # c)
      /\ \A d \in cs : d = c \/ d \in ds
      /\ y \in ds /\ c.answer.type = "none"
  <2>1. cs \in SUBSET Records
    BY DEF Most, Typed
  <2>. QED
    BY <2>1, Replaced
<1>1. Typed(u, ds, ch, h, m)
  BY <1>0 DEF Most, Typed
<1>2. Names(u, ds, ch, h, m, b, NoEvent)
  BY <1>0 DEF Most, Names
<1>3. Tasks(u, ds)
  <2>1. (\E d \in ds : d.call.kind = "subscribe") <=> (\E d \in cs : d.call.kind = "subscribe")
    BY <1>0
  <2>. QED
    BY <1>0, <2>1 DEF Most, Tasks
<1>4. Traces(u, ds, m)
  BY <1>0 DEF Most, Traces
<1>5. Changing(u, cs) => Changing(u, ds)
  BY <1>0 DEF Changing
<1>. QED
  BY <1>1, <1>2, <1>3, <1>4, <1>5

(* A call is refused, or fails, or reads a trace: the supervisor changes nothing. *)
LEMMA Refuses ==
    ASSUME NEW u, NEW cs, NEW ch, NEW h, NEW m, NEW b, Whole(u, cs, ch, h, m, b),
           NEW ds, NEW c, NEW y, NEW a, Replies(cs, ds, c, y, a),
           a.type = "ok" => c.call.kind = "trace" /\ Past(a.guest, h),
           Returns(c, h, b) => h.failed
    PROVE  Whole(u, ds, ch, h, m, b)
<1>0. /\ y.call = c.call /\ y.id = c.id /\ y.epoch = c.epoch
      /\ y.view = c.view /\ y.answer = a /\ c \in cs
      /\ \A d \in ds : d = y \/ (d \in cs /\ d # c)
      /\ \A d \in cs : d = c \/ d \in ds
      /\ c.answer.type = "none" /\ a.type # "none"
  <2>1. cs \in SUBSET Records
    BY DEF Whole, Most, Typed
  <2>. QED
    BY <2>1, Replaced
<1>1. Most(u, cs, ch, h, m, b, NoEvent) /\ Following(u, cs, ch, h, NoEvent)
  BY DEF Whole
<1>2. /\ Typed(u, ds, ch, h, m) /\ Names(u, ds, ch, h, m, b, NoEvent)
      /\ Tasks(u, ds) /\ Traces(u, ds, m)
      /\ Changing(u, cs) => Changing(u, ds)
  BY <1>1, RepliesKeep
<1>3. Calling(u, ds, ch, h)
  <2>1. \A d \in ds : IF d.call.kind = "connect" THEN Connecting(u, d, ch, h) ELSE Working(u, d, h)
    <3>1. CASE c.call.kind = "connect"
      <4>1. Connecting(u, c, ch, h)
        BY <1>0, <1>1, <3>1 DEF Most, Calling
      <4>2. Connecting(u, y, ch, h)
        BY <1>0, <3>1, <4>1 DEF Connecting
      <4>. QED
        BY <1>0, <1>1, <3>1, <4>2 DEF Most, Calling
    <3>2. CASE c.call.kind # "connect"
      <4>1. Working(u, c, h)
        BY <1>0, <1>1, <3>2 DEF Most, Calling
      <4>2. Working(u, y, h)
        BY <1>0, <4>1 DEF Working
      <4>. QED
        BY <1>0, <1>1, <3>2, <4>2 DEF Most, Calling
    <3>. QED
      BY <3>1, <3>2
  <2>2. \A d, k \in ds : d.call.kind = "connect" /\ k.call.kind = "connect" => d = k
    BY <1>0, <1>1 DEF Most, Calling
  <2>3. ~h.failed /\ h.view # 0 /\ u.attachment = 0 =>
          \E d \in ds : d.call.kind = "connect" /\ d.answer.type = "ok"
    BY <1>0, <1>1 DEF Most, Calling
  <2>. QED
    BY <2>1, <2>2, <2>3 DEF Calling
<1>4. Pasts(u, ds, ch, h, b, NoEvent) /\ Loads(u, ds) /\ Controlling(u, ds, h)
  BY <1>0, <1>1 DEF Most, Pasts, Loads, Controlling, Controls
<1>5. Credit(u, ds, ch, h, b, NoEvent)
  <2>1. h.failed \/ \A d \in cs : Returns(d, h, b) => d \in ds
    BY <1>0
  <2>2. \A d \in ds : Returns(d, h, b) => d \in cs
    BY <1>0 DEF Returns
  <2>. QED
    BY <1>0, <1>1, <2>1, <2>2 DEF Most, Credit
<1>6. Following(u, ds, ch, h, NoEvent)
  BY <1>0, <1>1, <1>2 DEF Following, Follows
<1>. QED
  BY <1>1, <1>2, <1>3, <1>4, <1>5, <1>6 DEF Whole, Most

(* A call of the attached window that the supervisor serves. *)
LEMMA Served ==
    ASSUME NEW u, NEW cs, NEW ch, NEW h, NEW m, NEW b, Most(u, cs, ch, h, m, b, NoEvent),
           NEW c \in cs, c.call.kind # "connect", c.view = h.view, ~h.failed
    PROVE  u.attachment # 0 /\ c.epoch = u.epoch /\ c \in Records /\ h \in Hosts
BY DEF Most, Typed, Calling, Working

(* The subscription is the one that the task asked for. *)
LEMMA ServesSubscribe ==
    ASSUME NEW u, NEW cs, NEW ch, NEW h, NEW m, NEW b, Whole(u, cs, ch, h, m, b),
           NEW ds, NEW c, NEW y, NEW a, Replies(cs, ds, c, y, a),
           c.call.kind = "subscribe", c.view = h.view, ~h.failed, h.guest # Absent,
           a.type = "ok", a.guest = Absent,
           NEW k, k = [h EXCEPT !.subscription = c.id]
    PROVE  Whole(u, ds, ch, k, m, b)
<1>0. /\ y.call = c.call /\ y.id = c.id /\ y.epoch = c.epoch
      /\ y.view = c.view /\ y.answer = a /\ c \in cs
      /\ \A d \in ds : d = y \/ (d \in cs /\ d # c)
      /\ \A d \in cs : d = c \/ d \in ds
      /\ c.answer.type = "none"
  <2>1. cs \in SUBSET Records
    BY DEF Whole, Most, Typed
  <2>. QED
    BY <2>1, Replaced
<1>1. Most(u, cs, ch, h, m, b, NoEvent) /\ Following(u, cs, ch, h, NoEvent)
  BY DEF Whole
<1>2. /\ Typed(u, ds, ch, h, m) /\ Names(u, ds, ch, h, m, b, NoEvent)
      /\ Tasks(u, ds) /\ Traces(u, ds, m)
  BY <1>1, RepliesKeep
<1>3. u.attachment # 0 /\ c.epoch = u.epoch /\ c.id \in Nat /\ h \in Hosts
  <2>1. u.attachment # 0 /\ c.epoch = u.epoch /\ c \in Records /\ h \in Hosts
    BY <1>0, <1>1, Served
  <2>. QED
    BY <2>1 DEF Records
<1>4. /\ k \in Hosts /\ k.view = h.view /\ k.sessions = h.sessions /\ k.failed = h.failed
      /\ k.guest = h.guest /\ k.waiting = h.waiting /\ k.latest = h.latest
      /\ k.subscription = c.id
  BY <1>3 DEF Hosts
<1>5. Names(u, ds, ch, k, m, b, NoEvent)
  <2>1. Drawn(c.id, b, m)
    BY <1>0, <1>1, <1>3 DEF Most, Names, Drawn
  <2>. QED
    BY <1>2, <1>4, <2>1 DEF Names
<1>6. Link(u, ch, k)
  BY <1>1, <1>3, <1>4 DEF Most, Link
<1>7. Calling(u, ds, ch, k)
  BY <1>0, <1>1, <1>3, <1>4 DEF Most, Calling, Connecting, Working
<1>8. Pasts(u, ds, ch, k, b, NoEvent)
  <2>1. \A g : Past(g, k) <=> Past(g, h)
    BY <1>4 DEF Past
  <2>2. Past(Absent, h)
    <3>1. h.sessions \in Nat /\ h.guest \in Guests
      BY <1>3 DEF Hosts
    <3>2. h.sessions = 0 => h.guest = Absent
      BY <1>1, <3>1 DEF Most, Link, Guests
    <3>. QED
      BY <3>1, <3>2 DEF Past, Absent
  <2>. QED
    BY <1>0, <1>1, <1>4, <2>1, <2>2 DEF Most, Pasts
<1>9. Loads(u, ds) /\ Controlling(u, ds, k)
  BY <1>0, <1>1, <1>4 DEF Most, Loads, Controlling, Controls
<1>10. Credit(u, ds, ch, k, b, NoEvent)
  <2>1. \A d \in ds : Returns(d, k, b) <=> (d \in cs /\ Returns(d, h, b))
    BY <1>0, <1>4 DEF Returns
  <2>2. \A d \in cs : Returns(d, h, b) => d \in ds
    BY <1>0 DEF Returns
  <2>. QED
    BY <1>0, <1>1, <1>4, <2>1, <2>2 DEF Most, Credit
<1>11. Following(u, ds, ch, k, NoEvent)
  <2>1. u.subscribing /\ \A d \in ds : d.call.kind = "subscribe" => d = y
    BY <1>0, <1>1 DEF Most, Tasks
  <2>. QED
    BY <1>0, <1>1, <1>3, <1>4, <2>1 DEF Following, Follows
<1>12. Settled(u, k)
  BY <1>4 DEF Whole, Settled
<1>. QED
  BY <1>2, <1>4, <1>5, <1>6, <1>7, <1>8, <1>9, <1>10, <1>11, <1>12, <1>1 DEF Whole, Most, Typed

(* What the worker has reached it has not left: the past stays past, whether *)
(* its machine observes more, gives way to a later session, or is closed.    *)
Reaches(h, k) ==
    \/ k.guest = Absent /\ k.sessions = h.sessions
    \/ /\ k.guest # Absent /\ h.guest # Absent /\ k.sessions = h.sessions
       /\ k.guest.session = h.guest.session /\ h.guest.sequence <= k.guest.sequence
    \/ k.guest # Absent /\ k.sessions = h.sessions + 1 /\ k.guest.session = k.sessions

(* What was a state of a session once is so for good.                         *)
LEMMA PastStays ==
    ASSUME NEW u, NEW ch, NEW h \in Hosts, Link(u, ch, h), NEW k \in Hosts, Reaches(h, k)
    PROVE  /\ \A g \in Guests : Past(g, h) => Past(g, k)
           /\ Past(k.guest, k) /\ Past(Absent, k)
           /\ k.guest # Absent => k.guest.session = k.sessions
<1>1. /\ h.sessions \in Nat /\ k.sessions \in Nat /\ h.guest \in Guests /\ k.guest \in Guests
      /\ h.guest # Absent => h.guest.session = h.sessions
  BY DEF Hosts, Link
<1>2. /\ k.guest # Absent => k.guest.session = k.sessions
      /\ k.guest = Absent => k.guest.session = 0
  BY <1>1 DEF Reaches, Absent
<1>3. \A g \in Guests : g.session \in Nat /\ g.sequence \in Nat /\ (g.session = 0 => g = Absent)
  BY DEF Guests
<1>4. ASSUME NEW g \in Guests, Past(g, h) PROVE Past(g, k)
  BY <1>1, <1>2, <1>3, <1>4 DEF Past, Reaches
<1>5. Past(k.guest, k)
  BY <1>1, <1>2, <1>3 DEF Past
<1>6. Past(Absent, k)
  <2>1. Absent.session = 0 /\ Absent.sequence = 0
    BY DEF Absent
  <2>2. k.sessions = 0 => k.guest = Absent
    BY <1>1, <1>2, <1>3
  <2>. QED
    BY <1>1, <2>1, <2>2 DEF Past
<1>. QED
  BY <1>2, <1>4, <1>5, <1>6

(* The machine changes, with the calls and the stream as they were. *)
LEMMA Observes ==
    ASSUME NEW u, NEW cs, NEW ch, NEW h, NEW m, NEW b, NEW e, Most(u, cs, ch, h, m, b, e),
           ~h.failed, u.attachment # 0, NEW k \in Hosts, Reaches(h, k),
           k.view = h.view, ~k.failed, k.waiting = h.waiting, k.latest = h.latest,
           k.subscription \in {0, h.subscription},
           k.subscription # 0 => k.guest # Absent
    PROVE  Most(u, cs, ch, k, m, b, e)
<1>0. /\ h \in Hosts /\ Link(u, ch, h) /\ u \in Windows /\ e \in Events /\ cs \subseteq Records
      /\ ch \in Seq(Events)
  BY DEF Most, Typed
<1>1. /\ \A g \in Guests : Past(g, h) => Past(g, k)
      /\ k.guest # Absent => k.guest.session = k.sessions
  BY <1>0, PastStays
<1>2. Names(u, cs, ch, k, m, b, e)
  BY DEF Most, Names
<1>3. Link(u, ch, k)
  BY <1>0, <1>1 DEF Link
<1>4. Calling(u, cs, ch, k)
  BY DEF Most, Calling, Connecting, Working
<1>5. Pasts(u, cs, ch, k, b, e)
  <2>1. /\ h.waiting.guest \in Guests /\ h.latest.guest \in Guests /\ e.guest \in Guests
        /\ u.snapshot \in Guests /\ u.pending.guest \in Guests
    <3>1. h.waiting \in Events /\ h.latest \in Events /\ u.pending \in Events /\ u.snapshot \in Guests
      BY <1>0 DEF Hosts, Windows
    <3>. QED
      BY <1>0, <3>1 DEF Events
  <2>2. \A i \in DOMAIN ch : ch[i].guest \in Guests
    <3>1. \A i \in DOMAIN ch : ch[i] \in Events
      BY <1>0
    <3>. QED
      BY <3>1 DEF Events
  <2>3. \A c \in cs : c.answer.guest \in Guests
    BY <1>0 DEF Records, Answers
  <2>. QED
    BY <1>1, <2>1, <2>2, <2>3 DEF Most, Pasts
<1>6. Controlling(u, cs, k) /\ Credit(u, cs, ch, k, b, e)
  BY DEF Most, Controlling, Credit, Returns
<1>. QED
  BY <1>2, <1>3, <1>4, <1>5, <1>6 DEF Most, Typed

(* A control has its effect, and ends the stream of the session it ends. *)
LEMMA ServesControl ==
    ASSUME NEW u, NEW cs, NEW ch, NEW h, NEW m, NEW b, Whole(u, cs, ch, h, m, b),
           NEW ds, NEW c, NEW y, NEW a, Replies(cs, ds, c, y, a), c.call.kind \in Controls,
           c.view = h.view, ~h.failed, SameKey(h.guest, c.call.guest), a.type = "ok",
           NEW k \in Hosts, Reaches(h, k), k.guest = a.guest,
           k.view = h.view, ~k.failed, k.waiting = h.waiting, k.latest = h.latest,
           k.subscription = IF SameKey(a.guest, h.guest) THEN h.subscription ELSE 0,
           c.call.kind \in {"run", "patch", "record"} => SameKey(a.guest, h.guest),
           c.call.kind = "load" => k.sessions = h.sessions + 1 /\ k.guest # Absent
    PROVE  Whole(u, ds, ch, k, m, b)
<1>0. /\ y.call = c.call /\ y.id = c.id /\ y.epoch = c.epoch
      /\ y.view = c.view /\ y.answer = a /\ c \in cs
      /\ \A d \in ds : d = y \/ (d \in cs /\ d # c)
      /\ \A d \in cs : d = c \/ d \in ds
      /\ c.answer.type = "none" /\ y \in ds
  <2>1. cs \in SUBSET Records
    BY DEF Whole, Most, Typed
  <2>. QED
    BY <2>1, Replaced
<1>1. Most(u, cs, ch, h, m, b, NoEvent) /\ Following(u, cs, ch, h, NoEvent)
  BY DEF Whole
<1>2. /\ u.attachment # 0 /\ c.epoch = u.epoch /\ h \in Hosts
      /\ c.call.kind \notin {"connect", "subscribe", "ack"}
  BY <1>0, <1>1, Served DEF Controls
<1>3. k.subscription # 0 => k.guest # Absent
  <2>1. SUFFICES ASSUME k.subscription # 0 PROVE k.guest # Absent
    OBVIOUS
  <2>2. SameKey(k.guest, h.guest) /\ h.guest # Absent
    BY <1>1, <2>1 DEF Most, Link
  <2>3. h.guest \in Guests
    BY <1>2 DEF Hosts
  <2>. QED
    BY <2>2, <2>3 DEF SameKey, Guests, Absent
<1>4. Most(u, cs, ch, k, m, b, NoEvent)
  BY <1>1, <1>2, <1>3, Observes
<1>5. /\ Typed(u, ds, ch, k, m) /\ Names(u, ds, ch, k, m, b, NoEvent)
      /\ Tasks(u, ds) /\ Traces(u, ds, m)
      /\ Changing(u, cs) => Changing(u, ds)
  BY <1>4, RepliesKeep
<1>6. Past(a.guest, k)
  <2>1. h \in Hosts /\ Link(u, ch, h) /\ k.guest = a.guest
    BY <1>1, <1>2 DEF Most
  <2>. QED
    BY <2>1, PastStays
<1>7. Calling(u, ds, ch, k)
  <2>1. Working(u, y, k)
    BY <1>0, <1>2, <1>4 DEF Most, Calling, Working
  <2>. QED
    BY <1>0, <1>2, <1>4, <2>1 DEF Most, Calling
<1>8. Pasts(u, ds, ch, k, b, NoEvent)
  BY <1>0, <1>4, <1>6 DEF Most, Pasts
<1>9. Loads(u, ds)
  <2>1. c.call.kind = "load" => u.snapshot.session < a.guest.session
    <3>1. SUFFICES ASSUME c.call.kind = "load" PROVE u.snapshot.session < a.guest.session
      OBVIOUS
    <3>2. a.guest.session = h.sessions + 1
      <4>1. Link(u, ch, k)
        BY <1>4 DEF Most
      <4>. QED
        BY <3>1, <4>1 DEF Link
    <3>3. Past(u.snapshot, h) /\ u.snapshot \in Guests
      BY <1>1, <1>2 DEF Most, Pasts, Typed, Windows
    <3>4. u.snapshot.session \in Nat /\ h.sessions \in Nat
      BY <1>2, <3>3 DEF Guests, Hosts
    <3>. QED
      BY <3>2, <3>3, <3>4 DEF Past
  <2>. QED
    BY <1>0, <1>4, <2>1 DEF Most, Loads
<1>10. Controlling(u, ds, k)
  BY <1>0, <1>4 DEF Most, Controlling, SameKey
<1>11. Credit(u, ds, ch, k, b, NoEvent)
  <2>1. \A d \in ds : Returns(d, k, b) => d \in cs
    BY <1>0, <1>2 DEF Returns
  <2>2. \A d \in cs : Returns(d, k, b) => d \in ds
    BY <1>0, <1>2 DEF Returns
  <2>. QED
    BY <1>0, <1>2, <1>4, <2>1, <2>2 DEF Most, Credit
<1>12. Following(u, ds, ch, k, NoEvent)
  <2>1. ASSUME NEW id, Follows(id, u, cs, ch, h, NoEvent) PROVE Follows(id, u, ds, ch, k, NoEvent)
    <3>1. CASE SameKey(a.guest, h.guest)
      BY <1>5, <2>1, <3>1 DEF Follows
    <3>2. CASE ~SameKey(a.guest, h.guest)
      <4>1. c.call.kind \in {"load", "reset", "close"}
        BY <3>2 DEF Controls
      <4>2. Changing(u, ds)
        BY <1>0, <1>2, <4>1 DEF Changing
      <4>. QED
        BY <3>2, <4>2 DEF Follows
    <3>. QED
      BY <3>1, <3>2
  <2>2. \A d \in ds : d.call.kind = "subscribe" => d \in cs
    BY <1>0, <1>2
  <2>. QED
    BY <1>1, <2>1, <2>2 DEF Following
<1>13. Settled(u, k)
  BY DEF Whole, Settled
<1>. QED
  BY <1>4, <1>5, <1>7, <1>8, <1>9, <1>10, <1>11, <1>12, <1>13 DEF Whole, Most

(* An event is sent, or waits behind the one that is not acknowledged. *)
LEMMA Queued ==
    ASSUME NEW u, NEW cs, NEW ch, NEW h, NEW m, NEW b, Whole(u, cs, ch, h, m, b),
           u.attachment # 0, ~h.failed,
           NEW x \in Events, Drawn(x.id, b, m), x.type # "failed", Past(x.guest, h),
           NEW k \in Hosts, k.view = h.view, k.sessions = h.sessions, ~k.failed, k.guest = h.guest,
           h.subscription # 0,
           k.subscription = h.subscription \/ (k.subscription = 0 /\ x = EndOf(h.subscription)),
           NEW dh,
           \/ h.waiting # NoEvent /\ dh = ch /\ k.waiting = h.waiting /\ k.latest = x
           \/ h.waiting = NoEvent /\ dh = Append(ch, x) /\ k.waiting = x /\ k.latest = NoEvent
    PROVE  Whole(u, cs, dh, k, m, b)
<1>0. /\ Most(u, cs, ch, h, m, b, NoEvent) /\ Following(u, cs, ch, h, NoEvent)
      /\ b \in Nat /\ x.id \in Nat /\ u \in Windows /\ ch \in Seq(Events)
  BY DEF Whole, Most, Typed, Events
<1>1. /\ x # NoEvent /\ b < x.id
  BY <1>0 DEF Drawn, NoEvent
<1>2. \/ h.waiting # NoEvent /\ dh = ch /\ k.waiting = h.waiting /\ k.latest = x
      \/ h.waiting = NoEvent /\ ch = <<>> /\ dh = <<x>> /\ k.waiting = x /\ k.latest = NoEvent
  <2>1. h.waiting = NoEvent => ch = <<>>
    BY <1>0 DEF Most, Credit
  <2>2. Append(<<>>, x) = <<x>>
    OBVIOUS
  <2>. QED
    BY <2>1, <2>2
<1>3. dh \in Seq(Events)
  BY <1>0
<1>4. \A i \in DOMAIN dh : dh[i] = x \/ (i \in DOMAIN ch /\ dh[i] = ch[i])
  <2>1. DOMAIN <<x>> = {1} /\ <<x>>[1] = x
    OBVIOUS
  <2>. QED
    BY <1>2, <2>1
<1>5. Names(u, cs, dh, k, m, b, NoEvent)
  <2>1. Drawn(x.id, 0, m)
    BY <1>0 DEF Drawn
  <2>. QED
    BY <1>0, <1>2, <1>4, <2>1 DEF Most, Names, Named
<1>6. Link(u, dh, k)
  BY <1>0, <1>2 DEF Most, Link
<1>7. Calling(u, cs, dh, k)
  BY <1>0 DEF Most, Calling, Connecting, Working
<1>8. Pasts(u, cs, dh, k, b, NoEvent)
  <2>1. \A g : Past(g, k) <=> Past(g, h)
    BY DEF Past
  <2>2. k.waiting \in {h.waiting, x} /\ k.latest \in {h.waiting, h.latest, x}
    BY <1>2
  <2>. QED
    BY <1>0, <1>2, <1>4, <2>1, <2>2 DEF Most, Pasts
<1>9. Controlling(u, cs, k)
  BY <1>0 DEF Most, Controlling
<1>10. Credit(u, cs, dh, k, b, NoEvent)
  <2>1. \A c : Returns(c, k, b) <=> Returns(c, h, b)
    BY DEF Returns
  <2>2. CASE h.waiting # NoEvent
    BY <1>0, <1>2, <2>1, <2>2 DEF Most, Credit
  <2>3. CASE h.waiting = NoEvent
    <3>1. /\ u.pending.id <= b /\ \A c \in cs : ~Returns(c, h, b)
      <4>1. ~(b < h.waiting.id)
        BY <1>0, <2>3 DEF NoEvent
      <4>2. u.pending.id \in Nat
        BY <1>0 DEF Windows, Events
      <4>3. ~(b < u.pending.id)
        BY <1>0, <4>1 DEF Most, Credit
      <4>4. \A c \in cs : ~Returns(c, h, b)
        BY <1>0, <4>1 DEF Most, Credit, Returns
      <4>. QED
        BY <1>0, <4>2, <4>3, <4>4
    <3>2. /\ dh = <<x>> /\ k.waiting = x /\ k.latest = NoEvent /\ dh # <<>>
      <4>1. Len(<<x>>) = 1 /\ Len(<<>>) = 0
        OBVIOUS
      <4>2. <<x>> # <<>>
        BY <4>1
      <4>3. dh = <<x>> /\ k.waiting = x /\ k.latest = NoEvent
        BY <1>2, <2>3
      <4>. QED
        BY <4>2, <4>3
    <3>3. ~(b < u.pending.id) /\ ~(b < NoEvent.id) /\ NoEvent.type # "failed"
      <4>1. u.pending.id \in Nat
        BY <1>0 DEF Windows, Events
      <4>. QED
        BY <1>0, <3>1, <4>1 DEF NoEvent
    <3>. QED
      BY <1>0, <1>1, <2>1, <3>1, <3>2, <3>3 DEF Most, Credit
  <2>. QED
    BY <2>2, <2>3
<1>11. Following(u, cs, dh, k, NoEvent)
  <2>1. ASSUME NEW id, Follows(id, u, cs, ch, h, NoEvent) PROVE Follows(id, u, cs, dh, k, NoEvent)
    <3>1. h.subscription = id
      BY <2>1 DEF Follows
    <3>. QED
      BY <1>2, <3>1 DEF Follows
  <2>. QED
    BY <1>0, <2>1 DEF Following
<1>12. Settled(u, k)
  BY DEF Whole, Settled
<1>. QED
  BY <1>0, <1>3, <1>5, <1>6, <1>7, <1>8, <1>9, <1>10, <1>11, <1>12 DEF Whole, Most, Typed

(* Credit comes back, and what waited behind the event is sent. *)
LEMMA ServesAck ==
    ASSUME NEW u, NEW cs, NEW ch, NEW h, NEW m, NEW b, Whole(u, cs, ch, h, m, b),
           NEW ds, NEW c, NEW y, NEW a, Replies(cs, ds, c, y, a), c.call.kind = "ack",
           c.view = h.view, ~h.failed, h.waiting = c.call.event, a.type = "ok", a.guest = Absent,
           NEW k \in Hosts, k.view = h.view, k.sessions = h.sessions, ~k.failed, k.guest = h.guest,
           k.subscription = h.subscription, k.waiting = h.latest, k.latest = NoEvent,
           NEW dh, dh = IF h.latest = NoEvent THEN ch ELSE Append(ch, h.latest)
    PROVE  Whole(u, ds, dh, k, m, b)
<1>0. /\ y.call = c.call /\ y.id = c.id /\ y.epoch = c.epoch
      /\ y.view = c.view /\ y.answer = a /\ c \in cs
      /\ \A d \in ds : d = y \/ (d \in cs /\ d # c)
      /\ \A d \in cs : d = c \/ d \in ds
      /\ c.answer.type = "none" /\ y \in ds
  <2>1. cs \in SUBSET Records
    BY DEF Whole, Most, Typed
  <2>. QED
    BY <2>1, Replaced
<1>1. /\ Most(u, cs, ch, h, m, b, NoEvent) /\ Following(u, cs, ch, h, NoEvent)
      /\ b \in Nat /\ h \in Hosts /\ h.latest \in Events /\ u \in Windows
  BY DEF Whole, Most, Typed, Hosts
<1>2. u.attachment # 0 /\ c.epoch = u.epoch
  BY <1>0, <1>1, Served
<1>3. Returns(c, h, b) /\ h.waiting # NoEvent
  <2>1. c.call.event.id # 0
    BY <1>0, <1>1 DEF Most, Credit
  <2>2. h.waiting # NoEvent
    BY <2>1 DEF NoEvent
  <2>3. b < h.waiting.id
    BY <1>1, <2>2 DEF Most, Names, Named, Drawn
  <2>. QED
    BY <1>0, <2>2, <2>3 DEF Returns
<1>4. /\ ch = <<>> /\ u.pending.id <= b /\ u.pending.id \in Nat
      /\ \A d \in cs : Returns(d, h, b) => d = c
  <2>1. u.pending.id \in Nat
    BY <1>1 DEF Windows, Events
  <2>. QED
    BY <1>0, <1>1, <1>2, <1>3, <2>1 DEF Most, Credit
<1>5. /\ h.latest = NoEvent => dh = <<>>
      /\ h.latest # NoEvent => dh = <<h.latest>>
  <2>1. Append(<<>>, h.latest) = <<h.latest>>
    OBVIOUS
  <2>. QED
    BY <1>4, <2>1
<1>6. dh \in Seq(Events) /\ \A i \in DOMAIN dh : dh[i] = h.latest /\ h.latest # NoEvent
  <2>1. <<>> \in Seq(Events) /\ \A i \in DOMAIN <<>> : FALSE
    OBVIOUS
  <2>2. <<h.latest>> \in Seq(Events) /\ \A i \in DOMAIN <<h.latest>> : <<h.latest>>[i] = h.latest
    BY <1>1
  <2>. QED
    BY <1>5, <2>1, <2>2
<1>7. /\ Typed(u, ds, ch, h, m) /\ Names(u, ds, ch, h, m, b, NoEvent)
      /\ Tasks(u, ds) /\ Traces(u, ds, m)
      /\ Changing(u, cs) => Changing(u, ds)
  BY <1>1, RepliesKeep
<1>8. Names(u, ds, dh, k, m, b, NoEvent)
  <2>1. h.latest # NoEvent => Drawn(h.latest.id, 0, m)
    <3>1. h.latest.id \in Nat
      BY <1>1 DEF Events
    <3>. QED
      BY <1>1, <3>1 DEF Most, Names, Named, Drawn
  <2>. QED
    BY <1>6, <1>7, <2>1 DEF Names, Named
<1>9. Link(u, dh, k)
  BY <1>1, <1>2 DEF Most, Link
<1>10. Calling(u, ds, dh, k)
  BY <1>0, <1>1, <1>2 DEF Most, Calling, Connecting, Working
<1>11. Pasts(u, ds, dh, k, b, NoEvent)
  <2>1. \A g : Past(g, k) <=> Past(g, h)
    BY DEF Past
  <2>2. Past(Absent, h)
    <3>1. h \in Hosts /\ Link(u, ch, h) /\ Reaches(h, h)
      <4>1. h.guest \in Guests
        BY <1>1 DEF Hosts
      <4>. QED
        BY <1>1, <4>1 DEF Most, Reaches, Guests
    <3>. QED
      BY <3>1, PastStays
  <2>3. Past(NoEvent.guest, h)
    BY <2>2 DEF NoEvent
  <2>. QED
    BY <1>0, <1>1, <1>6, <2>1, <2>2, <2>3 DEF Most, Pasts
<1>12. Loads(u, ds) /\ Controlling(u, ds, k)
  BY <1>0, <1>1 DEF Most, Loads, Controlling, Controls
<1>13. Credit(u, ds, dh, k, b, NoEvent)
  <2>1. \A d \in ds : ~Returns(d, k, b)
    BY <1>0, <1>4 DEF Returns
  <2>2. NoEvent.type # "failed" /\ NoEvent.id = 0 /\ ~(b < 0) /\ 0 <= b /\ ~(b < u.pending.id)
    BY <1>1, <1>4 DEF NoEvent
  <2>3. <<h.latest>> # <<>>
    <3>1. Len(<<h.latest>>) = 1 /\ Len(<<>>) = 0
      OBVIOUS
    <3>. QED
      BY <3>1
  <2>4. dh = <<>> \/ (dh = <<k.waiting>> /\ k.waiting # NoEvent)
    BY <1>5
  <2>5. k.waiting # NoEvent => dh # <<>>
    BY <1>5, <2>3
  <2>6. \A d \in ds : d.call.kind = "ack" => d.call.event.id # 0
    BY <1>0, <1>1 DEF Most, Credit
  <2>7. k.waiting.type # "failed"
    BY <1>1 DEF Most, Credit
  <2>. QED
    BY <2>1, <2>2, <2>4, <2>5, <2>6, <2>7 DEF Credit
<1>14. Following(u, ds, dh, k, NoEvent)
  <2>1. ASSUME NEW id, Follows(id, u, cs, ch, h, NoEvent) PROVE Follows(id, u, ds, dh, k, NoEvent)
    <3>1. ch # <<EndOf(id)>>
      <4>1. Len(<<EndOf(id)>>) = 1 /\ Len(<<>>) = 0
        OBVIOUS
      <4>. QED
        BY <1>4, <4>1
    <3>2. h.latest = EndOf(id) => dh = <<EndOf(id)>>
      <4>1. EndOf(id) # NoEvent
        BY DEF EndOf, NoEvent
      <4>. QED
        BY <1>5, <4>1
    <3>. QED
      BY <1>7, <2>1, <3>1, <3>2 DEF Follows
  <2>. QED
    BY <1>0, <1>1, <2>1 DEF Following
<1>15. Settled(u, k)
  BY DEF Whole, Settled
<1>. QED
  BY <1>1, <1>6, <1>7, <1>8, <1>9, <1>10, <1>11, <1>12, <1>13, <1>14, <1>15
     DEF Whole, Most, Typed

(* The supervisor as it is with a view but without a stream. *)
Fresh(k, view, sessions, failed, guest) ==
    /\ k \in Hosts /\ k.view = view /\ k.sessions = sessions /\ k.failed = failed
    /\ k.guest = guest /\ k.subscription = 0 /\ k.waiting = NoEvent /\ k.latest = NoEvent

(* A supervisor without subscription and events, of the given view.           *)
LEMMA FreshHost ==
    ASSUME NEW v \in Nat, NEW s \in Nat, NEW f \in BOOLEAN, NEW g \in Guests,
           NEW k, k = [view |-> v, sessions |-> s, failed |-> f, guest |-> g,
                       subscription |-> 0, waiting |-> NoEvent, latest |-> NoEvent]
    PROVE  Fresh(k, v, s, f, g)
BY NoneTyped DEF Fresh, Hosts

(* A view of the worker that runs is handed out, or of a new one. *)
LEMMA ServesConnect ==
    ASSUME NEW u, NEW cs, NEW ch, NEW h, NEW m, NEW b, Whole(u, cs, ch, h, m, b),
           NEW ds, NEW c, NEW y, NEW a, Replies(cs, ds, c, y, a), c.call.kind = "connect",
           a.type = "ok", a.guest = IF h.failed THEN Absent ELSE h.guest, a.view = h.view + 1,
           NEW k, NEW sessions \in Nat, sessions = IF h.failed THEN 0 ELSE h.sessions,
           Fresh(k, h.view + 1, sessions, FALSE, a.guest)
    PROVE  Whole(u, ds, ch, k, m, b)
<1>0. /\ y.call = c.call /\ y.id = c.id /\ y.epoch = c.epoch
      /\ y.view = c.view /\ y.answer = a /\ c \in cs
      /\ \A d \in ds : d = y \/ (d \in cs /\ d # c)
      /\ \A d \in cs : d = c \/ d \in ds
      /\ c.answer.type = "none" /\ y \in ds
  <2>1. cs \in SUBSET Records
    BY DEF Whole, Most, Typed
  <2>. QED
    BY <2>1, Replaced
<1>1. /\ Most(u, cs, ch, h, m, b, NoEvent)
      /\ b \in Nat /\ h \in Hosts /\ h.view \in Nat /\ h.guest \in Guests /\ h.sessions \in Nat
      /\ cs \subseteq Records
  BY DEF Whole, Most, Typed, Hosts
<1>2. /\ u.attachment = 0 /\ u.connecting = "attaching" /\ c.epoch = u.epoch
      /\ h.failed \/ h.view = 0
      /\ ch = <<>>
  BY <1>0, <1>1 DEF Most, Calling, Connecting
<1>3. a.guest \in Guests
  BY <1>1, NoneTyped
<1>4. /\ k \in Hosts /\ k.view = h.view + 1 /\ k.sessions = sessions
      /\ ~k.failed /\ k.guest = a.guest /\ k.subscription = 0 /\ k.waiting = NoEvent
      /\ k.latest = NoEvent
  BY DEF Fresh
<1>5. /\ Typed(u, ds, ch, h, m) /\ Names(u, ds, ch, h, m, b, NoEvent)
      /\ Tasks(u, ds) /\ Traces(u, ds, m)
  BY <1>1, RepliesKeep
<1>6. \A d \in ds : d # y => /\ d \in cs /\ d.call.kind # "connect" /\ d.epoch # u.epoch
                             /\ 0 < d.view /\ d.view <= h.view /\ d.view \in Nat
  BY <1>0, <1>1, <1>2 DEF Most, Calling, Working, Records
<1>7. Names(u, ds, ch, k, m, b, NoEvent)
  BY <1>4, <1>5 DEF Names, Named
<1>8. k.guest # Absent => k.guest.session = k.sessions
  BY <1>1, <1>4 DEF Most, Link
<1>9. Link(u, ch, k)
  BY <1>1, <1>2, <1>4, <1>8 DEF Most, Link
<1>10. Calling(u, ds, ch, k)
  <2>1. Connecting(u, y, ch, k)
    <3>1. a.guest # Absent => u.snapshot = Absent
      BY <1>1, <1>2 DEF Most, Link
    <3>. QED
      BY <1>0, <1>1, <1>2, <1>4, <3>1 DEF Connecting
  <2>2. \A d \in ds : d # y => Working(u, d, k)
    <3>1. \A n \in Nat : n <= h.view => n <= h.view + 1 /\ n # h.view + 1
      BY <1>1
    <3>. QED
      BY <1>4, <1>6, <3>1 DEF Working
  <2>. QED
    BY <1>0, <1>6, <2>1, <2>2 DEF Calling
<1>11. Pasts(u, ds, ch, k, b, NoEvent)
  <2>1. Past(Absent, k) /\ Past(a.guest, k)
    <3>1. /\ a.guest.session \in Nat /\ a.guest.sequence \in Nat
          /\ a.guest.session = 0 => a.guest = Absent
      BY <1>3 DEF Guests
    <3>2. Absent.session = 0
      BY DEF Absent
    <3>. QED
      BY <1>4, <1>8, <3>1, <3>2 DEF Past
  <2>2. Past(NoEvent.guest, k)
    BY <2>1 DEF NoEvent
  <2>. QED
    BY <1>0, <1>2, <1>4, <1>6, <2>1, <2>2 DEF Pasts
<1>12. Loads(u, ds) /\ Controlling(u, ds, k)
  BY <1>0, <1>2, <1>6 DEF Loads, Controlling
<1>13. Credit(u, ds, ch, k, b, NoEvent)
  <2>1. NoEvent.type # "failed"
    BY DEF NoEvent
  <2>2. \A d \in ds : d.call.kind = "ack" => d.call.event.id # 0
    BY <1>0, <1>1 DEF Most, Credit
  <2>. QED
    BY <1>2, <1>4, <2>1, <2>2 DEF Credit
<1>14. Following(u, ds, ch, k, NoEvent) /\ Settled(u, k)
  BY <1>2 DEF Following, Settled, Whole
<1>. QED
  BY <1>1, <1>4, <1>5, <1>7, <1>9, <1>10, <1>11, <1>12, <1>13, <1>14 DEF Whole, Most, Typed

(* A call that was open fails. *)
Lost(c) == IF c.answer.type = "none" /\ c.call.kind # "connect"
           THEN [c EXCEPT !.answer.type = "failed"] ELSE c

(* When the worker is lost, only calls without an answer get one.             *)
LEMMA Loses ==
    ASSUME NEW c \in Records
    PROVE  /\ Lost(c) \in Records /\ Lost(c).call = c.call /\ Lost(c).id = c.id
           /\ Lost(c).epoch = c.epoch /\ Lost(c).view = c.view
           /\ Lost(c).answer = c.answer \/ Lost(c).answer.type = "failed"
           /\ c.call.kind = "connect" => Lost(c) = c
           /\ c.answer.type # "none" => Lost(c) = c
<1>1. CASE c.answer.type = "none" /\ c.call.kind # "connect"
  <2>1. PICK a : a = [c.answer EXCEPT !.type = "failed"]
    OBVIOUS
  <2>2. a \in Answers /\ a.type = "failed"
    BY <2>1 DEF Records, Answers
  <2>3. Lost(c) = [c EXCEPT !.answer = a]
    BY <1>1, <2>1 DEF Lost, Records
  <2>. QED
    BY <1>1, <2>2, <2>3 DEF Records
<1>2. CASE ~(c.answer.type = "none" /\ c.call.kind # "connect")
  BY <1>2 DEF Lost
<1>. QED
  BY <1>1, <1>2

(* The worker fails: every open call is settled and the window is told. *)
LEMMA HostLost ==
    ASSUME NEW u, NEW cs, NEW ch, NEW h, NEW m, NEW b, Whole(u, cs, ch, h, m, b),
           ~h.failed, h.view # 0,
           NEW k, Fresh(k, h.view, h.sessions, TRUE, Absent),
           NEW ds, ds = {Lost(c) : c \in cs},
           NEW x \in Events, x.type = "failed", NEW dh, dh = Append(ch, x)
    PROVE  Whole(u, ds, dh, k, m, b)
<1>0. /\ Most(u, cs, ch, h, m, b, NoEvent)
      /\ b \in Nat /\ h \in Hosts /\ h.view \in Nat /\ h.sessions \in Nat
      /\ cs \subseteq Records /\ ch \in Seq(Events)
  BY DEF Whole, Most, Typed, Hosts
<1>1. \A c \in cs : /\ Lost(c) \in Records /\ Lost(c).call = c.call /\ Lost(c).id = c.id
                    /\ Lost(c).epoch = c.epoch /\ Lost(c).view = c.view
                    /\ Lost(c).answer = c.answer \/ Lost(c).answer.type = "failed"
                    /\ c.call.kind = "connect" => Lost(c) = c
                    /\ c.answer.type # "none" => Lost(c) = c
  BY <1>0, Loses
<1>2. /\ \A d \in ds : \E c \in cs : d = Lost(c)
      /\ \A c \in cs : Lost(c) \in ds
  OBVIOUS
<1>3. /\ k \in Hosts /\ k.view = h.view /\ k.sessions = h.sessions /\ k.failed
      /\ k.guest = Absent /\ k.subscription = 0 /\ k.waiting = NoEvent /\ k.latest = NoEvent
  BY DEF Fresh
<1>4. /\ dh \in Seq(Events) /\ ds \subseteq Records
      /\ \A i \in DOMAIN dh : dh[i].type = "failed" \/ (i \in DOMAIN ch /\ dh[i] = ch[i])
  <2>1. dh \in Seq(Events) /\ \A i \in DOMAIN dh : dh[i] = x \/ (i \in DOMAIN ch /\ dh[i] = ch[i])
    BY <1>0
  <2>. QED
    BY <1>1, <1>2, <2>1
<1>5. Names(u, ds, dh, k, m, b, NoEvent)
  <2>1. /\ \A d \in ds : /\ Drawn(d.id, 0, m) /\ d.epoch <= u.epoch
                         /\ d.epoch = u.epoch => b < d.id
        /\ \A d, e \in ds : d.id = e.id => d = e
    BY <1>0, <1>1, <1>2 DEF Most, Names
  <2>. QED
    BY <1>0, <1>3, <1>4, <2>1 DEF Most, Names, Named
<1>6. Link(u, dh, k)
  BY <1>0, <1>3 DEF Most, Link
<1>7. Calling(u, ds, dh, k)
  <2>1. \A c \in cs : IF c.call.kind = "connect" THEN Connecting(u, c, dh, k) ELSE Working(u, c, k)
    BY <1>0, <1>3 DEF Most, Calling, Connecting, Working
  <2>2. \A d \in ds : IF d.call.kind = "connect" THEN Connecting(u, d, dh, k) ELSE Working(u, d, k)
    BY <1>1, <1>2, <2>1 DEF Working
  <2>3. \A d, e \in ds : d.call.kind = "connect" /\ e.call.kind = "connect" => d = e
    BY <1>0, <1>1, <1>2 DEF Most, Calling
  <2>. QED
    BY <1>3, <2>2, <2>3 DEF Calling
<1>8. Tasks(u, ds)
  <2>1. (\E d \in ds : d.call.kind = "subscribe") <=> (\E c \in cs : c.call.kind = "subscribe")
    BY <1>1, <1>2
  <2>2. Tasks(u, cs)
    BY <1>0 DEF Most
  <2>. QED
    BY <1>1, <1>2, <2>1, <2>2 DEF Tasks
<1>9. Traces(u, ds, m) /\ Loads(u, ds)
  <2>1. Traces(u, cs, m) /\ Loads(u, cs)
    BY <1>0 DEF Most
  <2>2. Traces(u, ds, m)
    BY <1>1, <1>2, <2>1 DEF Traces
  <2>3. Loads(u, ds)
    BY <1>1, <1>2, <2>1 DEF Loads
  <2>. QED
    BY <2>2, <2>3
<1>10. Pasts(u, ds, dh, k, b, NoEvent) /\ Controlling(u, ds, k)
  BY <1>3 DEF Pasts, Controlling
<1>11. Credit(u, ds, dh, k, b, NoEvent)
  <2>1. NoEvent.type # "failed"
    BY DEF NoEvent
  <2>. QED
    BY <1>0, <1>1, <1>2, <1>3, <2>1 DEF Most, Credit
<1>12. Following(u, ds, dh, k, NoEvent) /\ Settled(u, k)
  BY <1>3 DEF Following, Settled, Whole
<1>. QED
  BY <1>0, <1>3, <1>4, <1>5, <1>6, <1>7, <1>8, <1>9, <1>10, <1>11, <1>12, NoneTyped
     DEF Whole, Most, Typed

-----------------------------------------------------------------------------
(* The actions of the supervisor.                                          *)

(* A later observation of the machine that the worker has. *)
LEMMA Samples ==
    ASSUME host \in Hosts, host.guest # Absent
    PROVE  /\ Sampled \in Guests /\ SameKey(Sampled, host.guest)
           /\ Sampled.sequence = host.guest.sequence + 1 /\ host.guest.sequence \in Nat
           /\ Sampled.session # 0 /\ Sampled.generation \in Nat
<1>1. /\ host.guest \in Guests /\ host.guest.session # 0 /\ host.guest.sequence \in Nat
      /\ host.guest.generation \in Nat
  BY DEF Hosts, Guests
<1>2. \A n \in Nat : [host.guest EXCEPT !.sequence = n] \in
        [session : Nat, generation : Nat, sequence : Nat,
         status : {"none", "ready", "running", "paused"}]
  BY <1>1 DEF Guests
<1>3. Sampled = [host.guest EXCEPT !.sequence = host.guest.sequence + 1]
  BY DEF Sampled
<1>4. /\ Sampled.session = host.guest.session /\ Sampled.generation = host.guest.generation
      /\ Sampled.sequence = host.guest.sequence + 1
  BY <1>1, <1>3 DEF Guests
<1>5. Sampled \in [session : Nat, generation : Nat, sequence : Nat,
                   status : {"none", "ready", "running", "paused"}]
  BY <1>1, <1>2, <1>3
<1>. QED
  BY <1>1, <1>4, <1>5 DEF Guests, SameKey

(* A guest that differs by status and generation is a guest. *)
LEMMA GuestWith ==
    ASSUME NEW g \in Guests, g.session # 0, NEW n \in Nat,
           NEW s \in {"none", "ready", "running", "paused"}
    PROVE  /\ [g EXCEPT !.status = s] \in Guests
           /\ [g EXCEPT !.status = s, !.generation = n] \in Guests
           /\ \A r \in {[g EXCEPT !.status = s], [g EXCEPT !.status = s, !.generation = n]} :
                r.session = g.session /\ r.sequence = g.sequence
           /\ SameKey([g EXCEPT !.status = s], g)
<1>1. PICK x : x = [g EXCEPT !.status = s]
  OBVIOUS
<1>2. /\ x \in [session : Nat, generation : Nat, sequence : Nat,
                status : {"none", "ready", "running", "paused"}]
      /\ x.session = g.session /\ x.sequence = g.sequence /\ x.generation = g.generation
  BY <1>1 DEF Guests
<1>3. PICK y : y = [x EXCEPT !.generation = n]
  OBVIOUS
<1>4. y \in [session : Nat, generation : Nat, sequence : Nat,
             status : {"none", "ready", "running", "paused"}]
  <2>1. \A k \in Nat : [x EXCEPT !.generation = k] \in
          [session : Nat, generation : Nat, sequence : Nat,
           status : {"none", "ready", "running", "paused"}]
    BY <1>2
  <2>. QED
    BY <1>3, <2>1
<1>5. y.session = g.session /\ y.sequence = g.sequence
  BY <1>2, <1>3
<1>6. y = [g EXCEPT !.status = s, !.generation = n]
  BY <1>1, <1>3
<1>. QED
  BY <1>1, <1>2, <1>4, <1>5, <1>6 DEF Guests, SameKey

(* An answer is one of the record of its call. *)
LEMMA Replying ==
    ASSUME calls \in SUBSET Records, NEW c \in calls, c.answer.type = "none",
           NEW type \in {"ok", "error", "failed"}, NEW g \in Guests, Reply(c, type, g)
    PROVE  \E y, a : Replies(calls, calls', c, y, a) /\ a.type = type /\ a.guest = g
<1>1. PICK a : a = [Unanswered EXCEPT !.type = type, !.guest = g]
  OBVIOUS
<1>2. a = [type |-> type, guest |-> g, view |-> 0]
  BY <1>1 DEF Unanswered
<1>3. a \in Answers /\ a.type = type /\ a.guest = g /\ a.type # "none"
  BY <1>2 DEF Answers
<1>4. calls' = (calls \ {c}) \cup {[c EXCEPT !.answer = a]}
  BY <1>1 DEF Reply
<1>. QED
  BY <1>3, <1>4 DEF Replies

(* A control has its effect. *)
LEMMA BecomesWhole ==
    ASSUME NEW b, Whole(ui, calls, channel, host, made, b), NEW c \in calls,
           c.answer.type = "none", c.call.kind \in Controls, c.view = host.view, ~host.failed,
           Known(c), NEW g \in Guests, Becomes(c, g),
           \/ g = Absent
           \/ /\ host.guest # Absent /\ g.session = host.guest.session /\ g # Absent
              /\ host.guest.sequence <= g.sequence
           \/ g # Absent /\ g.session = host.sessions + 1,
           c.call.kind \in {"run", "patch", "record"} => SameKey(g, host.guest),
           c.call.kind = "load" => g # Absent /\ g.session = host.sessions + 1
    PROVE  Whole(ui, calls', channel', host', made, b)
<1>0. /\ Most(ui, calls, channel, host, made, b, NoEvent) /\ host \in Hosts
      /\ calls \in SUBSET Records
  BY DEF Whole, Most, Typed
<1>1. PICK y, a : Replies(calls, calls', c, y, a) /\ a.type = "ok" /\ a.guest = g
  <2>1. Reply(c, "ok", g)
    BY DEF Becomes
  <2>. QED
    BY <1>0, <2>1, Replying
<1>2. channel' = channel
  BY DEF Becomes
<1>3. host.sessions \in Nat /\ g.session \in Nat /\ host.guest \in Guests
      /\ host.subscription \in Nat
  BY <1>0 DEF Hosts, Guests
<1>4. host.guest # Absent => host.guest.session = host.sessions
  BY <1>0 DEF Most, Link
<1>5. PICK x : x = [host EXCEPT !.guest = g]
  OBVIOUS
<1>6. PICK s \in Nat : s = IF g.session > host.sessions THEN g.session ELSE host.sessions
  BY <1>3
<1>7. PICK n \in Nat : n = IF SameKey(g, host.guest) THEN host.subscription ELSE 0
  BY <1>3
<1>8. PICK z : z = [x EXCEPT !.sessions = s]
  OBVIOUS
<1>9. PICK k : k = [z EXCEPT !.subscription = n]
  OBVIOUS
<1>10. host' = k
  BY <1>5, <1>6, <1>7, <1>8, <1>9 DEF Becomes, Hosts
<1>11. /\ k \in Hosts /\ k.guest = g /\ k.sessions = s /\ k.subscription = n
       /\ k.view = host.view /\ k.failed = host.failed /\ k.waiting = host.waiting
       /\ k.latest = host.latest
  <2>1. x \in Hosts
    BY <1>0, <1>5 DEF Hosts
  <2>2. z \in Hosts
    <3>1. \A i \in Nat : [x EXCEPT !.sessions = i] \in Hosts
      BY <2>1 DEF Hosts
    <3>. QED
      BY <1>8, <3>1
  <2>3. k \in Hosts
    <3>1. \A i \in Nat : [z EXCEPT !.subscription = i] \in Hosts
      BY <2>2 DEF Hosts
    <3>. QED
      BY <1>9, <3>1
  <2>4. /\ x.guest = g /\ x.view = host.view /\ x.failed = host.failed
        /\ x.waiting = host.waiting /\ x.latest = host.latest
    BY <1>0, <1>5 DEF Hosts
  <2>5. /\ z.guest = g /\ z.view = host.view /\ z.failed = host.failed
        /\ z.waiting = host.waiting /\ z.latest = host.latest /\ z.sessions = s
    BY <1>8, <2>1, <2>4 DEF Hosts
  <2>. QED
    BY <1>9, <2>2, <2>3, <2>5 DEF Hosts
<1>12. Reaches(host, k)
  <2>1. g = Absent => s = host.sessions
    BY <1>3, <1>6 DEF Absent
  <2>2. g.session = host.sessions => s = host.sessions
    BY <1>3, <1>6
  <2>3. g.session = host.sessions + 1 => s = host.sessions + 1
    BY <1>3, <1>6
  <2>. QED
    BY <1>4, <1>11, <2>1, <2>2, <2>3 DEF Reaches
<1>13. SameKey(host.guest, c.call.guest)
  BY DEF Known
<1>14. c.call.kind = "load" => k.sessions = host.sessions + 1 /\ k.guest # Absent
  BY <1>3, <1>6, <1>11
<1>15. Whole(ui, calls', channel, k, made, b)
  BY <1>1, <1>7, <1>11, <1>12, <1>13, <1>14, ServesControl
<1>. QED
  BY <1>2, <1>10, <1>15

(* A call refused or failed changes nothing else. *)
LEMMA RefusesWhole ==
    ASSUME NEW b, Whole(ui, calls, channel, host, made, b), NEW c \in calls,
           c.answer.type = "none", NEW type \in {"error", "failed"}, Reply(c, type, Absent), Kept,
           Returns(c, host, b) => host.failed
    PROVE  Whole(ui, calls', channel', host', made, b)
<1>1. calls \in SUBSET Records
  BY DEF Whole, Most, Typed
<1>2. PICK y, a : Replies(calls, calls', c, y, a) /\ a.type = type /\ a.guest = Absent
  BY <1>1, NoneTyped, Replying
<1>3. Whole(ui, calls', channel, host, made, b)
  BY <1>2, Refuses
<1>. QED
  BY <1>3 DEF Kept

(* A trace is read, of the machine as it is. *)
LEMMA ReadsWhole ==
    ASSUME NEW b, Whole(ui, calls, channel, host, made, b), NEW c \in calls,
           c.answer.type = "none", c.call.kind = "trace", Reply(c, "ok", host.guest), Kept
    PROVE  Whole(ui, calls', channel', host', made, b)
<1>1. /\ calls \in SUBSET Records /\ host \in Hosts /\ host.guest \in Guests
      /\ Link(ui, channel, host)
  BY DEF Whole, Most, Typed, Hosts
<1>2. PICK y, a : Replies(calls, calls', c, y, a) /\ a.type = "ok" /\ a.guest = host.guest
  BY <1>1, Replying
<1>3. Past(a.guest, host)
  <2>1. Reaches(host, host)
    BY <1>1 DEF Reaches, Guests
  <2>. QED
    BY <1>1, <1>2, <2>1, PastStays
<1>4. ~Returns(c, host, b)
  BY DEF Returns
<1>5. Whole(ui, calls', channel, host, made, b)
  BY <1>2, <1>3, <1>4, Refuses
<1>. QED
  BY <1>5 DEF Kept

(* A subscription replaces the one before. *)
LEMMA SubscribesWhole ==
    ASSUME NEW b, Whole(ui, calls, channel, host, made, b), NEW c \in calls,
           c.answer.type = "none", c.call.kind = "subscribe", c.view = host.view, ~host.failed,
           host.guest # Absent, Reply(c, "ok", Absent), channel' = channel,
           host' = [host EXCEPT !.subscription = c.id]
    PROVE  Whole(ui, calls', channel', host', made, b)
<1>1. calls \in SUBSET Records
  BY DEF Whole, Most, Typed
<1>2. PICK y, a : Replies(calls, calls', c, y, a) /\ a.type = "ok" /\ a.guest = Absent
  BY <1>1, NoneTyped, Replying
<1>. QED
  BY <1>2, ServesSubscribe

(* A call other than an acknowledgement is served, one step per kind of call. *)
LEMMA ServesWhole ==
    ASSUME NEW b, Whole(ui, calls, channel, host, made, b), NEW c \in calls,
           c.answer.type = "none", c.call.kind \notin {"connect", "ack"}, c.view = host.view,
           ~host.failed, HostServes(c)
    PROVE  Whole(ui, calls', channel', host', made, b)
<1>0. host \in Hosts /\ host.sessions \in Nat
  BY DEF Whole, Most, Typed, Hosts
<1>1. CASE Reply(c, "error", Absent) /\ Kept
  BY <1>1, RefusesWhole DEF Returns
<1>2. CASE /\ c.call.kind = "load" /\ Known(c)
           /\ Becomes(c, [session |-> host.sessions + 1, generation |-> 0, sequence |-> 1,
                          status |-> "ready"])
  <2>1. PICK g : g = [session |-> host.sessions + 1, generation |-> 0, sequence |-> 1,
                      status |-> "ready"]
    OBVIOUS
  <2>2. g \in Guests /\ g # Absent /\ g.session = host.sessions + 1
    BY <1>0, <2>1 DEF Guests, Absent
  <2>3. Becomes(c, g) /\ c.call.kind \in Controls
    BY <1>2, <2>1 DEF Controls
  <2>. QED
    BY <1>2, <2>2, <2>3, BecomesWhole
<1>3. ASSUME c.call.kind \in {"run", "reset", "patch", "record"}, Alive(c),
             NEW g \in Guests, Becomes(c, g), g.session = Sampled.session,
             g.sequence = Sampled.sequence, c.call.kind = "reset" \/ SameKey(g, host.guest)
      PROVE  Whole(ui, calls', channel', host', made, b)
  <2>1. host.guest # Absent /\ Known(c)
    BY <1>3 DEF Alive
  <2>2. /\ Sampled.session = host.guest.session /\ Sampled.session # 0
        /\ Sampled.sequence = host.guest.sequence + 1 /\ host.guest.sequence \in Nat
    BY <1>0, <2>1, Samples DEF SameKey
  <2>3. g # Absent /\ host.guest.sequence <= g.sequence /\ c.call.kind \in Controls
    BY <1>3, <2>2 DEF Absent, Controls
  <2>. QED
    BY <1>3, <2>1, <2>2, <2>3, BecomesWhole
<1>4. ASSUME host.guest # Absent
      PROVE  /\ Sampled \in Guests /\ SameKey(Sampled, host.guest)
             /\ \A s \in {"running", "ready"} :
                  /\ [Sampled EXCEPT !.status = s] \in Guests
                  /\ [Sampled EXCEPT !.status = s].session = Sampled.session
                  /\ [Sampled EXCEPT !.status = s].sequence = Sampled.sequence
                  /\ SameKey([Sampled EXCEPT !.status = s], host.guest)
             /\ [Sampled EXCEPT !.status = "ready", !.generation = @ + 1] \in Guests
             /\ [Sampled EXCEPT !.status = "ready", !.generation = @ + 1].session = Sampled.session
             /\ [Sampled EXCEPT !.status = "ready", !.generation = @ + 1].sequence
                  = Sampled.sequence
  <2>1. /\ Sampled \in Guests /\ SameKey(Sampled, host.guest) /\ Sampled.session # 0
        /\ Sampled.generation \in Nat
    BY <1>0, <1>4, Samples
  <2>2. PICK g \in Guests : g = Sampled
    BY <2>1
  <2>3. PICK n \in Nat : n = g.generation + 1
    BY <2>1, <2>2
  <2>4. \A s \in {"running", "ready"} :
          /\ [g EXCEPT !.status = s] \in Guests
          /\ [g EXCEPT !.status = s].session = g.session
          /\ [g EXCEPT !.status = s].sequence = g.sequence
          /\ SameKey([g EXCEPT !.status = s], g)
    <3>1. SUFFICES ASSUME NEW s \in {"running", "ready"}
                   PROVE  /\ [g EXCEPT !.status = s] \in Guests
                          /\ [g EXCEPT !.status = s].session = g.session
                          /\ [g EXCEPT !.status = s].sequence = g.sequence
                          /\ SameKey([g EXCEPT !.status = s], g)
      OBVIOUS
    <3>2. s \in {"none", "ready", "running", "paused"} /\ g.session # 0
      BY <2>1, <2>2
    <3>. QED
      BY <3>2, GuestWith
  <2>5. /\ [g EXCEPT !.status = "ready", !.generation = n] \in Guests
        /\ [g EXCEPT !.status = "ready", !.generation = n].session = g.session
        /\ [g EXCEPT !.status = "ready", !.generation = n].sequence = g.sequence
    BY <2>1, <2>2, GuestWith
  <2>6. [g EXCEPT !.status = "ready", !.generation = @ + 1]
          = [g EXCEPT !.status = "ready", !.generation = n]
    BY <2>3
  <2>. QED
    BY <2>1, <2>2, <2>4, <2>5, <2>6 DEF SameKey
<1>5. CASE c.call.kind = "run" /\ Alive(c) /\ Becomes(c, [Sampled EXCEPT !.status = "running"])
  BY <1>3, <1>4, <1>5 DEF Alive
<1>6. CASE /\ c.call.kind = "reset" /\ Alive(c)
           /\ Becomes(c, [Sampled EXCEPT !.status = "ready", !.generation = @ + 1])
  BY <1>3, <1>4, <1>6 DEF Alive
<1>7. CASE c.call.kind \in {"patch", "record"} /\ Alive(c) /\ Becomes(c, Sampled)
  BY <1>3, <1>4, <1>7 DEF Alive
<1>8. CASE c.call.kind = "close" /\ Known(c) /\ Becomes(c, Absent)
  BY <1>8, NoneTyped, BecomesWhole DEF Controls
<1>9. CASE c.call.kind = "trace" /\ Reply(c, "ok", host.guest) /\ Kept
  BY <1>9, ReadsWhole
<1>10. CASE /\ c.call.kind = "subscribe" /\ host.guest # Absent
            /\ host' = [host EXCEPT !.subscription = c.id]
            /\ Reply(c, "ok", Absent)
            /\ UNCHANGED channel
  BY <1>10, SubscribesWhole
<1>. QED
  BY <1>1, <1>2, <1>5, <1>6, <1>7, <1>8, <1>9, <1>10 DEF HostServes

(* The event behind is sent when none waits for its acknowledgement. *)
LEMMA Delivers ==
    ASSUME NEW h \in Hosts, Deliver(h)
    PROVE  /\ host' \in Hosts /\ host'.view = h.view /\ host'.sessions = h.sessions
           /\ host'.failed = h.failed /\ host'.guest = h.guest
           /\ host'.subscription = h.subscription
           /\ \/ /\ h.waiting = NoEvent /\ h.latest # NoEvent
                 /\ channel' = Append(channel, h.latest)
                 /\ host'.waiting = h.latest /\ host'.latest = NoEvent
              \/ /\ h.waiting # NoEvent \/ h.latest = NoEvent
                 /\ channel' = channel /\ host'.waiting = h.waiting /\ host'.latest = h.latest
<1>1. CASE h.waiting = NoEvent /\ h.latest # NoEvent
  <2>1. PICK x \in Events : x = h.latest
    BY DEF Hosts
  <2>2. PICK v : v = [h EXCEPT !.waiting = x]
    OBVIOUS
  <2>3. /\ v \in Hosts /\ v.view = h.view /\ v.sessions = h.sessions /\ v.failed = h.failed
        /\ v.guest = h.guest /\ v.subscription = h.subscription /\ v.waiting = x
    BY <2>2 DEF Hosts
  <2>4. PICK y \in Events : y = NoEvent
    BY NoneTyped
  <2>5. PICK k : k = [v EXCEPT !.latest = y]
    OBVIOUS
  <2>6. /\ k \in Hosts /\ k.view = v.view /\ k.sessions = v.sessions /\ k.failed = v.failed
        /\ k.guest = v.guest /\ k.subscription = v.subscription /\ k.waiting = v.waiting
        /\ k.latest = y
    BY <2>3, <2>5 DEF Hosts
  <2>7. host' = k /\ channel' = Append(channel, h.latest)
    BY <1>1, <2>1, <2>2, <2>4, <2>5 DEF Deliver
  <2>. QED
    BY <1>1, <2>1, <2>3, <2>4, <2>6, <2>7
<1>2. CASE ~(h.waiting = NoEvent /\ h.latest # NoEvent)
  BY <1>2 DEF Deliver
<1>. QED
  BY <1>1, <1>2

(* Credit is returned for the event that waits for it, or refused. *)
LEMMA AcknowledgesWhole ==
    ASSUME NEW b, Whole(ui, calls, channel, host, made, b), NEW c \in calls,
           c.answer.type = "none", c.call.kind = "ack", c.view = host.view, ~host.failed,
           HostAcknowledges(c)
    PROVE  Whole(ui, calls', channel', host', made, b)
<1>1. /\ Most(ui, calls, channel, host, made, b, NoEvent) /\ host \in Hosts
      /\ calls \in SUBSET Records
  BY DEF Whole, Most, Typed
<1>2. CASE host.waiting # c.call.event
  <2>1. Reply(c, "error", Absent) /\ Kept
    BY <1>2 DEF HostAcknowledges
  <2>2. ~Returns(c, host, b)
    <3>1. ui.attachment # 0
      BY <1>1, Served
    <3>. QED
      BY <1>1, <1>2, <3>1 DEF Most, Credit
  <2>. QED
    BY <2>1, <2>2, RefusesWhole
<1>3. CASE host.waiting = c.call.event
  <2>1. Reply(c, "ok", Absent) /\ Deliver([host EXCEPT !.waiting = NoEvent])
    BY <1>3 DEF HostAcknowledges
  <2>2. PICK y, a : Replies(calls, calls', c, y, a) /\ a.type = "ok" /\ a.guest = Absent
    BY <1>1, <2>1, NoneTyped, Replying
  <2>3. PICK x \in Events : x = NoEvent
    BY NoneTyped
  <2>4. PICK h : h = [host EXCEPT !.waiting = x]
    OBVIOUS
  <2>5. /\ h \in Hosts /\ h.view = host.view /\ h.sessions = host.sessions
        /\ h.failed = host.failed /\ h.guest = host.guest
        /\ h.subscription = host.subscription /\ h.waiting = x /\ h.latest = host.latest
    BY <1>1, <2>4 DEF Hosts
  <2>6. Deliver(h)
    BY <2>1, <2>3, <2>4
  <2>7. /\ host' \in Hosts /\ host'.view = h.view /\ host'.sessions = h.sessions
        /\ host'.failed = h.failed /\ host'.guest = h.guest
        /\ host'.subscription = h.subscription
        /\ host'.waiting = h.latest /\ host'.latest = NoEvent
        /\ channel' = IF h.latest = NoEvent THEN channel ELSE Append(channel, h.latest)
    BY <2>3, <2>5, <2>6, Delivers
  <2>8. PICK k \in Hosts : k = host'
    BY <2>7
  <2>9. PICK dh : dh = channel'
    OBVIOUS
  <2>10. /\ k.view = host.view /\ k.sessions = host.sessions /\ ~k.failed
         /\ k.guest = host.guest /\ k.subscription = host.subscription
         /\ k.waiting = host.latest /\ k.latest = NoEvent
         /\ dh = IF host.latest = NoEvent THEN channel ELSE Append(channel, host.latest)
    BY <2>5, <2>7, <2>8, <2>9
  <2>11. Whole(ui, calls', dh, k, made, b)
    BY <1>3, <2>2, <2>10, ServesAck
  <2>. QED
    BY <2>8, <2>9, <2>11
<1>. QED
  BY <1>2, <1>3

(* A window connects, or there is no worker to connect to. *)
LEMMA ConnectsWhole ==
    ASSUME NEW b, Whole(ui, calls, channel, host, made, b), NEW c \in calls,
           c.answer.type = "none", c.call.kind = "connect", HostConnects(c)
    PROVE  Whole(ui, calls', channel', host', made, b)
<1>1. /\ calls \in SUBSET Records /\ host \in Hosts /\ host.view \in Nat
      /\ host.guest \in Guests /\ host.sessions \in Nat
  BY DEF Whole, Most, Typed, Hosts
<1>2. CASE Reply(c, "error", Absent) /\ Kept
  BY <1>2, RefusesWhole DEF Returns
<1>3. CASE ~(Reply(c, "error", Absent) /\ Kept)
  <2>1. PICK g \in Guests : g = IF host.failed THEN Absent ELSE host.guest
    BY <1>1, NoneTyped
  <2>2. PICK s \in Nat : s = IF host.failed THEN 0 ELSE host.sessions
    BY <1>1
  <2>3. PICK n \in Nat : n = host.view + 1
    BY <1>1
  <2>4. /\ host' = [Host EXCEPT !.view = n, !.guest = g, !.sessions = s]
        /\ calls' = (calls \ {c}) \cup
                      {[c EXCEPT !.answer = [type |-> "ok", guest |-> g, view |-> n]]}
        /\ channel' = channel
    BY <1>3, <2>1, <2>2, <2>3 DEF HostConnects
  <2>5. host' = [view |-> n, sessions |-> s, failed |-> FALSE, guest |-> g,
                 subscription |-> 0, waiting |-> NoEvent, latest |-> NoEvent]
    BY <2>4 DEF Host
  <2>6. Fresh(host', n, s, FALSE, g)
    BY <2>5, FreshHost
  <2>7. PICK a : a = [type |-> "ok", guest |-> g, view |-> n]
    OBVIOUS
  <2>8. a \in Answers /\ a.type = "ok" /\ a.guest = g /\ a.view = n
    BY <2>7 DEF Answers
  <2>9. PICK y : y = [c EXCEPT !.answer = a]
    OBVIOUS
  <2>10. Replies(calls, calls', c, y, a)
    BY <2>4, <2>7, <2>8, <2>9 DEF Replies
  <2>11. PICK k : k = host'
    OBVIOUS
  <2>12. Whole(ui, calls', channel, k, made, b)
    <3>1. Fresh(k, host.view + 1, s, FALSE, a.guest) /\ a.view = host.view + 1
      BY <2>3, <2>6, <2>8, <2>11
    <3>2. a.guest = IF host.failed THEN Absent ELSE host.guest
      BY <2>1, <2>8
    <3>. QED
      BY <2>2, <2>8, <2>10, <3>1, <3>2, ServesConnect
  <2>. QED
    BY <2>4, <2>11, <2>12
<1>. QED
  BY <1>2, <1>3

(* A call is answered. *)
LEMMA AnswersWhole ==
    ASSUME NEW b, Whole(ui, calls, channel, host, made, b), HostAnswers
    PROVE  Whole(ui, calls', channel', host', made, b) /\ ui' = ui /\ made' = made
<1>1. PICK c \in calls :
        /\ c.answer.type = "none"
        /\ IF c.call.kind = "connect" THEN HostConnects(c)
           ELSE IF c.view # host.view \/ host.failed THEN Reply(c, "failed", Absent) /\ Kept
           ELSE IF c.call.kind = "ack" THEN HostAcknowledges(c)
           ELSE HostServes(c)
  BY DEF HostAnswers
<1>2. CASE c.call.kind = "connect"
  BY <1>1, <1>2, ConnectsWhole DEF HostAnswers
<1>3. CASE c.call.kind # "connect" /\ (c.view # host.view \/ host.failed)
  <2>1. Returns(c, host, b) => host.failed
    BY <1>3 DEF Returns
  <2>. QED
    BY <1>1, <1>3, <2>1, RefusesWhole DEF HostAnswers
<1>4. CASE c.call.kind = "ack" /\ c.view = host.view /\ ~host.failed
  BY <1>1, <1>4, AcknowledgesWhole DEF HostAnswers
<1>5. CASE c.call.kind \notin {"connect", "ack"} /\ c.view = host.view /\ ~host.failed
  BY <1>1, <1>5, ServesWhole DEF HostAnswers
<1>. QED
  BY <1>2, <1>3, <1>4, <1>5

(* The machine that is followed is sampled. *)
LEMMA SamplesWhole ==
    ASSUME NEW b, Whole(ui, calls, channel, host, made, b), HostSamples
    PROVE  Whole(ui, calls', channel', host', made, b) /\ ui' = ui /\ made' = made
<1>1. /\ Most(ui, calls, channel, host, made, b, NoEvent) /\ host \in Hosts
      /\ Following(ui, calls, channel, host, NoEvent) /\ Settled(ui, host)
      /\ Link(ui, channel, host) /\ host.guest \in Guests /\ host.subscription \in Nat
  BY DEF Whole, Most, Typed, Hosts
<1>2. /\ ~host.failed /\ host.subscription # 0 /\ calls' = calls /\ ui' = ui /\ made' = made
  BY DEF HostSamples
<1>3. host.guest # Absent /\ ui.attachment # 0
  BY <1>1, <1>2 DEF Link
<1>4. PICK status \in {host.guest.status, "paused"} :
        Deliver([host EXCEPT
          !.guest = [Sampled EXCEPT !.status = status],
          !.latest = [type |-> "full", id |-> host.subscription,
                      guest |-> [Sampled EXCEPT !.status = status]]])
  BY DEF HostSamples
<1>5. PICK g \in Guests : /\ g = [Sampled EXCEPT !.status = status]
                          /\ g.session = host.guest.session /\ g.session # 0
                          /\ host.guest.sequence <= g.sequence
  <2>1. PICK f \in Guests : f = Sampled
    BY <1>1, <1>3, Samples
  <2>2. /\ f.session = host.guest.session /\ f.session # 0
        /\ host.guest.sequence <= f.sequence
    BY <1>1, <1>3, <2>1, Samples DEF SameKey
  <2>3. status \in {"none", "ready", "running", "paused"}
    BY <1>1 DEF Guests
  <2>4. PICK n \in Nat : n = 0
    OBVIOUS
  <2>5. /\ [f EXCEPT !.status = status] \in Guests
        /\ [f EXCEPT !.status = status].session = f.session
        /\ [f EXCEPT !.status = status].sequence = f.sequence
    BY <2>2, <2>3, <2>4, GuestWith
  <2>. QED
    BY <2>1, <2>2, <2>5
<1>6. PICK x : x = [type |-> "full", id |-> host.subscription, guest |-> g]
  OBVIOUS
<1>7. x \in Events /\ x.id = host.subscription /\ x.guest = g /\ x.type = "full"
  BY <1>1, <1>6 DEF Events
<1>8. PICK z : z = [host EXCEPT !.guest = g]
  OBVIOUS
<1>9. /\ z \in Hosts /\ z.view = host.view /\ z.sessions = host.sessions /\ ~z.failed
      /\ z.guest = g /\ z.subscription = host.subscription /\ z.waiting = host.waiting
      /\ z.latest = host.latest
  BY <1>1, <1>2, <1>8 DEF Hosts
<1>10. Reaches(host, z) /\ g # Absent
  BY <1>3, <1>5, <1>9 DEF Reaches, Absent
<1>11. Whole(ui, calls, channel, z, made, b)
  <2>1. Most(ui, calls, channel, z, made, b, NoEvent)
    BY <1>1, <1>2, <1>3, <1>9, <1>10, Observes
  <2>2. Following(ui, calls, channel, z, NoEvent) /\ Settled(ui, z)
    BY <1>1, <1>2, <1>9 DEF Following, Follows, Settled
  <2>. QED
    BY <2>1, <2>2 DEF Whole
<1>12. PICK h : h = [z EXCEPT !.latest = x]
  OBVIOUS
<1>13. /\ h \in Hosts /\ h.view = z.view /\ h.sessions = z.sessions /\ h.failed = z.failed
       /\ h.guest = z.guest /\ h.subscription = z.subscription /\ h.waiting = z.waiting
       /\ h.latest = x
  BY <1>7, <1>9, <1>12 DEF Hosts
<1>14. Deliver(h)
  BY <1>4, <1>5, <1>6, <1>8, <1>12
<1>15. Past(x.guest, z)
  BY <1>1, <1>7, <1>9, <1>10, PastStays
<1>16. Drawn(x.id, b, made) /\ x # NoEvent
  BY <1>1, <1>2, <1>7 DEF Most, Names, NoEvent
<1>17. /\ host' \in Hosts /\ host'.view = z.view /\ host'.sessions = z.sessions
       /\ ~host'.failed /\ host'.guest = z.guest /\ host'.subscription = z.subscription
       /\ \/ /\ z.waiting # NoEvent /\ channel' = channel /\ host'.waiting = z.waiting
             /\ host'.latest = x
          \/ /\ z.waiting = NoEvent /\ channel' = Append(channel, x) /\ host'.waiting = x
             /\ host'.latest = NoEvent
  BY <1>9, <1>13, <1>14, <1>16, Delivers
<1>18. PICK k \in Hosts : k = host'
  BY <1>17
<1>19. PICK dh : dh = channel'
  OBVIOUS
<1>20. Whole(ui, calls, dh, k, made, b)
  <2>1. /\ k.view = z.view /\ k.sessions = z.sessions
        /\ ~k.failed /\ k.guest = z.guest /\ k.subscription = z.subscription
        /\ \/ z.waiting # NoEvent /\ dh = channel /\ k.waiting = z.waiting /\ k.latest = x
           \/ /\ z.waiting = NoEvent /\ dh = Append(channel, x) /\ k.waiting = x
              /\ k.latest = NoEvent
    BY <1>17, <1>18, <1>19
  <2>2. x.type # "failed" /\ z.subscription # 0 /\ ~z.failed
    BY <1>2, <1>7, <1>9
  <2>. QED
    BY <1>3, <1>7, <1>11, <1>15, <1>16, <2>1, <2>2, Queued
<1>. QED
  BY <1>2, <1>18, <1>19, <1>20

(* The subscription ends. *)
LEMMA EndsWhole ==
    ASSUME NEW b, Whole(ui, calls, channel, host, made, b), HostEnds
    PROVE  Whole(ui, calls', channel', host', made, b) /\ ui' = ui /\ made' = made
<1>1. /\ Most(ui, calls, channel, host, made, b, NoEvent) /\ host \in Hosts
      /\ Link(ui, channel, host) /\ host.guest \in Guests /\ host.subscription \in Nat
  BY DEF Whole, Most, Typed, Hosts
<1>2. /\ ~host.failed /\ host.subscription # 0 /\ calls' = calls /\ ui' = ui /\ made' = made
  BY DEF HostEnds
<1>3. ui.attachment # 0
  BY <1>1, <1>2 DEF Link
<1>4. PICK x : x = EndOf(host.subscription)
  OBVIOUS
<1>5. x \in Events /\ x.id = host.subscription /\ x.guest = Absent /\ x.type = "ended"
  BY <1>1, <1>4, NoneTyped DEF Events, EndOf
<1>6. Past(x.guest, host)
  <2>1. Reaches(host, host)
    BY <1>1 DEF Reaches, Guests
  <2>. QED
    BY <1>1, <1>5, <2>1, PastStays
<1>7. Drawn(x.id, b, made) /\ x # NoEvent
  BY <1>1, <1>2, <1>5 DEF Most, Names, NoEvent
<1>8. PICK z : z = [host EXCEPT !.latest = x]
  OBVIOUS
<1>9. /\ z \in Hosts /\ z.view = host.view /\ z.sessions = host.sessions
      /\ z.failed = host.failed /\ z.guest = host.guest /\ z.waiting = host.waiting
      /\ z.latest = x
  BY <1>1, <1>5, <1>8 DEF Hosts
<1>10. PICK h : h = [z EXCEPT !.subscription = 0]
  OBVIOUS
<1>11. /\ h \in Hosts /\ h.view = z.view /\ h.sessions = z.sessions
       /\ h.failed = z.failed /\ h.guest = z.guest /\ h.waiting = z.waiting
       /\ h.latest = x /\ h.subscription = 0
  <2>1. \A n \in Nat : [z EXCEPT !.subscription = n] \in Hosts
    BY <1>9 DEF Hosts
  <2>2. h \in Hosts
    BY <1>10, <2>1
  <2>. QED
    BY <1>9, <1>10, <2>2 DEF Hosts
<1>12. Deliver(h)
  <2>1. Deliver([host EXCEPT !.subscription = 0, !.latest = x])
    BY <1>4 DEF HostEnds, EndOf
  <2>2. h = [host EXCEPT !.subscription = 0, !.latest = x]
    BY <1>1, <1>8, <1>10 DEF Hosts
  <2>. QED
    BY <2>1, <2>2
<1>13. /\ host' \in Hosts /\ host'.view = host.view /\ host'.sessions = host.sessions
       /\ ~host'.failed /\ host'.guest = host.guest /\ host'.subscription = 0
       /\ \/ /\ host.waiting # NoEvent /\ channel' = channel /\ host'.waiting = host.waiting
             /\ host'.latest = x
          \/ /\ host.waiting = NoEvent /\ channel' = Append(channel, x) /\ host'.waiting = x
             /\ host'.latest = NoEvent
  BY <1>2, <1>7, <1>9, <1>11, <1>12, Delivers
<1>14. PICK k \in Hosts : k = host'
  BY <1>13
<1>15. PICK dh : dh = channel'
  OBVIOUS
<1>16. Whole(ui, calls, dh, k, made, b)
  <2>1. /\ k.view = host.view /\ k.sessions = host.sessions
        /\ ~k.failed /\ k.guest = host.guest /\ k.subscription = 0
        /\ \/ host.waiting # NoEvent /\ dh = channel /\ k.waiting = host.waiting /\ k.latest = x
           \/ /\ host.waiting = NoEvent /\ dh = Append(channel, x) /\ k.waiting = x
              /\ k.latest = NoEvent
    BY <1>13, <1>14, <1>15
  <2>2. x.type # "failed"
    BY <1>5
  <2>. QED
    BY <1>2, <1>3, <1>4, <1>5, <1>6, <1>7, <2>1, <2>2, Queued
<1>. QED
  BY <1>2, <1>14, <1>15, <1>16

(* The worker fails. *)
LEMMA FailsWhole ==
    ASSUME NEW b, Whole(ui, calls, channel, host, made, b), HostFails
    PROVE  Whole(ui, calls', channel', host', made, b) /\ ui' = ui /\ made' = made
<1>1. host \in Hosts /\ host.view \in Nat /\ host.sessions \in Nat
  BY DEF Whole, Most, Typed, Hosts
<1>2. /\ ~host.failed /\ host.view # 0 /\ ui' = ui /\ made' = made
  BY DEF HostFails
<1>3. host' = [view |-> host.view, sessions |-> host.sessions, failed |-> TRUE,
               guest |-> Absent, subscription |-> 0, waiting |-> NoEvent, latest |-> NoEvent]
  BY DEF HostFails, Host
<1>4. Fresh(host', host.view, host.sessions, TRUE, Absent)
  BY <1>1, <1>3, NoneTyped, FreshHost
<1>5. calls' = {Lost(c) : c \in calls}
  BY DEF HostFails, Lost
<1>6. PICK x : x = [NoEvent EXCEPT !.type = "failed"]
  OBVIOUS
<1>7. x \in Events /\ x.type = "failed" /\ channel' = Append(channel, x)
  <2>1. x = [type |-> "failed", id |-> 0, guest |-> Absent]
    BY <1>6 DEF NoEvent
  <2>2. channel' = Append(channel, x)
    BY <1>6 DEF HostFails
  <2>. QED
    BY <2>1, <2>2, NoneTyped DEF Events
<1>8. PICK k : k = host'
  OBVIOUS
<1>9. Whole(ui, calls', channel', k, made, b)
  BY <1>2, <1>4, <1>5, <1>7, <1>8, HostLost
<1>. QED
  BY <1>2, <1>8, <1>9

-----------------------------------------------------------------------------
(* The credit that the supervisor is owed.                                 *)

(* Attached to this view, u holds back an event of set only, and returned in *)
(* this turn credit for events of set only.                                  *)
Owes(u, set, view) ==
    /\ {"attachment", "pending", "sends", "snapshot"} \subseteq DOMAIN u
    /\ u.attachment = view /\ (u.pending = NoEvent \/ u.pending \in set)
    /\ u.snapshot \in Guests /\ u.sends \in Seq(Commands)
    /\ \A i \in DOMAIN u.sends : u.sends[i].kind = "ack" => u.sends[i].event \in set

Alike(u, v) ==
    /\ DOMAIN v = DOMAIN u /\ v.sends = u.sends /\ v.attachment = u.attachment
    /\ v.pending \in {u.pending, NoEvent} /\ v.snapshot \in Guests

(* Nothing is owed by what changes neither events, calls nor attachment. *)
LEMMA OwesSame ==
    ASSUME NEW u, NEW set, NEW view, Owes(u, set, view), NEW v, Alike(u, v)
    PROVE  Owes(v, set, view)
BY DEF Owes, Alike

(* One more call is sent. *)
LEMMA OwesMore ==
    ASSUME NEW u, NEW set, NEW view, Owes(u, set, view), NEW v, NEW x \in Commands,
           DOMAIN v = DOMAIN u, v.attachment = u.attachment,
           v.sends = Append(u.sends, x), v.pending = u.pending, v.snapshot = u.snapshot,
           x.kind = "ack" => x.event \in set
    PROVE  Owes(v, set, view)
<1>1. u.sends \in Seq(Commands)
  BY DEF Owes
<1>2. /\ v.sends \in Seq(Commands)
      /\ \A i \in DOMAIN v.sends : v.sends[i] = x \/ (i \in DOMAIN u.sends /\ v.sends[i] = u.sends[i])
  BY <1>1
<1>. QED
  BY <1>2 DEF Owes

(* A request other than an acknowledgement. *)
LEMMA OwesRequest ==
    ASSUME NEW u, NEW set, NEW view, Owes(u, set, view),
           NEW kind \in Kinds, kind # "ack", NEW g \in Guests,
           NEW r, r = Request(u, kind, g)
    PROVE  Owes(r, set, view)
<1>1. PICK x : x = Call(kind, g, NoEvent)
  OBVIOUS
<1>2. x \in Commands /\ x.kind = kind
  BY <1>1, NoneTyped DEF Call, Commands
<1>3. r = [u EXCEPT !.sends = Append(u.sends, x)]
  BY <1>1 DEF Request
<1>4. /\ DOMAIN r = DOMAIN u /\ r.sends = Append(u.sends, x) /\ r.pending = u.pending
      /\ r.attachment = u.attachment /\ r.snapshot = u.snapshot
  BY <1>3 DEF Owes
<1>. QED
  BY <1>2, <1>4, OwesMore

(* Asking for a subscription returns no credit.                               *)
LEMMA OwesAsk ==
    ASSUME NEW u, NEW set, NEW view, Owes(u, set, view), NEW r, r = Ask(u)
    PROVE  Owes(r, set, view)
<1>1. PICK v : v = [u EXCEPT !.refresh = FALSE, !.subscribing = TRUE]
  OBVIOUS
<1>2. Owes(v, set, view)
  <2>1. Alike(u, v)
    BY <1>1 DEF Owes, Alike
  <2>. QED
    BY <2>1, OwesSame
<1>3. r = Request(v, "subscribe", u.snapshot) /\ u.snapshot \in Guests
  BY <1>1 DEF Ask, Owes
<1>. QED
  BY <1>2, <1>3, OwesRequest DEF Kinds

(* Nor does subscribe, which may only note that one is due.                   *)
LEMMA OwesSubscribe ==
    ASSUME NEW u, NEW set, NEW view, Owes(u, set, view), NEW r, r = Subscribe(u)
    PROVE  Owes(r, set, view)
<1>1. CASE r = Ask(u)
  BY <1>1, OwesAsk
<1>2. CASE r = u
  BY <1>2
<1>3. CASE r = [u EXCEPT !.refresh = TRUE]
  <2>1. Alike(u, r)
    BY <1>3 DEF Owes, Alike
  <2>. QED
    BY <2>1, OwesSame
<1>4. CASE r = [u EXCEPT !.refresh = FALSE, !.problem = TRUE, !.told = TRUE]
  <2>1. Alike(u, r)
    BY <1>4 DEF Owes, Alike
  <2>. QED
    BY <2>1, OwesSame
<1>. QED
  BY <1>1, <1>2, <1>3, <1>4 DEF Subscribe

(* Nor does showing another observation.                                      *)
LEMMA OwesPublish ==
    ASSUME NEW u, NEW set, NEW view, Owes(u, set, view), NEW g \in Guests, NEW r, r = Publish(u, g)
    PROVE  Owes(r, set, view)
<1>1. CASE r = u
  BY <1>1
<1>2. CASE r = [u EXCEPT !.snapshot = g]
  <2>1. Alike(u, r)
    BY <1>2 DEF Owes, Alike
  <2>. QED
    BY <2>1, OwesSame
<1>. QED
  BY <1>1, <1>2 DEF Publish

(* An event that is taken, or held back. *)
LEMMA OwesTaken ==
    ASSUME NEW u, NEW set, NEW view, Owes(u, set, view), NEW e \in Events, e \in set,
           NEW r, r = Acknowledge(Applied(u, e), e)
    PROVE  Owes(r, set, view)
<1>1. PICK v : v = Applied(u, e)
  OBVIOUS
<1>2. Owes(v, set, view)
  <2>1. CASE v = u
    BY <2>1
  <2>2. CASE v = [u EXCEPT !.problem = TRUE, !.told = TRUE, !.subscription = 0]
    <3>1. Alike(u, v)
      BY <2>2 DEF Owes, Alike
    <3>. QED
      BY <3>1, OwesSame
  <2>3. CASE v = Publish(u, e.guest)
    BY <2>3, OwesPublish DEF Events
  <2>. QED
    BY <1>1, <2>1, <2>2, <2>3 DEF Applied
<1>3. CASE r = v
  BY <1>2, <1>3
<1>4. CASE r = [v EXCEPT !.sends = Append(@, AckOf(e))]
  <2>1. /\ DOMAIN r = DOMAIN v /\ r.sends = Append(v.sends, AckOf(e)) /\ r.pending = v.pending
        /\ r.attachment = v.attachment /\ r.snapshot = v.snapshot
    BY <1>2, <1>4 DEF Owes
  <2>2. AckOf(e) \in Commands /\ AckOf(e).event = e
    BY CallsTyped
  <2>. QED
    BY <1>2, <2>1, <2>2, OwesMore
<1>. QED
  BY <1>1, <1>3, <1>4 DEF Acknowledge, AckOf

(* An event that arrives is held back, or its own credit returned.            *)
LEMMA OwesReceive ==
    ASSUME NEW u, NEW set, NEW view, Owes(u, set, view),
           NEW e \in Events, e \in set, NEW r, r = Receive(u, e)
    PROVE  Owes(r, set, view)
<1>1. CASE r = [u EXCEPT !.pending = e]
  BY <1>1 DEF Owes
<1>2. CASE r = Acknowledge(Applied(u, e), e)
  BY <1>2, OwesTaken
<1>. QED
  BY <1>1, <1>2 DEF Receive

(* The task ends. *)
LEMMA OwesEnded ==
    ASSUME NEW u, NEW set \in SUBSET Events, NEW view, Owes(u, set, view), NEW r, r = Ended(u)
    PROVE  Owes(r, set, view)
<1>1. PICK idle : idle = [u EXCEPT !.subscribing = FALSE, !.pending = NoEvent,
                                   !.connecting = Freed(@), !.controlling = Freed(@)]
  OBVIOUS
<1>2. PICK after : after = IF u.pending = NoEvent THEN idle ELSE Receive(idle, u.pending)
  OBVIOUS
<1>3. r = IF after.refresh THEN Subscribe(after) ELSE after
  BY <1>1, <1>2 DEF Ended
<1>4. Owes(idle, set, view)
  <2>1. Alike(u, idle)
    BY <1>1 DEF Owes, Alike
  <2>. QED
    BY <2>1, OwesSame
<1>5. Owes(after, set, view)
  <2>1. u.pending # NoEvent => u.pending \in Events /\ u.pending \in set
    BY DEF Owes
  <2>. QED
    BY <1>2, <1>4, <2>1, OwesReceive
<1>. QED
  BY <1>3, <1>5, OwesSubscribe

(* The answer to a subscription. *)
LEMMA OwesAnswered ==
    ASSUME NEW set \in SUBSET Events, NEW view, Owes(ui, set, view),
           NEW c, NEW r, r = Answered(ui, c)
    PROVE  Owes(r, set, view)
<1>1. PICK w : w \in {ui, [ui EXCEPT !.told = TRUE],
                      [[ui EXCEPT !.problem = TRUE] EXCEPT !.told = TRUE],
                      [ui EXCEPT !.subscription = c.id, !.told = FALSE]}
               /\ (r = Ask(w) \/ r = Ended(w))
  BY DEF Answered, Reported
<1>2. Owes(w, set, view)
  <2>1. Alike(ui, w)
    BY <1>1 DEF Owes, Alike
  <2>. QED
    BY <2>1, OwesSame
<1>. QED
  BY <1>1, <1>2, OwesAsk, OwesEnded

(* Reading the trace returns no credit.                                       *)
LEMMA OwesTraced ==
    ASSUME NEW u, NEW set, NEW view, Owes(u, set, view), NEW r, r = Traced(u)
    PROVE  Owes(r, set, view)
<1>1. CASE r = u
  BY <1>1
<1>2. CASE r # u
  <2>1. PICK v : v = [u EXCEPT !.traceRequest = made + Len(u.sends) + 1]
    OBVIOUS
  <2>2. r = Request(v, "trace", u.snapshot)
    BY <1>2, <2>1 DEF Traced
  <2>3. Alike(u, v) /\ u.snapshot \in Guests
    BY <2>1 DEF Owes, Alike
  <2>4. Owes(v, set, view)
    BY <2>3, OwesSame
  <2>. QED
    BY <2>2, <2>3, <2>4, OwesRequest DEF Kinds
<1>. QED
  BY <1>1, <1>2

(* The answer to a control. *)
LEMMA OwesControlled ==
    ASSUME NEW set, NEW view, Owes(ui, set, view), NEW c, c.answer.guest \in Guests,
           NEW r, r = Controlled(ui, c)
    PROVE  Owes(r, set, view)
<1>1. ASSUME NEW v, Owes(v, set, view), NEW w, NEW s, NEW n,
             \/ w = [v EXCEPT !.controlling = s]
             \/ w = [v EXCEPT !.controlling = s, !.awaited = n]
      PROVE  Owes(w, set, view)
  <2>1. Alike(v, w)
    BY <1>1 DEF Owes, Alike
  <2>. QED
    BY <1>1, <2>1, OwesSame
<1>2. CASE ~Succeeds(c)
  <2>1. Owes(Reported(c, ui), set, view)
    <3>1. PICK v : v = Reported(c, ui)
      OBVIOUS
    <3>2. Alike(ui, v)
      BY <3>1 DEF Reported, Owes, Alike
    <3>. QED
      BY <3>1, <3>2, OwesSame
  <2>2. r = [Reported(c, ui) EXCEPT !.controlling = "no"]
    BY <1>2 DEF Controlled
  <2>. QED
    BY <1>1, <2>1, <2>2
<1>3. CASE r = LoadAnswered(ui, c)
  <2>1. PICK v : v = [ui EXCEPT !.snapshot = c.answer.guest]
    OBVIOUS
  <2>2. Owes(v, set, view)
    <3>1. Alike(ui, v)
      BY <2>1 DEF Owes, Alike
    <3>. QED
      BY <3>1, OwesSame
  <2>3. PICK w : w = Subscribe(v)
    OBVIOUS
  <2>4. Owes(w, set, view) /\ r = [w EXCEPT !.controlling = Waiting(w, "subscribing")]
    BY <1>3, <2>1, <2>2, <2>3, OwesSubscribe DEF LoadAnswered
  <2>. QED
    BY <1>1, <2>4
<1>4. CASE r = Closed(ui)
  <2>1. Alike(ui, r)
    BY <1>4, NoneTyped DEF Closed, Owes, Alike
  <2>. QED
    BY <2>1, OwesSame
<1>5. CASE r = Observed(ui, c)
  <2>1. PICK v : v = Publish(ui, c.answer.guest)
    OBVIOUS
  <2>2. PICK w : w = IF c.call.kind \in {"reset", "patch"} THEN Subscribe(v)
                     ELSE IF c.call.kind = "record" THEN Traced(v) ELSE v
    OBVIOUS
  <2>3. Owes(w, set, view)
    BY <2>1, <2>2, OwesPublish, OwesSubscribe, OwesTraced
  <2>4. PICK s, n : r = [w EXCEPT !.controlling = s, !.awaited = n]
    BY <1>5, <2>1, <2>2 DEF Observed
  <2>. QED
    BY <1>1, <2>3, <2>4
<1>. QED
  BY <1>2, <1>3, <1>4, <1>5 DEF Controlled

(* The answer to a request to connect: the window may be attached to a view. *)
LEMMA OwesConnected ==
    ASSUME NEW set, NEW view, Owes(ui, set, view), NEW c, c.answer.guest \in Guests,
           NEW r, r = ConnectAnswered(ui, c)
    PROVE  \E n : Owes(r, set, n)
<1>1. ASSUME NEW v, NEW n, Owes(v, set, n), NEW w, NEW s, w = [v EXCEPT !.connecting = s]
      PROVE  Owes(w, set, n)
  <2>1. Alike(v, w)
    BY <1>1 DEF Owes, Alike
  <2>. QED
    BY <1>1, <2>1, OwesSame
<1>2. CASE Succeeds(c)
  <2>1. PICK v : v = [ui EXCEPT !.attachment = c.answer.view, !.connected = TRUE,
                                !.subscription = 0, !.told = FALSE,
                                !.snapshot = c.answer.guest]
    OBVIOUS
  <2>2. PICK n : n = c.answer.view
    OBVIOUS
  <2>3. Owes(v, set, n)
    BY <2>1, <2>2 DEF Owes
  <2>4. PICK w : w = Subscribe(v)
    OBVIOUS
  <2>5. Owes(w, set, n)
    BY <2>3, <2>4, OwesSubscribe
  <2>6. r = [w EXCEPT !.connecting = Waiting(w, "subscribing")]
    BY <1>2, <2>1, <2>4 DEF ConnectAnswered, Attached
  <2>. QED
    BY <1>1, <2>5, <2>6
<1>3. CASE ~Succeeds(c)
  <2>1. PICK v : v = Reported(c, ui)
    OBVIOUS
  <2>2. Alike(ui, v)
    BY <2>1 DEF Reported, Owes, Alike
  <2>3. Owes(v, set, view)
    BY <2>2, OwesSame
  <2>4. r = [v EXCEPT !.connecting = "no"]
    BY <1>3, <2>1 DEF ConnectAnswered
  <2>. QED
    BY <1>1, <2>3, <2>4
<1>. QED
  BY <1>2, <1>3

(* Whatever a call is answered, the credit owed is that of the event held back. *)
LEMMA OwesContinued ==
    ASSUME NEW set \in SUBSET Events, NEW view, Owes(ui, set, view),
           NEW c, c.answer.guest \in Guests, NEW r, r = Continued(ui, c)
    PROVE  \E n : Owes(r, set, n) /\ (c.call.kind # "connect" => n = view)
<1>1. CASE c.call.kind = "connect"
  <2>1. r = ConnectAnswered(ui, c)
    BY <1>1 DEF Continued
  <2>. QED
    BY <1>1, <2>1, OwesConnected
<1>2. CASE r = ui \/ r = Reported(c, ui)
  <2>1. Alike(ui, r)
    BY <1>2 DEF Reported, Owes, Alike
  <2>. QED
    BY <2>1, OwesSame
<1>3. CASE r = TraceAnswered(ui, c)
  <2>1. PICK v : v = IF ui.awaited = c.id THEN [ui EXCEPT !.controlling = "no", !.awaited = 0]
                     ELSE ui
    OBVIOUS
  <2>2. Alike(ui, v)
    BY <2>1 DEF Owes, Alike
  <2>3. Owes(v, set, view)
    BY <2>2, OwesSame
  <2>4. r \in {v, [v EXCEPT !.trace = [guest |-> c.answer.guest, request |-> c.id]],
               [v EXCEPT !.problem = TRUE]}
    BY <1>3, <2>1 DEF TraceAnswered, Reported
  <2>5. Alike(v, r)
    BY <2>3, <2>4 DEF Owes, Alike
  <2>. QED
    BY <2>3, <2>5, OwesSame
<1>4. CASE r = Answered(ui, c) \/ r = Controlled(ui, c)
  <2>1. Owes(r, set, view)
    BY <1>4, OwesAnswered, OwesControlled
  <2>. QED
    BY <2>1
<1>. QED
  BY <1>1, <1>2, <1>3, <1>4 DEF Continued

(* No event of an older view is held back or acknowledged, and the supervisor *)
(* has refused no acknowledgement of its present view: so it is as long as no *)
(* event is held back while the window connects.                              *)
Clean(u, cs, ch, h, b) ==
    /\ u.attachment = 0 => u.pending = NoEvent /\ \A i \in DOMAIN ch : ch[i].type = "failed"
    /\ u.pending = NoEvent \/ h.failed \/ b < u.pending.id
    /\ \A c \in cs : c.call.kind = "ack" /\ c.view = h.view =>
         c.answer.type # "error" /\ (h.failed \/ b < c.call.event.id)

Safe(b) == Clean(ui, calls, channel, host, b) /\ (Connect => ui.pending = NoEvent)

(* A step keeps the invariant, and what was clean is clean. *)
Carries(b) ==
    /\ ui'.sends = <<>> /\ Steps(ui, ui')
    /\ \E n \in Nat : /\ Whole(ui', calls', channel', host', made', n)
                      /\ Safe(b) => Clean(ui', calls', channel', host', n)

-----------------------------------------------------------------------------
(* The actions of the window.                                              *)

(* A turn that the lemmas before speak of keeps the invariant. *)
LEMMA TurnKeeps ==
    ASSUME NEW b \in Nat, Whole(ui, calls, channel, host, made, b),
           NEW r, NEW left \in SUBSET calls, NEW ch, ch = channel', host' = host,
           NEW n \in Nat, Ready(ui, r, left, ch, host, made, n), Turn(r, left),
           NEW set, NEW view, Owes(r, set, view),
           Safe(b) =>
             /\ view = 0 => set = {} /\ \A i \in DOMAIN ch : ch[i].type = "failed"
             /\ \A e \in set : host.failed \/ n < e.id
             /\ n = b \/ \A c \in left : c.call.kind = "ack" => c.view # host.view \/ host.failed
    PROVE  Carries(b)
<1>1. made \in Nat /\ r \in Windows
  BY DEF Whole, Most, Typed, Ready
<1>2. ui'.sends = <<>> /\ Whole(ui', calls', ch, host, made', n) /\ Steps(ui, ui')
  BY <1>1, TurnIsWhole
<1>3. Whole(ui', calls', channel', host', made', n)
  BY <1>2
<1>4. ASSUME Safe(b) PROVE Clean(ui', calls', channel', host', n)
  <2>1. /\ SameLink(r, ui') /\ SameTask(r, ui') /\ calls' = left \cup Sent(r, made)
    BY <1>1, TurnEnds
  <2>2. ui'.attachment = view /\ (ui'.pending = NoEvent \/ ui'.pending \in set)
    BY <2>1 DEF Owes, SameLink, SameTask
  <2>3. \A c \in Sent(r, made) :
          c.answer.type = "none" /\ (c.call.kind = "ack" => c.call.event \in set)
    BY DEF Sent, Made, Unanswered, Owes
  <2>4. \A c \in left : c.call.kind = "ack" /\ c.view = host.view =>
          c.answer.type # "error" /\ (host.failed \/ n < c.call.event.id)
    BY <1>4 DEF Safe, Clean
  <2>5. /\ ui'.attachment = 0 =>
             ui'.pending = NoEvent /\ \A i \in DOMAIN channel' : channel'[i].type = "failed"
        /\ ui'.pending = NoEvent \/ host.failed \/ n < ui'.pending.id
    BY <1>4, <2>2
  <2>6. \A c \in calls' : c.call.kind = "ack" /\ c.view = host.view =>
          c.answer.type # "error" /\ (host.failed \/ n < c.call.event.id)
    BY <1>4, <2>1, <2>3, <2>4
  <2>. QED
    BY <2>5, <2>6 DEF Clean
<1>. QED
  BY <1>2, <1>3, <1>4 DEF Carries

(* Before a turn the window owes credit for the event that it holds back. *)
LEMMA OwesNow ==
    ASSUME NEW b, Whole(ui, calls, channel, host, made, b), ui.sends = <<>>
    PROVE  /\ Owes(ui, {ui.pending} \ {NoEvent}, ui.attachment)
           /\ {ui.pending} \ {NoEvent} \in SUBSET Events
<1>1. ui \in Windows
  BY DEF Whole, Most, Typed
<1>. QED
  BY <1>1 DEF Owes, Windows

(* What a turn has to show, of the credit for the event held back alone. *)
LEMMA SafeNow ==
    ASSUME NEW b, Safe(b), NEW e \in {ui.pending} \ {NoEvent}
    PROVE  (host.failed \/ b < e.id) /\ ui.attachment # 0
BY DEF Safe, Clean

(* A call is answered: the window goes on as the kind of the call says. *)
LEMMA AnswerKeeps ==
    ASSUME NEW b \in Nat, Whole(ui, calls, channel, host, made, b), ui.sends = <<>>, Answer
    PROVE  Carries(b)
<1>1. PICK c \in calls : c.answer.type # "none" /\ Turn(Continued(ui, c), calls \ {c})
                         /\ channel' = channel /\ host' = host
  BY DEF Answer
<1>2. PICK ch, h, r, left : /\ ch = channel /\ h = host /\ r = Continued(ui, c)
                            /\ left = calls \ {c}
  OBVIOUS
<1>3. /\ c.call.kind \in Kinds /\ made \in Nat /\ Whole(ui, calls, ch, h, made, b)
      /\ c.answer.guest \in Guests
  BY <1>2 DEF Whole, Most, Typed, Records, Commands, Answers
<1>4. \E n \in Nat : /\ Ready(ui, r, left, ch, h, made, n)
                     /\ n = b \/ c.call.kind = "connect"
  <2>1. CASE c.call.kind = "connect"
    <3>1. r = ConnectAnswered(ui, c)
      BY <1>2, <2>1 DEF Continued
    <3>. QED
      BY <1>1, <1>2, <1>3, <2>1, <3>1, AnswersConnect
  <2>2. CASE c.call.kind = "subscribe"
    <3>1. r = Answered(ui, c)
      BY <1>2, <2>2 DEF Continued
    <3>. QED
      BY <1>1, <1>2, <1>3, <2>2, <3>1, AnswersSubscribe
  <2>3. CASE c.call.kind = "trace"
    <3>1. r = TraceAnswered(ui, c)
      BY <1>2, <2>3 DEF Continued
    <3>. QED
      BY <1>1, <1>2, <1>3, <2>3, <3>1, AnswersTrace
  <2>4. CASE c.call.kind = "ack"
    <3>1. r = IF Succeeds(c) THEN ui ELSE Reported(c, ui)
      BY <1>2, <2>4 DEF Continued
    <3>. QED
      BY <1>1, <1>2, <1>3, <2>4, <3>1, AnswersAck
  <2>5. CASE c.call.kind \in Controls
    <3>1. r = Controlled(ui, c)
      BY <1>2, <2>5 DEF Continued, Controls
    <3>. QED
      BY <1>1, <1>2, <1>3, <2>5, <3>1, AnswersControl
  <2>. QED
    BY <1>3, <2>1, <2>2, <2>3, <2>4, <2>5 DEF Kinds
<1>5. PICK n \in Nat : /\ Ready(ui, r, left, channel, host, made, n)
                       /\ n = b \/ c.call.kind = "connect"
  BY <1>2, <1>4
<1>6. Turn(r, left) /\ ch = channel' /\ Ready(ui, r, left, ch, host, made, n)
      /\ left \in SUBSET calls
  BY <1>1, <1>2, <1>5
<1>7. PICK set : set = {ui.pending} \ {NoEvent}
  OBVIOUS
<1>8. PICK view : /\ Owes(r, set, view)
                  /\ c.call.kind # "connect" => view = ui.attachment
  <2>1. Owes(ui, set, ui.attachment) /\ set \in SUBSET Events
    BY <1>7, OwesNow
  <2>. QED
    BY <1>2, <1>3, <2>1, OwesContinued
<1>9. ASSUME Safe(b)
      PROVE  /\ view = 0 => set = {} /\ \A i \in DOMAIN ch : ch[i].type = "failed"
             /\ \A e \in set : host.failed \/ n < e.id
             /\ n = b \/ \A d \in left : d.call.kind = "ack" => d.view # host.view \/ host.failed
  <2>1. \A e \in set : (host.failed \/ b < e.id) /\ ui.attachment # 0
    BY <1>7, <1>9, SafeNow
  <2>2. c.call.kind = "connect" => ui.attachment = 0
    BY <1>1 DEF Whole, Most, Calling, Connecting
  <2>3. ui.attachment = 0 =>
          set = {} /\ \A i \in DOMAIN ch : ch[i].type = "failed"
    BY <1>2, <1>9, <2>1 DEF Safe, Clean
  <2>4. ui.attachment = 0 =>
          \A d \in calls : d.call.kind = "ack" => d.view # host.view \/ host.failed
    BY DEF Whole, Most, Calling, Working
  <2>. QED
    BY <1>2, <1>5, <1>8, <2>1, <2>2, <2>3, <2>4
<1>. QED
  BY <1>1, <1>6, <1>8, <1>9, TurnKeeps

(* A message of the channel is heard. *)
LEMMA MessageKeeps ==
    ASSUME NEW b \in Nat, Whole(ui, calls, channel, host, made, b), ui.sends = <<>>, Message
    PROVE  Carries(b)
<1>1. PICK r : r = IF Head(channel).type = "failed" THEN Failed(ui) ELSE Receive(ui, Head(channel))
  OBVIOUS
<1>2. channel # <<>> /\ channel' = Tail(channel) /\ Turn(r, calls) /\ host' = host
  BY <1>1 DEF Message
<1>3. PICK ch : ch = Tail(channel)
  OBVIOUS
<1>4. Ready(ui, r, calls, ch, host, made, b)
  BY <1>1, <1>2, <1>3, Hears
<1>5. PICK x : x = Head(channel)
  OBVIOUS
<1>6. /\ x \in Events /\ 1 \in DOMAIN channel /\ x = channel[1]
      /\ \A i \in DOMAIN ch : i + 1 \in DOMAIN channel /\ ch[i] = channel[i + 1]
  <2>1. channel \in Seq(Events)
    BY DEF Whole, Most, Typed
  <2>. QED
    BY <1>2, <1>3, <1>5, <2>1
<1>7. PICK set : set = ({ui.pending} \ {NoEvent})
                         \cup (IF x.type = "failed" THEN {} ELSE {x})
  OBVIOUS
<1>8. Owes(r, set, ui.attachment)
  <2>1. Owes(ui, {ui.pending} \ {NoEvent}, ui.attachment)
    BY OwesNow
  <2>2. Owes(ui, set, ui.attachment)
    BY <1>7, <2>1 DEF Owes
  <2>3. CASE x.type = "failed"
    <3>1. r = Failed(ui)
      BY <1>1, <1>5, <2>3
    <3>2. Alike(ui, r)
      BY <2>2, <3>1, NoneTyped DEF Failed, Owes, Alike
    <3>. QED
      BY <2>2, <3>2, OwesSame
  <2>4. CASE x.type # "failed"
    <3>1. r = Receive(ui, x) /\ x \in set
      BY <1>1, <1>5, <1>7, <2>4
    <3>. QED
      BY <1>6, <2>2, <3>1, OwesReceive
  <2>. QED
    BY <2>3, <2>4
<1>9. ASSUME Safe(b)
      PROVE  /\ ui.attachment = 0 => set = {} /\ \A i \in DOMAIN ch : ch[i].type = "failed"
             /\ \A e \in set : host.failed \/ b < e.id
  <2>1. \A e \in {ui.pending} \ {NoEvent} : (host.failed \/ b < e.id) /\ ui.attachment # 0
    BY <1>9, SafeNow
  <2>2. ui.attachment = 0 => x.type = "failed" /\ \A i \in DOMAIN ch : ch[i].type = "failed"
    BY <1>6, <1>9 DEF Safe, Clean
  <2>3. ui.attachment # 0 => host.failed \/ b < x.id
    <3>1. SUFFICES ASSUME ui.attachment # 0, ~host.failed PROVE b < x.id
      OBVIOUS
    <3>2. /\ channel = <<host.waiting>> /\ host.waiting # NoEvent
          /\ Named(host.waiting, b, made)
      BY <1>2, <3>1 DEF Whole, Most, Credit, Names
    <3>3. x = host.waiting
      BY <1>6, <3>2
    <3>. QED
      BY <3>2, <3>3 DEF Named, Drawn
  <2>. QED
    BY <1>7, <2>1, <2>2, <2>3
<1>. QED
  BY <1>2, <1>3, <1>4, <1>8, <1>9, TurnKeeps

(* The user connects. *)
LEMMA ConnectKeeps ==
    ASSUME NEW b \in Nat, Whole(ui, calls, channel, host, made, b), ui.sends = <<>>, Connect
    PROVE  Carries(b)
<1>1. PICK v : v = [ui EXCEPT !.epoch = @ + 1, !.attachment = 0,
                              !.connecting = "attaching", !.trace = NoTrace,
                              !.traceRequest = 0, !.problem = FALSE]
  OBVIOUS
<1>2. PICK r : r = Request(v, "connect", Absent)
  OBVIOUS
<1>3. /\ ui.connecting = "no" /\ ~ui.connected /\ Turn(r, calls) /\ channel' = <<>>
      /\ host' = host
  BY <1>1, <1>2 DEF Connect
<1>4. made \in Nat
  BY DEF Whole, Most, Typed
<1>5. Ready(ui, r, calls, <<>>, host, made, b)
  BY <1>1, <1>2, <1>3, <1>4, Connects
<1>6. PICK ch : ch = <<>>
  OBVIOUS
<1>7. PICK set : set = {ui.pending} \ {NoEvent}
  OBVIOUS
<1>8. Owes(r, set, 0)
  <2>1. Owes(ui, set, ui.attachment)
    BY <1>7, OwesNow
  <2>2. Owes(v, set, 0)
    BY <1>1, <2>1 DEF Owes
  <2>. QED
    BY <1>2, <2>2, NoneTyped, OwesRequest DEF Kinds
<1>9. ASSUME Safe(b)
      PROVE  set = {} /\ \A i \in DOMAIN ch : ch[i].type = "failed"
  BY <1>6, <1>7, <1>9 DEF Safe
<1>. QED
  BY <1>3, <1>5, <1>6, <1>8, <1>9, TurnKeeps

(* A turn that the user begins while the channel is silent. *)
LEMMA UserKeeps ==
    ASSUME NEW b \in Nat, Whole(ui, calls, channel, host, made, b), ui.sends = <<>>,
           NEW r, channel' = channel, host' = host, Turn(r, calls),
           Ready(ui, r, calls, channel, host, made, b),
           Owes(r, {ui.pending} \ {NoEvent}, ui.attachment)
    PROVE  Carries(b)
<1>1. PICK ch, set, view : /\ ch = channel /\ set = {ui.pending} \ {NoEvent}
                           /\ view = ui.attachment
  OBVIOUS
<1>2. ASSUME Safe(b)
      PROVE  /\ view = 0 => set = {} /\ \A i \in DOMAIN ch : ch[i].type = "failed"
             /\ \A e \in set : host.failed \/ b < e.id
  <2>1. \A e \in set : (host.failed \/ b < e.id) /\ view # 0
    BY <1>1, <1>2, SafeNow
  <2>2. view = 0 => \A i \in DOMAIN ch : ch[i].type = "failed"
    BY <1>1, <1>2 DEF Safe, Clean
  <2>. QED
    BY <2>1, <2>2
<1>3. Ready(ui, r, calls, ch, host, made, b) /\ Owes(r, set, view) /\ ch = channel'
  BY <1>1
<1>. QED
  BY <1>2, <1>3, TurnKeeps

(* The user commands the machine, or asks to see it. *)
LEMMA ControlKeeps ==
    ASSUME NEW b \in Nat, Whole(ui, calls, channel, host, made, b), ui.sends = <<>>,
           NEW action \in Controls, (Load /\ action = "load") \/ Execute(action)
    PROVE  Carries(b)
<1>1. PICK v : v = [ui EXCEPT !.controlling = "requested", !.problem = FALSE]
  OBVIOUS
<1>2. PICK r : r = Request(v, action, ui.snapshot)
  OBVIOUS
<1>3. /\ ui.connected /\ ui.controlling = "no" /\ Turn(r, calls)
      /\ action # "load" => ui.snapshot # Absent
      /\ channel' = channel /\ host' = host
  BY <1>1, <1>2 DEF Load, Execute, MayAct, Shown
<1>4. made \in Nat
  BY DEF Whole, Most, Typed
<1>5. Ready(ui, r, calls, channel, host, made, b)
  <2>1. PICK ch : ch = channel
    OBVIOUS
  <2>. QED
    BY <1>1, <1>2, <1>3, <1>4, <2>1, Commanded
<1>6. Owes(r, {ui.pending} \ {NoEvent}, ui.attachment)
  <2>1. PICK set, view : set = {ui.pending} \ {NoEvent} /\ view = ui.attachment
    OBVIOUS
  <2>2. Owes(ui, set, view)
    BY <2>1, OwesNow
  <2>3. Alike(ui, v) /\ ui.snapshot \in Guests
    BY <1>1, <2>2 DEF Owes, Alike
  <2>4. Owes(v, set, view)
    BY <2>2, <2>3, OwesSame
  <2>5. action \in Kinds /\ action # "ack"
    BY DEF Kinds, Controls
  <2>. QED
    BY <1>2, <2>1, <2>3, <2>4, <2>5, OwesRequest
<1>. QED
  BY <1>3, <1>5, <1>6, UserKeeps

(* The buttons that send one request and are no control keep the invariant.   *)
LEMMA InspectKeeps ==
    ASSUME NEW b \in Nat, Whole(ui, calls, channel, host, made, b), ui.sends = <<>>,
           Inspect \/ ReadTrace
    PROVE  Carries(b)
<1>1. PICK v : v = [ui EXCEPT !.problem = FALSE]
  OBVIOUS
<1>2. PICK r : /\ r = Subscribe(v) \/ r = Traced(ui)
               /\ Turn(r, calls) /\ channel' = channel /\ host' = host
  BY <1>1 DEF Inspect, ReadTrace, MayAct
<1>3. made \in Nat
  BY DEF Whole, Most, Typed
<1>4. Ready(ui, r, calls, channel, host, made, b)
  <2>1. PICK ch : ch = channel
    OBVIOUS
  <2>. QED
    BY <1>1, <1>2, <1>3, <2>1, Inspects
<1>5. Owes(r, {ui.pending} \ {NoEvent}, ui.attachment)
  <2>1. PICK set, view : set = {ui.pending} \ {NoEvent} /\ view = ui.attachment
    OBVIOUS
  <2>2. Owes(ui, set, view)
    BY <2>1, OwesNow
  <2>3. Alike(ui, v)
    BY <1>1, <2>2 DEF Owes, Alike
  <2>4. Owes(v, set, view)
    BY <2>2, <2>3, OwesSame
  <2>. QED
    BY <1>2, <2>1, <2>2, <2>4, OwesSubscribe, OwesTraced
<1>. QED
  BY <1>2, <1>4, <1>5, UserKeeps

(* An answer of the supervisor refuses no credit of its present view. *)
LEMMA ReplyClean ==
    ASSUME NEW b, Clean(ui, calls, channel, host, b), calls \in SUBSET Records, NEW c \in calls,
           c.answer.type = "none", NEW type \in {"ok", "error", "failed"}, NEW g \in Guests,
           Reply(c, type, g), c.call.kind = "ack" /\ c.view = host.view => type # "error",
           host'.view = host.view, host'.failed = host.failed,
           channel' = channel \/ ui.attachment # 0
    PROVE  Clean(ui, calls', channel', host', b)
<1>1. PICK y, a : Replies(calls, calls', c, y, a) /\ a.type = type
  BY Replying
<1>2. /\ y.call = c.call /\ y.view = c.view /\ y.answer = a
      /\ \A d \in calls' : d = y \/ (d \in calls /\ d # c)
  BY <1>1, Replaced
<1>. QED
  BY <1>1, <1>2 DEF Clean

(* The supervisor refuses no credit of its present view. *)
LEMMA SupervisorClean ==
    ASSUME NEW b, Whole(ui, calls, channel, host, made, b), Clean(ui, calls, channel, host, b),
           Supervisor
    PROVE  Clean(ui, calls', channel', host', b)
<1>0. /\ Most(ui, calls, channel, host, made, b, NoEvent) /\ Link(ui, channel, host)
      /\ host \in Hosts /\ calls \in SUBSET Records /\ host.view \in Nat /\ host.guest \in Guests
      /\ channel \in Seq(Events)
  BY DEF Whole, Most, Typed, Hosts
<1>1. CASE HostAnswers
  <2>1. PICK c \in calls :
          /\ c.answer.type = "none"
          /\ IF c.call.kind = "connect" THEN HostConnects(c)
             ELSE IF c.view # host.view \/ host.failed THEN Reply(c, "failed", Absent) /\ Kept
             ELSE IF c.call.kind = "ack" THEN HostAcknowledges(c)
             ELSE HostServes(c)
    BY <1>1 DEF HostAnswers
  <2>2. ASSUME NEW type \in {"ok", "error", "failed"}, NEW g \in Guests, Reply(c, type, g), Kept,
               c.call.kind = "ack" /\ c.view = host.view => type # "error"
        PROVE  Clean(ui, calls', channel', host', b)
    BY <1>0, <2>1, <2>2, ReplyClean DEF Kept
  <2>3. CASE c.call.kind = "connect"
    <3>1. CASE Reply(c, "error", Absent) /\ Kept
      BY <2>2, <2>3, <3>1, NoneTyped
    <3>2. CASE ~(Reply(c, "error", Absent) /\ Kept)
      <4>1. /\ ui.attachment = 0
            /\ \A d \in calls : d.call.kind # "connect" => d.view \in Nat /\ d.view <= host.view
        BY <1>0, <2>1, <2>3 DEF Most, Calling, Connecting, Working, Records
      <4>2. HostConnects(c)
        BY <2>1, <2>3
      <4>3. /\ host'.view = host.view + 1 /\ channel' = channel
            /\ \E y : y.call = c.call /\ calls' = (calls \ {c}) \cup {y}
        <5>1. PICK y : /\ \E a : y = [c EXCEPT !.answer = a]
                       /\ calls' = (calls \ {c}) \cup {y}
          BY <3>2, <4>2 DEF HostConnects
        <5>2. y.call = c.call
          BY <1>0, <5>1 DEF Records
        <5>3. host'.view = host.view + 1 /\ channel' = channel
          BY <3>2, <4>2 DEF HostConnects, Host
        <5>. QED
          BY <5>1, <5>2, <5>3
      <4>4. \A d \in calls' : d.call.kind = "ack" => d.view # host'.view
        BY <1>0, <2>3, <4>1, <4>3
      <4>. QED
        BY <4>1, <4>3, <4>4 DEF Clean
    <3>. QED
      BY <3>1, <3>2
  <2>4. CASE c.call.kind # "connect" /\ (c.view # host.view \/ host.failed)
    BY <2>1, <2>2, <2>4, NoneTyped
  <2>5. CASE c.call.kind = "ack" /\ c.view = host.view /\ ~host.failed
    <3>1. Returns(c, host, b) /\ ui.attachment # 0
      BY <1>0, <2>1, <2>5, Served DEF Clean, Returns
    <3>2. host.waiting = c.call.event
      BY <1>0, <2>5, <3>1 DEF Most, Credit
    <3>3. Reply(c, "ok", Absent) /\ Deliver([host EXCEPT !.waiting = NoEvent])
      BY <2>1, <2>5, <3>2 DEF HostAcknowledges
    <3>4. PICK x \in Events : x = NoEvent
      BY NoneTyped
    <3>5. PICK h : h = [host EXCEPT !.waiting = x]
      OBVIOUS
    <3>6. h \in Hosts /\ h.view = host.view /\ h.failed = host.failed /\ Deliver(h)
      BY <1>0, <3>3, <3>4, <3>5 DEF Hosts
    <3>7. host'.view = host.view /\ host'.failed = host.failed
      BY <3>6, Delivers
    <3>. QED
      BY <1>0, <2>1, <3>1, <3>3, <3>7, NoneTyped, ReplyClean
  <2>6. CASE c.call.kind \notin {"connect", "ack"} /\ c.view = host.view /\ ~host.failed
    <3>1. HostServes(c)
      BY <2>1, <2>6
    <3>2. ASSUME NEW g \in Guests, Becomes(c, g) PROVE Clean(ui, calls', channel', host', b)
      <4>1. /\ Reply(c, "ok", g) /\ channel' = channel
            /\ host'.view = host.view /\ host'.failed = host.failed
        BY <1>0, <3>2 DEF Becomes, Hosts
      <4>. QED
        BY <1>0, <2>1, <4>1, ReplyClean
    <3>3. ASSUME NEW g, Becomes(c, g) PROVE g \in Guests
      <4>1. PICK k \in calls' : k.answer.guest = g
        <5>1. PICK a : a = [Unanswered EXCEPT !.type = "ok", !.guest = g]
          OBVIOUS
        <5>2. a.guest = g
          BY <5>1 DEF Unanswered
        <5>3. PICK k : k = [c EXCEPT !.answer = a]
          OBVIOUS
        <5>4. k.answer = a
          BY <1>0, <5>3 DEF Records
        <5>5. k \in calls'
          BY <3>3, <5>1, <5>3 DEF Becomes, Reply
        <5>. QED
          BY <5>2, <5>4, <5>5
      <4>2. Whole(ui, calls', channel', host', made, b)
        BY <2>1, <2>6, <3>1, ServesWhole
      <4>. QED
        BY <4>1, <4>2 DEF Whole, Most, Typed, Records, Answers
    <3>4. CASE \E g : Becomes(c, g)
      BY <3>2, <3>3, <3>4
    <3>5. CASE Kept /\ \E type \in {"ok", "error"}, g \in {Absent, host.guest} : Reply(c, type, g)
      BY <1>0, <2>2, <2>6, <3>5, NoneTyped
    <3>6. CASE /\ host' = [host EXCEPT !.subscription = c.id]
               /\ Reply(c, "ok", Absent)
               /\ channel' = channel
      <4>1. host'.view = host.view /\ host'.failed = host.failed
        BY <1>0, <3>6 DEF Hosts
      <4>. QED
        BY <1>0, <2>1, <3>6, <4>1, NoneTyped, ReplyClean
    <3>7. \/ \E g : Becomes(c, g)
          \/ Kept /\ \E type \in {"ok", "error"}, g \in {Absent, host.guest} : Reply(c, type, g)
          \/ /\ host' = [host EXCEPT !.subscription = c.id]
             /\ Reply(c, "ok", Absent)
             /\ channel' = channel
      BY <3>1 DEF HostServes
    <3>. QED
      BY <3>4, <3>5, <3>6, <3>7
  <2>. QED
    BY <2>1, <2>3, <2>4, <2>5, <2>6
<1>2. CASE HostSamples \/ HostEnds
  <2>1. ~host.failed /\ calls' = calls /\ ui.attachment # 0
    BY <1>0, <1>2 DEF HostSamples, HostEnds, Link
  <2>2. host'.view = host.view /\ host'.failed = host.failed
    <3>1. ASSUME NEW h, Deliver(h), DOMAIN h = DOMAIN host, h.view = host.view, h.failed = host.failed
          PROVE  host'.view = host.view /\ host'.failed = host.failed
      <4>1. {"view", "failed"} \subseteq DOMAIN h
        BY <1>0, <3>1 DEF Hosts
      <4>. QED
        BY <3>1, <4>1 DEF Deliver
    <3>2. ASSUME HostSamples
          PROVE  \E g, x : Deliver([host EXCEPT !.guest = g, !.latest = x])
      BY <3>2 DEF HostSamples
    <3>3. ASSUME HostEnds
          PROVE  \E n, x : Deliver([host EXCEPT !.subscription = n, !.latest = x])
      BY <3>3 DEF HostEnds
    <3>4. PICK h : /\ Deliver(h)
                   /\ \/ \E g, x : h = [host EXCEPT !.guest = g, !.latest = x]
                      \/ \E n, x : h = [host EXCEPT !.subscription = n, !.latest = x]
      BY <1>2, <3>2, <3>3
    <3>5. DOMAIN h = DOMAIN host /\ h.view = host.view /\ h.failed = host.failed
      BY <1>0, <3>4 DEF Hosts
    <3>. QED
      BY <3>1, <3>4, <3>5
  <2>. QED
    BY <2>1, <2>2 DEF Clean
<1>3. CASE HostFails
  <2>1. /\ calls' = {Lost(c) : c \in calls} /\ host'.view = host.view /\ host'.failed
        /\ channel' = Append(channel, [NoEvent EXCEPT !.type = "failed"])
    BY <1>3 DEF HostFails, Lost, Host
  <2>2. \A c \in calls : /\ Lost(c).call = c.call /\ Lost(c).view = c.view
                         /\ Lost(c).answer = c.answer \/ Lost(c).answer.type = "failed"
    BY <1>0, Loses
  <2>3. \A d \in calls' : d.call.kind = "ack" /\ d.view = host'.view => d.answer.type # "error"
    BY <2>1, <2>2 DEF Clean
  <2>4. PICK x : x = [NoEvent EXCEPT !.type = "failed"]
    OBVIOUS
  <2>5. x.type = "failed"
    BY <2>4 DEF NoEvent
  <2>6. \A i \in DOMAIN channel' : channel'[i] = x \/ (i \in DOMAIN channel /\ channel'[i] = channel[i])
    BY <1>0, <2>1, <2>4
  <2>. QED
    BY <2>1, <2>3, <2>5, <2>6 DEF Clean
<1>. QED
  BY <1>1, <1>2, <1>3 DEF Supervisor

(* The supervisor keeps what the window and it rely on. *)
LEMMA SupervisorKeeps ==
    ASSUME NEW b \in Nat, Whole(ui, calls, channel, host, made, b), ui.sends = <<>>, Supervisor
    PROVE  Carries(b)
<1>1. Whole(ui, calls', channel', host', made, b) /\ ui' = ui /\ made' = made
  BY AnswersWhole, SamplesWhole, EndsWhole, FailsWhole DEF Supervisor
<1>2. Whole(ui', calls', channel', host', made', b)
  BY <1>1
<1>3. Safe(b) => Clean(ui', calls', channel', host', b)
  BY <1>1, SupervisorClean DEF Safe
<1>. QED
  BY <1>1, <1>2, <1>3 DEF Carries, Steps, Advances

(* Every step keeps the invariant, and what the window may show or keep of a *)
(* trace follows.                                                            *)
LEMMA StepCarries ==
    ASSUME NEW b \in Nat, Whole(ui, calls, channel, host, made, b), ui.sends = <<>>, [Next]_vars
    PROVE  Carries(b)
<1>1. CASE User
  <2>1. Actions \ {"load", "inspect", "trace"} \subseteq Controls /\ "load" \in Controls
    BY WorkbenchAssumption DEF AllActions, Controls
  <2>2. CASE Connect
    BY <2>2, ConnectKeeps
  <2>3. CASE Load
    BY <2>1, <2>3, ControlKeeps
  <2>4. CASE Inspect \/ ReadTrace
    BY <2>4, InspectKeeps
  <2>5. CASE \E action \in Actions \ {"load", "inspect", "trace"} : Execute(action)
    BY <2>1, <2>5, ControlKeeps
  <2>. QED
    BY <1>1, <2>2, <2>3, <2>4, <2>5 DEF User
<1>2. CASE Window
  BY <1>2, AnswerKeeps, MessageKeeps DEF Window
<1>3. CASE Supervisor
  BY <1>3, SupervisorKeeps
<1>4. CASE UNCHANGED vars
  BY <1>4 DEF vars, Carries, Safe, Steps, Advances
<1>. QED
  BY <1>1, <1>2, <1>3, <1>4 DEF Next

(* The invariant is inductive, and every step changes the window in one of    *)
(* the ways that the action properties allow.                                 *)
LEMMA StepKeeps ==
    ASSUME IInv, [Next]_vars
    PROVE  IInv' /\ Steps(ui, ui')
<1>1. PICK b \in Nat : Whole(ui, calls, channel, host, made, b)
  BY DEF IInv
<1>2. Carries(b)
  BY <1>1, StepCarries DEF IInv
<1>. QED
  BY <1>2 DEF Carries, IInv

(* At the start nothing is connected. *)
LEMMA InitKeeps ==
    ASSUME Init
    PROVE  IInv
<1>1. /\ ui = Mounted /\ made = 0 /\ calls = {} /\ channel = <<>>
  BY DEF Init
<1>2. PICK g \in Guests : host = [Host EXCEPT !.guest = g, !.sessions = g.session]
  <2>1. PICK g \in {Absent, [session |-> 1, generation |-> 0, sequence |-> 1,
                             status |-> "ready"]} :
          host = [Host EXCEPT !.guest = g, !.sessions = g.session]
    BY DEF Init
  <2>2. [session |-> 1, generation |-> 0, sequence |-> 1, status |-> "ready"] \in Guests
    BY DEF Guests
  <2>. QED
    BY <2>1, <2>2, NoneTyped
<1>3. g.session \in Nat /\ (g.session = 0 => g = Absent)
  BY DEF Guests
<1>4. host = [view |-> 0, sessions |-> g.session, failed |-> FALSE, guest |-> g,
              subscription |-> 0, waiting |-> NoEvent, latest |-> NoEvent]
  BY <1>2 DEF Host
<1>5. Fresh(host, 0, g.session, FALSE, g)
  BY <1>3, <1>4, FreshHost
<1>6. PICK h : h = host
  OBVIOUS
<1>7. /\ h \in Hosts /\ h.view = 0 /\ h.sessions = g.session /\ ~h.failed
      /\ h.guest = g /\ h.subscription = 0 /\ h.waiting = NoEvent /\ h.latest = NoEvent
  BY <1>5, <1>6 DEF Fresh
<1>8. PICK u : u = ui
  OBVIOUS
<1>9. /\ u.epoch = 0 /\ u.attachment = 0 /\ ~u.connected /\ u.connecting = "no"
      /\ u.controlling = "no" /\ u.snapshot = Absent /\ u.subscription = 0
      /\ ~u.subscribing /\ ~u.refresh /\ u.pending = NoEvent /\ u.trace = NoTrace
      /\ u.traceRequest = 0 /\ u.awaited = 0 /\ u.sends = <<>>
  BY <1>1, <1>8 DEF Mounted
<1>10. u \in Windows
  <2>1. <<>> \in Seq(Commands)
    OBVIOUS
  <2>2. NoTrace \in [guest : Guests, request : Nat]
    BY NoneTyped DEF NoTrace
  <2>. QED
    BY <1>1, <1>8, <2>1, <2>2, NoneTyped DEF Mounted, Windows
<1>11. Typed(u, {}, <<>>, h, 0)
  BY <1>7, <1>10 DEF Typed
<1>12. Names(u, {}, <<>>, h, 0, 0, NoEvent) /\ Link(u, <<>>, h) /\ Calling(u, {}, <<>>, h)
  BY <1>7, <1>9 DEF Names, Named, Link, Calling
<1>13. Tasks(u, {}) /\ Traces(u, {}, 0) /\ Loads(u, {}) /\ Controlling(u, {}, h)
  <2>1. NoTrace.request = 0
    BY DEF NoTrace
  <2>. QED
    BY <1>9, <2>1 DEF Tasks, Traces, Loads, Controlling
<1>14. Pasts(u, {}, <<>>, h, 0, NoEvent)
  <2>1. NoEvent.guest = Absent /\ Absent.session = 0 /\ Absent.sequence = 0
    BY DEF NoEvent, Absent
  <2>2. Past(Absent, h)
    <3>1. g.session \in Nat /\ g.sequence \in Nat
      BY DEF Guests
    <3>. QED
      BY <1>3, <1>7, <2>1, <3>1 DEF Past
  <2>. QED
    BY <1>7, <1>9, <2>1, <2>2 DEF Pasts
<1>15. Credit(u, {}, <<>>, h, 0, NoEvent)
  <2>1. NoEvent.type # "failed"
    BY DEF NoEvent
  <2>. QED
    BY <1>7, <1>9, <2>1 DEF Credit
<1>16. Following(u, {}, <<>>, h, NoEvent) /\ Settled(u, h)
  BY <1>9 DEF Following, Settled
<1>17. Whole(u, {}, <<>>, h, 0, 0)
  BY <1>11, <1>12, <1>13, <1>14, <1>15, <1>16, NoneTyped DEF Whole, Most
<1>. QED
  BY <1>1, <1>6, <1>8, <1>9, <1>17 DEF IInv

-----------------------------------------------------------------------------
(* What follows for the user.                                              *)

(* In every state the variables have their types and the invariant holds: the *)
(* window, the calls, the channel and the supervisor agree (initialize and    *)
(* every handler of the controller).                                          *)
THEOREM Invariance == Spec => []IInv
<1>1. Init => IInv
  BY InitKeeps
<1>2. IInv /\ [Next]_vars => IInv'
  BY StepKeeps
<1>. QED
  BY <1>1, <1>2, PTL DEF Spec

(* Within one connection the machine shown gives way only to a later          *)
(* observation, a later session, or nothing (publish, receive, execute).      *)
THEOREM SnapshotNeverGoesBack == Spec => SnapshotAdvances
<1> DEFINE A == ui.epoch = ui'.epoch /\ ui.snapshot # Absent /\ ui'.snapshot # Absent =>
          \/ ui.snapshot = ui'.snapshot
          \/ ui.snapshot.session < ui'.snapshot.session
          \/ /\ ui.snapshot.session = ui'.snapshot.session
             /\ ui.snapshot.sequence < ui'.snapshot.sequence
<1>1. IInv /\ [Next]_vars => [A]_vars
  BY StepKeeps DEF Steps, Advances
<1>2. SnapshotAdvances <=> [][A]_vars
  BY DEF SnapshotAdvances
<1> HIDE DEF A
<1>. QED
  BY <1>1, <1>2, Invariance, PTL DEF Spec

(* A trace is replaced only by that of a later read, or by none (readTrace).  *)
THEOREM TraceNeverGoesBack == Spec => TraceIsLatest
<1> DEFINE A == ui'.trace # ui.trace =>
                  ui'.trace = NoTrace \/ ui'.trace.request > ui.trace.request
<1>1. IInv /\ [Next]_vars => [A]_vars
  BY StepKeeps DEF Steps
<1>2. TraceIsLatest <=> [][A]_vars
  BY DEF TraceIsLatest
<1> HIDE DEF A
<1>. QED
  BY <1>1, <1>2, Invariance, PTL DEF Spec

(* The machine that is shown is one of the worker connected to, as it was at  *)
(* most as late as it is now, though sessions of a dead worker have the same  *)
(* numbers (scoped, connect, failed).                                         *)
THEOREM ShownBelongsToWorker == Spec => []ShownIsOfWorker
<1>1. IInv => ShownIsOfWorker
  <2>1. SUFFICES ASSUME IInv PROVE ShownIsOfWorker
    OBVIOUS
  <2>2. PICK b \in Nat : Whole(ui, calls, channel, host, made, b)
    BY <2>1 DEF IInv
  <2>3. Link(ui, channel, host) /\ Pasts(ui, calls, channel, host, b, NoEvent)
    BY <2>2 DEF Whole, Most
  <2>. QED
    BY <2>3 DEF Link, Pasts, Past, ShownIsOfWorker
<1>. QED
  BY <1>1, Invariance, PTL

(* Once all is answered the machine shown is followed: window and worker      *)
(* agree on a subscription, unless its loss was reported (subscribe,          *)
(* updateSubscription, and the controls they overlap).                        *)
THEOREM FollowedWhenSettled == Spec => []SubscribedWhenSettled
<1>1. IInv => SubscribedWhenSettled
  <2>1. SUFFICES ASSUME IInv, Quiet, ui.connected, ~host.failed, ui.snapshot # Absent, ~ui.told
                 PROVE  ui.subscription # 0 /\ host.subscription = ui.subscription
    BY DEF SubscribedWhenSettled
  <2>2. PICK b \in Nat : Whole(ui, calls, channel, host, made, b)
    BY <2>1 DEF IInv
  <2>3. /\ Link(ui, channel, host) /\ Tasks(ui, calls) /\ Settled(ui, host)
        /\ Credit(ui, calls, channel, host, b, NoEvent)
        /\ Following(ui, calls, channel, host, NoEvent)
        /\ Names(ui, calls, channel, host, made, b, NoEvent)
    BY <2>2 DEF Whole, Most
  <2>4. calls = {} /\ channel = <<>> /\ ui.attachment # 0
    BY <2>1, <2>3 DEF Quiet, Link
  <2>5. ~ui.subscribing
    BY <2>3, <2>4 DEF Tasks
  <2>6. ~ui.refresh /\ ui.pending = NoEvent
    BY <2>1, <2>3, <2>4, <2>5 DEF Settled
  <2>7. ui.subscription # 0 /\ Follows(ui.subscription, ui, calls, channel, host, NoEvent)
    BY <2>1, <2>3, <2>4, <2>5, <2>6 DEF Following
  <2>8. host.latest = NoEvent
    <3>1. ~(b < NoEvent.id)
      BY DEF NoEvent
    <3>2. host.waiting = NoEvent
      BY <2>1, <2>3, <2>4, <2>6, <3>1 DEF Credit
    <3>. QED
      BY <2>3, <3>2 DEF Credit
  <2>9. EndOf(ui.subscription) # NoEvent /\ channel # <<EndOf(ui.subscription)>>
    <3>1. EndOf(ui.subscription) # NoEvent
      BY DEF EndOf, NoEvent
    <3>2. Len(<<EndOf(ui.subscription)>>) = 1 /\ Len(<<>>) = 0
      OBVIOUS
    <3>. QED
      BY <2>4, <3>1, <3>2
  <2>10. ~Changing(ui, calls)
    BY <2>4 DEF Changing
  <2>. QED
    BY <2>6, <2>7, <2>8, <2>9, <2>10 DEF Follows
<1>. QED
  BY <1>1, Invariance, PTL

(* Once all is answered the attached window owes no credit, or nothing would  *)
(* be sent to it again, whatever was held back meanwhile (receive,            *)
(* updateSubscription, acknowledge).                                          *)
LEMMA CreditIsKept == IInv => CreditKept
<1>1. SUFFICES ASSUME IInv, Quiet, ui.attachment # 0, ~host.failed PROVE host.waiting = NoEvent
  BY DEF CreditKept
<1>2. PICK b \in Nat : Whole(ui, calls, channel, host, made, b)
  BY <1>1 DEF IInv
<1>3. /\ Tasks(ui, calls) /\ Settled(ui, host) /\ Credit(ui, calls, channel, host, b, NoEvent)
  BY <1>2 DEF Whole, Most
<1>4. calls = {} /\ channel = <<>>
  BY <1>1 DEF Quiet
<1>5. ui.pending = NoEvent
  BY <1>3, <1>4 DEF Tasks, Settled
<1>6. ~(b < NoEvent.id)
  BY <1>2 DEF NoEvent
<1>. QED
  BY <1>1, <1>3, <1>4, <1>5, <1>6 DEF Credit

(* Of the credit, the half that keeps the stream going holds in every behaviour, *)
(* whatever workers fail and windows reconnect (receive, acknowledge).           *)
THEOREM CreditComesBack == Spec => []CreditKept
BY CreditIsKept, Invariance, PTL

(* The invariant, with no event of an older view held back or acknowledged.   *)
CInv ==
    /\ ui.sends = <<>>
    /\ \E b \in Nat : /\ Whole(ui, calls, channel, host, made, b)
                      /\ Clean(ui, calls, channel, host, b)

(* Before anything is connected, nothing is held back.                        *)
LEMMA CleanStarts ==
    ASSUME Init
    PROVE  CInv
<1>1. PICK b \in Nat : Whole(ui, calls, channel, host, made, b)
  BY InitKeeps DEF IInv
<1>2. ui.pending = NoEvent /\ ui.sends = <<>>
  BY DEF Init, Mounted
<1>3. calls = {} /\ channel = <<>>
  BY DEF Init
<1>4. Clean(ui, calls, channel, host, b)
  BY <1>2, <1>3 DEF Clean
<1>. QED
  BY <1>1, <1>2, <1>4 DEF CInv

(* It stays so as long as no event is held back while the window connects.    *)
LEMMA CleanStays ==
    ASSUME CInv, [Next]_vars, [Connect => ui.pending = NoEvent]_vars
    PROVE  CInv'
<1>1. PICK b \in Nat : /\ Whole(ui, calls, channel, host, made, b)
                       /\ Clean(ui, calls, channel, host, b)
  BY DEF CInv
<1>2. CASE Connect => ui.pending = NoEvent
  <2>1. Carries(b) /\ Safe(b)
    BY <1>1, <1>2, StepCarries DEF CInv, Safe
  <2>. QED
    BY <2>1 DEF Carries, CInv
<1>3. CASE UNCHANGED vars
  BY <1>3 DEF CInv, vars
<1>. QED
  BY <1>2, <1>3

(* Credit is returned exactly once, provided the window never connects while  *)
(* it holds an event back: none is kept, and none that the attached view      *)
(* returns is refused.  Without the proviso an event of the view before is    *)
(* acknowledged through the new one (updateSubscription's finally).           *)
THEOREM CreditIsReturned == Spec /\ [][Connect => ui.pending = NoEvent]_vars => []CreditReturned
<1>1. Init => CInv
  BY CleanStarts
<1>2. CInv /\ [Next]_vars /\ [Connect => ui.pending = NoEvent]_vars => CInv'
  BY CleanStays
<1>3. CInv => CreditReturned
  <2>1. CInv => CreditAccepted
    BY DEF CInv, Clean, CreditAccepted
  <2>2. CInv => IInv
    BY DEF CInv, IInv
  <2>. QED
    BY <2>1, <2>2, CreditIsKept DEF CreditReturned
<1>. QED
  BY <1>1, <1>2, <1>3, PTL DEF Spec
=============================================================================
