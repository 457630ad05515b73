--------------------------- MODULE SupervisorProofs ---------------------------
(***************************************************************************)
(* Proofs about the desktop supervisor, for every capacity and bound, and  *)
(* every choice of commands and faults.                                    *)
(***************************************************************************)
EXTENDS SupervisorProperties, Counting

USE SupervisorAssumption

(***************************************************************************)
(* Types.                                                                  *)
(***************************************************************************)
Guests == [session : Nat, generation : Nat, sequence : Nat,
           status : {"none", "ready", "running", "paused"}]
Types == {"none", "reply", "event", "garbage"}
Replying == {"hello", "assemble", "observed", "session closed", "subscribed", "unsubscribed",
             "error", "closed"}
OutputKinds == Replying \cup {"none", "full", "delta", "ended"}
Outputs == [type : Types, id : Nat, kind : OutputKinds, base : Nat, guest : Guests]
CallRecords == [kind : AllKinds \cup {"hello", "shutdown"}, view : Nat]
Streams == [id : Nat, latest : Outputs, base : Outputs]
Credits == [attached : BOOLEAN, waiting : Outputs, latest : Outputs]
Settlements == [id : Nat, outcome : {"answered", "unknown", "not run"}]

CallTypes ==
    /\ calls \in Seq(CallRecords) /\ queue \in Seq(Nat) /\ writing \in Nat /\ stdin \in Seq(Nat)
    /\ pending \subseteq Ids /\ started \subseteq Ids /\ executed \subseteq started
    /\ settled \in Seq(Settlements)

WindowTypes ==
    /\ view \in Nat /\ guest \in Guests /\ closedSession \in Nat /\ subscription \in Nat
    /\ cache \in Outputs /\ delivery \in Credits /\ delivered \in Seq([view : Nat, event : Outputs])

WorkerTypes ==
    stdout \in Seq(Outputs) /\ machine \in Guests /\ stream \in Streams /\ held \in Outputs

(***************************************************************************)
(* Calls move from the queue to the writer, the pipe and the worker in     *)
(* order of their numbers, so that none is executed twice.                 *)
(***************************************************************************)
Rising(s) == \A i, j \in DOMAIN s : i < j => s[i] < s[j]

InOrder ==
    /\ Rising(queue) /\ Rising(stdin)
    /\ \A i \in DOMAIN queue : queue[i] \in Ids /\ \A id \in started : id < queue[i]
    /\ \A i \in DOMAIN stdin : stdin[i] \in started /\ \A id \in executed : id < stdin[i]
    /\ writing # 0 => /\ writing \in started /\ \A id \in executed : id < writing
                      /\ \A i \in DOMAIN stdin : stdin[i] < writing

(* A call is open, or settled once; one settled as not run never started. *)
Accounted ==
    /\ \A i, j \in DOMAIN settled : settled[i].id = settled[j].id => i = j
    /\ \A i \in DOMAIN settled : settled[i].id \in Ids \ pending
    /\ \A id \in Ids \ pending : \E i \in DOMAIN settled : settled[i].id = id
    /\ \A i \in DOMAIN settled : settled[i].outcome = "not run" => settled[i].id \notin started
    /\ failure # "none" \/ stage = "none" => pending = {}

Handling == CallTypes /\ InOrder /\ Accounted

(***************************************************************************)
(* What the worker says.  A message is an event of a subscription that was *)
(* executed, or a reply; a subscription's events follow its reply.         *)
(***************************************************************************)
IsReply(output, kind) == output.type = "reply" /\ output.kind = kind
IsEvent(output) == output.type = "event"

SaidOf(output) ==
    /\ IsEvent(output) => output.id \in executed /\ output.kind \in {"full", "delta", "ended"}
    /\ IsReply(output, "subscribed") =>
          output.id \in executed /\ calls[output.id].kind = "subscribe"
    /\ IsReply(output, "unsubscribed") => output.base \in executed

Said ==
    /\ \A i \in DOMAIN stdout : SaidOf(stdout[i])
    /\ held # NoEvent => IsReply(held, "observed")
    /\ stream.id # 0 => stream.id \in executed
    /\ stream.latest # NoEvent =>
          IsEvent(stream.latest) /\ stream.latest.id \in executed
          /\ stream.latest.kind \in {"full", "ended"}
    /\ stream.base # NoEvent => stream.base.id \in executed
    /\ cache # NoEvent => cache.id \in executed

RepliesFirst ==
    \A i \in DOMAIN stdout : IsReply(stdout[i], "subscribed") =>
        /\ cache.id # stdout[i].id
        /\ \A j \in DOMAIN stdout : IsEvent(stdout[j]) /\ stdout[j].id = stdout[i].id => i < j

(* What is, was or will be sent to a window is of a call it made. *)
IsOf(id, lease) == id \in Ids /\ calls[id] = [kind |-> "subscribe", view |-> lease]

Owned ==
    /\ \A id \in Ids : calls[id].view <= view
    /\ subscription # 0 => IsOf(subscription, view)
    /\ delivery.latest # NoEvent => IsOf(delivery.latest.id, view)
    /\ \A i \in DOMAIN delivered : IsOf(delivered[i].event.id, delivered[i].view)
    /\ delivery.waiting # NoEvent => delivery.attached

Speaking == WindowTypes /\ WorkerTypes /\ Said /\ RepliesFirst /\ Owned

(***************************************************************************)
(* Without a defective worker.  Every call on its way is awaited, and      *)
(* every reply on its way is to a call that is awaited.                    *)
(***************************************************************************)
Sound == {"garbage", "resources"} \cap Faults = {}

Waiting ==
    /\ \A i \in DOMAIN queue : queue[i] \in pending
    /\ \A i \in DOMAIN stdin : stdin[i] \in pending
    /\ writing # 0 => writing \in pending

Answering ==
    /\ \A i \in DOMAIN stdout :
        /\ stdout[i].type \in {"reply", "event"}
        /\ stdout[i].type = "reply" => stdout[i].id \in pending \cap executed
    /\ \A i, j \in DOMAIN stdout :
        stdout[i].type = "reply" /\ stdout[j].type = "reply" /\ stdout[i].id = stdout[j].id => i = j
    /\ held # NoEvent =>
        /\ held.id \in pending \cap executed
        /\ \A i \in DOMAIN stdout : stdout[i].type = "reply" => stdout[i].id # held.id

Awaited == failure # "protocol" /\ (failure = "none" => Waiting /\ Answering)

(* Each delta extends the event before it, or the cache. *)
Fit(full, delta) ==
    /\ full.id = delta.id /\ delta.base = full.guest.sequence
    /\ SameKey(full.guest, delta.guest) /\ delta.guest.sequence > delta.base

LastBefore(k, p) ==
    /\ p \in 0 .. k - 1 /\ (p # 0 => IsEvent(stdout[p]) /\ stdout[p].kind # "ended")
    /\ \A q \in DOMAIN stdout : p < q /\ q < k => ~IsEvent(stdout[q])
FullAt(p) == IF p = 0 THEN cache ELSE stdout[p]

Deltas ==
    \A i \in DOMAIN stdout : IsEvent(stdout[i]) /\ stdout[i].kind = "delta" =>
        \E p \in 0 .. Len(stdout) : LastBefore(i, p) /\ Fit(FullAt(p), stdout[i])

Based ==
    stream.base # NoEvent =>
        \E p \in 0 .. Len(stdout) :
            /\ LastBefore(Len(stdout) + 1, p)
            /\ FullAt(p).id = stream.base.id /\ FullAt(p).guest = stream.base.guest

Newer ==
    stream.latest.kind = "full" /\ SameKey(stream.base.guest, stream.latest.guest) =>
        stream.base.guest.sequence < stream.latest.guest.sequence

Chained == Deltas /\ Based /\ Newer

(***************************************************************************)
(* The observations there are of the guest, and their order.               *)
(***************************************************************************)
InFlight ==
    {guest, machine, held.guest, stream.latest.guest, stream.base.guest}
        \cup {stdout[i].guest : i \in DOMAIN stdout}

IsClosing(o) == IsReply(o, "session closed")
Closing(i) == IsClosing(stdout[i])

(* What is shown is of sessions there were, and the guest is ahead of it.  *)
Behind ==
    /\ \A g \in InFlight : IF g.session = 0 THEN g = NoGuest ELSE g.session \in executed
    /\ \A g \in InFlight : g.session = machine.session =>
          g.sequence <= machine.sequence /\ g.generation <= machine.generation
    /\ \A a, b \in InFlight : a.session = b.session /\ a.sequence <= b.sequence =>
          a.generation <= b.generation

(* The sessions before the guest's were closed, or their closing is on its *)
(* way.                                                                    *)
Ending ==
    /\ closedSession # 0 => closedSession \in executed
    /\ guest = NoGuest \/ closedSession < guest.session
    /\ machine.session # 0 =>
        /\ closedSession < machine.session
        /\ \A g \in InFlight : g.session <= machine.session
        /\ \A i \in DOMAIN stdout : Closing(i) => stdout[i].guest.session < machine.session
    /\ machine.session = 0 => \A g \in InFlight :
        \/ g.session <= closedSession
        \/ \E i \in DOMAIN stdout : Closing(i) /\ g.session <= stdout[i].guest.session

Ordered == Behind /\ Ending

(* The key of the machine is shown, or on its way, behind every closed     *)
(* session.                                                                *)
Carries(i) ==
    /\ IsReply(stdout[i], "observed") \/ (IsEvent(stdout[i]) /\ stdout[i].kind # "ended")
    /\ SameKey(stdout[i].guest, machine)

ShownAt(j) ==
    /\ IF j = 0 THEN SameKey(guest, machine) ELSE Carries(j)
    /\ \A i \in DOMAIN stdout : Closing(i) => i < j

(* The subscription of the stream is the supervisor's, or on its way, and  *)
(* none follows it.                                                        *)
Tuned == calls[stream.id].view = view /\ delivery.attached => subscription = stream.id
SubscribedAt(i) ==
    /\ IF i = 0
       THEN Tuned
       ELSE IsReply(stdout[i], "subscribed") /\ stdout[i].id = stream.id
    /\ \A k \in DOMAIN stdout : i < k => ~IsReply(stdout[k], "subscribed")

Followed ==
    /\ machine.session # 0 => \E j \in 0 .. Len(stdout) : ShownAt(j)
    /\ stream.id # 0 =>
        /\ machine.session # 0
        /\ \E i \in 0 .. Len(stdout) : SubscribedAt(i) /\ \E j \in 0 .. i : ShownAt(j)
        /\ \A k \in DOMAIN stdout :
            IsReply(stdout[k], "unsubscribed") => stdout[k].base # stream.id

Synced == Awaited /\ Chained /\ Ordered /\ Followed
-----------------------------------------------------------------------------
(* Records and sequences.                                                  *)

LEMMA Empty0 ==
  /\ NoGuest \in Guests /\ NoEvent \in Outputs /\ NoStream \in Streams
  /\ Detached \in Credits /\ NewDelivery \in Credits
  /\ NoEvent.id = 0 /\ NoEvent.type = "none" /\ NoEvent.kind = "none" /\ NoEvent.guest = NoGuest
  /\ NoGuest.session = 0 /\ NoGuest.generation = 0 /\ NoGuest.sequence = 0
  /\ NoGuest.status = "none"
  /\ NoStream.id = 0 /\ NoStream.latest = NoEvent /\ NoStream.base = NoEvent
  /\ ~Detached.attached /\ Detached.waiting = NoEvent /\ Detached.latest = NoEvent
  /\ NewDelivery.attached /\ NewDelivery.waiting = NoEvent /\ NewDelivery.latest = NoEvent
<1>1. NoGuest \in Guests
  BY DEF NoGuest, Guests
<1>2. NoEvent \in Outputs
  BY <1>1 DEF NoEvent, Output, Outputs, Types, OutputKinds
<1>3. NoStream \in Streams
  BY <1>2 DEF NoStream, Streams
<1>4. Detached \in Credits
  BY <1>2 DEF Detached, Credits
<1>5. /\ NewDelivery \in Credits /\ NewDelivery.attached
      /\ NewDelivery.waiting = NoEvent /\ NewDelivery.latest = NoEvent
  <2>1. ASSUME NEW d \in Credits, NEW flag \in BOOLEAN, NEW e, e = [d EXCEPT !.attached = flag]
        PROVE  e \in Credits /\ e.attached = flag /\ e.waiting = d.waiting /\ e.latest = d.latest
    BY <2>1, SMT DEF Credits
  <2>2. PICK flag \in BOOLEAN : flag = TRUE
    OBVIOUS
  <2>3. Detached.waiting = NoEvent /\ Detached.latest = NoEvent
    BY DEF Detached
  <2>4. NewDelivery = [Detached EXCEPT !.attached = flag]
    BY <2>2 DEF NewDelivery
  <2>5. NewDelivery \in Credits /\ NewDelivery.attached = flag
        /\ NewDelivery.waiting = Detached.waiting /\ NewDelivery.latest = Detached.latest
    BY <1>4, <2>1, <2>4
  <2> QED BY <2>2, <2>3, <2>5
<1>7. /\ NoEvent.id = 0 /\ NoEvent.type = "none" /\ NoEvent.kind = "none" /\ NoEvent.guest = NoGuest
  BY DEF NoEvent, Output
<1>8. /\ NoGuest.session = 0 /\ NoGuest.generation = 0 /\ NoGuest.sequence = 0
      /\ NoGuest.status = "none"
  BY DEF NoGuest
<1>9. /\ NoStream.id = 0 /\ NoStream.latest = NoEvent /\ NoStream.base = NoEvent
  BY DEF NoStream
<1>10. ~Detached.attached /\ Detached.waiting = NoEvent /\ Detached.latest = NoEvent
  BY DEF Detached
<1> QED BY <1>1, <1>2, <1>3, <1>4, <1>5, <1>7, <1>8, <1>9, <1>10

LEMMA GuestIs ==
  ASSUME NEW m \in Guests
  PROVE  /\ m.session \in Nat /\ m.generation \in Nat /\ m.sequence \in Nat
         /\ m.status \in {"none", "ready", "running", "paused"}
BY DEF Guests

LEMMA OutputIs ==
  ASSUME NEW o \in Outputs
  PROVE  /\ o.type \in Types /\ o.id \in Nat /\ o.base \in Nat /\ o.kind \in OutputKinds
         /\ o.guest \in Guests
BY DEF Outputs

LEMMA MadeIs ==
  ASSUME NEW type \in Types, NEW id \in Nat, NEW g \in Guests, NEW kind \in OutputKinds
  PROVE  LET o == Output(type, id, kind, g) IN
         /\ o \in Outputs /\ o.type = type /\ o.id = id /\ o.kind = kind /\ o.guest = g /\ o.base = 0
BY DEF Output, Outputs

(* A reading of the guest: the next number, and perhaps another status.    *)
LEMMA ObservedIs ==
  ASSUME NEW m \in Guests
  PROVE  LET o == Observed(m) IN
         /\ o \in Guests /\ SameKey(o, m) /\ o.session = m.session /\ o.generation = m.generation
         /\ o.sequence = m.sequence + 1 /\ o.status = m.status
<1>1. PICK o : o = [m EXCEPT !.sequence = m.sequence + 1]
  OBVIOUS
<1>2. m.sequence + 1 \in Nat
  BY GuestIs
<1>3. /\ o \in Guests /\ o.session = m.session /\ o.generation = m.generation
      /\ o.sequence = m.sequence + 1 /\ o.status = m.status
  BY <1>1, <1>2, SMT DEF Guests
<1>4. Observed(m) = o
  BY <1>1 DEF Observed
<1> QED BY <1>3, <1>4 DEF SameKey

LEMMA StatusIs ==
  ASSUME NEW m \in Guests, NEW s \in {"ready", "running", "paused"}
  PROVE  LET o == [m EXCEPT !.status = s] IN
         /\ o \in Guests /\ o.session = m.session /\ o.generation = m.generation
         /\ o.sequence = m.sequence /\ o.status = s
<1>1. PICK o : o = [m EXCEPT !.status = s]
  OBVIOUS
<1>2. /\ o \in Guests /\ o.session = m.session /\ o.generation = m.generation
      /\ o.sequence = m.sequence /\ o.status = s
  BY <1>1, SMT DEF Guests
<1> QED BY <1>1, <1>2

LEMMA ResetIs ==
  ASSUME NEW m \in Guests
  PROVE  LET o == [m EXCEPT !.status = "ready", !.generation = @ + 1] IN
         /\ o \in Guests /\ o.session = m.session /\ o.generation = m.generation + 1
         /\ o.sequence = m.sequence
<1>1. PICK n : n = [m EXCEPT !.status = "ready"]
  OBVIOUS
<1>2. /\ n \in Guests /\ n.session = m.session /\ n.generation = m.generation
      /\ n.sequence = m.sequence
  BY <1>1, SMT DEF Guests
<1>3. PICK o : o = [n EXCEPT !.generation = m.generation + 1]
  OBVIOUS
<1>4. m.generation + 1 \in Nat
  BY GuestIs
<1>5. /\ o \in Guests /\ o.session = n.session /\ o.generation = m.generation + 1
      /\ o.sequence = n.sequence
  BY <1>2, <1>3, <1>4, SMT DEF Guests
<1>6. [m EXCEPT !.status = "ready", !.generation = @ + 1] = o
  BY <1>1, <1>2, <1>3
<1> QED BY <1>2, <1>5, <1>6

LEMMA FullIs ==
  ASSUME NEW e \in Outputs
  PROVE  /\ Full(e) \in Outputs /\ Full(e).id = e.id /\ Full(e).guest = e.guest
         /\ Full(e).type = e.type
<1>0. "full" \in OutputKinds
  BY DEF OutputKinds
<1>1. CASE e.kind = "delta"
  <2>1. PICK n : n = [e EXCEPT !.kind = "full"]
    OBVIOUS
  <2>2. n \in Outputs /\ n.id = e.id /\ n.guest = e.guest /\ n.type = e.type
    BY <1>0, <2>1, SMT DEF Outputs
  <2>3. PICK o : o = [n EXCEPT !.base = 0]
    OBVIOUS
  <2>4. o \in Outputs /\ o.id = n.id /\ o.guest = n.guest /\ o.type = n.type
    BY <2>2, <2>3, SMT DEF Outputs
  <2>5. Full(e) = o
    BY <1>1, <2>1, <2>3 DEF Full
  <2> QED BY <2>2, <2>4, <2>5
<1>2. CASE e.kind # "delta"
  BY <1>2 DEF Full
<1> QED BY <1>1, <1>2

LEMMA StreamIs ==
  ASSUME NEW s \in Streams
  PROVE  s.id \in Nat /\ s.latest \in Outputs /\ s.base \in Outputs
BY DEF Streams

LEMMA StreamSet ==
  ASSUME NEW s \in Streams, NEW o \in Outputs, NEW t, t = [s EXCEPT !.latest = o]
  PROVE  t \in Streams /\ t.id = s.id /\ t.latest = o /\ t.base = s.base
BY SMT DEF Streams

LEMMA StreamId ==
  ASSUME NEW s \in Streams, NEW id \in Nat, NEW t, t = [s EXCEPT !.id = id]
  PROVE  t \in Streams /\ t.id = id /\ t.latest = s.latest /\ t.base = s.base
BY SMT DEF Streams

LEMMA NotObservedIs ==
  ASSUME stream \in Streams
  PROVE  NotObserved \in Streams /\ NotObserved.id = 0 /\ NotObserved.latest = NoEvent
         /\ NotObserved.base = stream.base
<1>1. PICK r : r = [stream EXCEPT !.id = 0]
  OBVIOUS
<1>2. r \in Streams /\ r.id = 0 /\ r.base = stream.base
  BY <1>1, StreamId
<1>3. PICK t : t = [r EXCEPT !.latest = NoEvent]
  OBVIOUS
<1>4. t \in Streams /\ t.id = r.id /\ t.latest = NoEvent /\ t.base = r.base
  BY <1>2, <1>3, StreamSet, Empty0
<1>5. NotObserved = t
  BY <1>1, <1>3 DEF NotObserved
<1> QED BY <1>2, <1>4, <1>5

LEMMA AppendIs ==
  ASSUME NEW S, NEW s \in Seq(S), NEW e \in S
  PROVE  /\ Append(s, e) \in Seq(S) /\ Len(s) \in Nat /\ DOMAIN s = 1 .. Len(s)
         /\ Len(Append(s, e)) = Len(s) + 1 /\ DOMAIN Append(s, e) = 1 .. Len(s) + 1
         /\ Append(s, e)[Len(s) + 1] = e
         /\ \A i \in 1 .. Len(s) : Append(s, e)[i] = s[i]
BY AppendProperties, LenProperties

LEMMA TailIs ==
  ASSUME NEW S, NEW s \in Seq(S), s # <<>>
  PROVE  /\ Tail(s) \in Seq(S) /\ Len(s) \in Nat \ {0} /\ DOMAIN s = 1 .. Len(s)
         /\ Len(Tail(s)) = Len(s) - 1 /\ DOMAIN Tail(s) = 1 .. Len(s) - 1
         /\ Head(s) = s[1] /\ Head(s) \in S
         /\ \A i \in 1 .. Len(s) - 1 : Tail(s)[i] = s[i + 1]
<1>1. Len(s) \in Nat /\ DOMAIN s = 1 .. Len(s) /\ Len(s) # 0
  BY LenProperties, EmptySeq
<1>2. Tail(s) \in Seq(S) /\ Len(Tail(s)) = Len(s) - 1 /\ \A i \in 1 .. Len(s) - 1 : Tail(s)[i] = s[i + 1]
      /\ Head(s) = s[1] /\ Head(s) \in S
  BY <1>1, HeadTailProperties
<1> QED BY <1>1, <1>2, LenProperties
-----------------------------------------------------------------------------
(* Calls: from admission to their settlement.                              *)

LEMMA IdsIs ==
  ASSUME calls \in Seq(CallRecords)
  PROVE  /\ Len(calls) \in Nat /\ Ids = 1 .. Len(calls) /\ Ids \subseteq Nat \ {0}
         /\ \A id \in Ids : calls[id] \in CallRecords
<1>1. Len(calls) \in Nat /\ Ids = 1 .. Len(calls)
  BY LenProperties DEF Ids
<1> QED BY <1>1, ElementOfSeq

LEMMA HandlingInit == Init => Handling
BY EmptySeq DEF Init, Handling, CallTypes, InOrder, Accounted, Rising, Ids

HandlingFrame == <<calls, pending, started, settled, failure, queue, writing, stdin, executed>>

LEMMA HandlingKept ==
  ASSUME Handling, UNCHANGED HandlingFrame, stage' = stage \/ stage' # "none" \/ failure # "none"
  PROVE  Handling'
BY DEF Handling, CallTypes, InOrder, Accounted, Rising, Ids, HandlingFrame

LEMMA RisingAppend ==
  ASSUME NEW s \in Seq(Nat), Rising(s), NEW n \in Nat, \A i \in DOMAIN s : s[i] < n
  PROVE  Rising(Append(s, n))
<1> DEFINE t == Append(s, n)
           l == Len(s)
<1>1. /\ l \in Nat /\ DOMAIN s = 1 .. l /\ DOMAIN t = 1 .. l + 1 /\ t[l + 1] = n
      /\ \A i \in 1 .. l : t[i] = s[i]
  BY AppendIs
<1> HIDE DEF t, l
<1>2. ASSUME NEW i \in DOMAIN t, NEW j \in DOMAIN t, i < j PROVE t[i] < t[j]
  <2>1. i \in 1 .. l
    BY <1>1, <1>2
  <2>2. CASE j = l + 1
    BY <1>1, <2>1, <2>2
  <2>3. CASE j # l + 1
    <3>1. j \in 1 .. l
      BY <1>1, <2>3
    <3> QED BY <1>1, <1>2, <2>1, <3>1 DEF Rising
  <2> QED BY <2>2, <2>3
<1> QED BY <1>2 DEF Rising, t

LEMMA RisingTail ==
  ASSUME NEW s \in Seq(Nat), s # <<>>, Rising(s)
  PROVE  Rising(Tail(s)) /\ \A i \in DOMAIN Tail(s) : Head(s) < Tail(s)[i] /\ \E j \in DOMAIN s : Tail(s)[i] = s[j]
<1> DEFINE t == Tail(s)
           l == Len(s)
<1>1. /\ l \in Nat \ {0} /\ DOMAIN s = 1 .. l /\ DOMAIN t = 1 .. l - 1 /\ Head(s) = s[1]
      /\ \A i \in 1 .. l - 1 : t[i] = s[i + 1]
  BY TailIs
<1> HIDE DEF t, l
<1>2. \A i \in DOMAIN t : i + 1 \in DOMAIN s /\ 1 < i + 1 /\ t[i] = s[i + 1] /\ 1 \in DOMAIN s
  <2> TAKE i \in DOMAIN t
  <2>1. i \in 1 .. l - 1
    BY <1>1
  <2>0. l \in Nat
    BY <1>1
  <2>2. i + 1 \in 1 .. l /\ 1 < i + 1 /\ 1 \in 1 .. l
    BY <2>0, <2>1, Shifted
  <2> QED BY <1>1, <2>1, <2>2
<1>3. \A i, j \in DOMAIN t : i < j => i + 1 < j + 1
  BY <1>1
<1>4. Rising(t)
  BY <1>2, <1>3 DEF Rising
<1>5. \A i \in DOMAIN t : Head(s) < t[i] /\ \E j \in DOMAIN s : t[i] = s[j]
  BY <1>1, <1>2 DEF Rising
<1> QED BY <1>4, <1>5 DEF t

(* What an admitted call adds. *)
LEMMA AdmitIs ==
  ASSUME Handling, NEW kind \in AllKinds \cup {"hello", "shutdown"}, NEW lease \in Nat,
         Admit(kind, lease), NEW n, n = Len(calls) + 1
  PROVE  /\ calls' \in Seq(CallRecords) /\ n \in Nat /\ n \notin Ids /\ Ids' = Ids \cup {n}
         /\ (\A id \in Ids : calls'[id] = calls[id] /\ id < n)
         /\ calls'[n] = [kind |-> kind, view |-> lease] /\ pending' = pending \cup {n}
         /\ queue' = Append(queue, n) /\ UNCHANGED <<started, settled, failure>> /\ failure = "none"
<1>1. PICK call \in CallRecords : call = [kind |-> kind, view |-> lease]
  BY DEF CallRecords
<1>2. calls \in Seq(CallRecords) /\ calls' = Append(calls, call) /\ queue' = Append(queue, n)
      /\ pending' = pending \cup {n} /\ UNCHANGED <<started, settled, failure>> /\ failure = "none"
  BY <1>1 DEF Handling, CallTypes, Admit
<1>3. /\ calls' \in Seq(CallRecords) /\ Len(calls) \in Nat /\ DOMAIN calls = 1 .. Len(calls)
      /\ DOMAIN calls' = 1 .. Len(calls) + 1 /\ calls'[Len(calls) + 1] = call
      /\ \A i \in 1 .. Len(calls) : calls'[i] = calls[i]
  BY <1>2, AppendIs
<1>4. Ids = 1 .. Len(calls) /\ Ids' = 1 .. Len(calls) + 1
  BY <1>3 DEF Ids
<1>5. /\ n \in Nat /\ n \notin Ids /\ Ids' = Ids \cup {n}
      /\ \A id \in Ids : id < n
  BY <1>3, <1>4
<1>6. /\ \A id \in Ids : calls'[id] = calls[id]
      /\ calls'[n] = call
  BY <1>3, <1>4
<1> QED BY <1>1, <1>2, <1>3, <1>5, <1>6

LEMMA AdmitHandling ==
  ASSUME Handling, NEW kind \in AllKinds \cup {"hello", "shutdown"}, NEW lease \in Nat,
         Admit(kind, lease), UNCHANGED <<writing, stdin, executed>>, stage' # "none"
  PROVE  Handling'
<1>1. PICK n : n = Len(calls) + 1
  OBVIOUS
<1>2. /\ calls' \in Seq(CallRecords) /\ n \in Nat /\ n \notin Ids /\ Ids' = Ids \cup {n}
      /\ (\A id \in Ids : calls'[id] = calls[id] /\ id < n)
      /\ pending' = pending \cup {n}
      /\ queue' = Append(queue, n) /\ UNCHANGED <<started, settled, failure>> /\ failure = "none"
  BY <1>1, AdmitIs
<1>3. /\ queue' \in Seq(Nat) /\ Len(queue) \in Nat /\ DOMAIN queue = 1 .. Len(queue)
      /\ DOMAIN queue' = 1 .. Len(queue) + 1 /\ queue'[Len(queue) + 1] = n
      /\ \A i \in 1 .. Len(queue) : queue'[i] = queue[i]
  BY <1>2, AppendIs DEF Handling, CallTypes
<1>4. CallTypes'
  BY <1>2, <1>3 DEF Handling, CallTypes
<1>5. InOrder'
  <2>1. \A i \in DOMAIN queue' : queue'[i] \in Ids' /\ \A id \in started : id < queue'[i]
    <3>1. \A id \in started : id < n
      BY <1>2 DEF Handling, CallTypes
    <3>2. \A i \in DOMAIN queue : queue[i] \in Ids /\ \A id \in started : id < queue[i]
      BY DEF Handling, InOrder
    <3>3. ASSUME NEW i \in DOMAIN queue'
          PROVE  queue'[i] = n \/ \E j \in DOMAIN queue : queue'[i] = queue[j]
      <4>1. i = Len(queue) + 1 \/ i \in 1 .. Len(queue)
        BY <1>3
      <4> QED BY <1>3, <4>1
    <3> QED BY <1>2, <3>1, <3>2, <3>3
  <2>2. Rising(queue')
    <3>1. \A i \in DOMAIN queue : queue[i] < n
      BY <1>2 DEF Handling, InOrder
    <3> QED BY <1>2, <3>1, RisingAppend DEF Handling, CallTypes, InOrder
  <2> QED BY <1>2, <2>1, <2>2 DEF Handling, InOrder, Rising
<1>6. Accounted'
  <2>0. \A i \in DOMAIN settled : settled[i].id \in Ids /\ settled[i].id \notin pending
    BY DEF Handling, Accounted
  <2>1. \A i \in DOMAIN settled : settled[i].id \in Ids' \ pending'
    BY <1>2, <2>0
  <2>2. \A id \in Ids' \ pending' : \E i \in DOMAIN settled : settled[i].id = id
    BY <1>2 DEF Handling, Accounted
  <2>3. ~(failure' # "none" \/ stage' = "none")
    BY <1>2
  <2> QED BY <1>2, <2>1, <2>2, <2>3 DEF Handling, Accounted
<1> QED BY <1>4, <1>5, <1>6 DEF Handling

(* A settled call is not open. *)
LEMMA SettledElsewhere ==
  ASSUME Handling, NEW id \in pending, NEW i \in DOMAIN settled
  PROVE  settled[i].id # id
<1>1. Accounted
  BY DEF Handling
<1>2. settled[i].id \in Ids \ pending
  BY <1>1 DEF Accounted
<1> QED BY <1>2

(* A failure settles each open call once, in some order. *)
LEMMA FailIs ==
  ASSUME Handling, NEW code, Fail(code)
  PROVE  /\ failure = "none" /\ failure' = code /\ pending' = {} /\ UNCHANGED <<calls, started>>
         /\ settled' \in Seq(Settlements) /\ Len(settled) \in Nat /\ DOMAIN settled = 1 .. Len(settled)
         /\ \E order \in Seq(Nat) :
              /\ \A id : id \in pending <=> \E i \in DOMAIN order : order[i] = id
              /\ \A i, j \in DOMAIN order : order[i] = order[j] => i = j
              /\ Len(order) \in Nat /\ DOMAIN order = 1 .. Len(order)
              /\ DOMAIN settled' = 1 .. Len(settled) + Len(order)
              /\ \A i \in 1 .. Len(settled) : settled'[i] = settled[i]
              /\ \A i \in 1 .. Len(order) :
                    settled'[Len(settled) + i] = Result(order[i], Uncertain(order[i]))
<1>1. /\ failure = "none" /\ failure' = code /\ pending' = {} /\ UNCHANGED <<calls, started>>
  BY DEF Fail, Outstanding
<1>2. PICK order \in SetToSeqs(pending) :
        settled' = settled \o [i \in DOMAIN order |-> Result(order[i], Uncertain(order[i]))]
  BY DEF Fail, Outstanding
<1>3. pending \in SUBSET (1 .. Len(calls)) /\ Len(calls) \in Nat
  BY IdsIs DEF Handling, CallTypes
<1>4. IsFiniteSet(pending) /\ Cardinality(pending) \in Nat
  BY <1>3, PositionsFinite
<1> DEFINE n == Cardinality(pending)
<1>5. order \in [1 .. n -> pending] /\ \A i, j \in 1 .. n : i # j => order[i] # order[j]
  BY <1>2 DEF SetToSeqs
<1> HIDE DEF n
<1>6. order \in Seq(Nat)
  <2>0. pending \subseteq Nat
    BY <1>3
  <2>1. order \in [1 .. n -> Nat]
    BY <1>5, <2>0
  <2> QED BY <1>4, <2>1, SeqDef DEF n
<1>7. \A id \in pending : \E i \in 1 .. n : order[i] = id
  <2>0. n \in Nat
    BY <1>4 DEF n
  <2>1. IsFiniteSet(1 .. n) /\ Cardinality(1 .. n) = n
    BY <2>0, IntervalSize
  <2>2. order \in Injection(1 .. n, pending)
    BY <1>5 DEF Injection, IsInjective
  <2>3. order \in Surjection(1 .. n, pending)
    BY <1>4, <2>1, <2>2, FS_Injection DEF n
  <2> QED BY <2>3 DEF Surjection
<1>8. DOMAIN order = 1 .. n /\ Len(order) = n /\ n \in Nat
  BY <1>4, <1>5, <1>6, LenProperties DEF n
<1> DEFINE more == [i \in DOMAIN order |-> Result(order[i], Uncertain(order[i]))]
<1>9. more \in Seq(Settlements) /\ DOMAIN more = 1 .. n /\ Len(more) = n
  <2>1. \A i \in 1 .. n : more[i] \in Settlements
    BY <1>6, <1>8, ElementOfSeq DEF Result, Uncertain, Settlements
  <2>2. more \in [1 .. n -> Settlements]
    BY <1>8, <2>1
  <2> QED BY <1>8, <2>2, SeqDef, LenProperties
<1>10. \A i \in 1 .. n : more[i] = Result(order[i], Uncertain(order[i]))
  BY <1>8
<1>11. settled' = settled \o more /\ settled \in Seq(Settlements)
  BY <1>2 DEF Handling, CallTypes
<1> HIDE DEF more
<1>12. /\ settled' \in Seq(Settlements) /\ Len(settled) \in Nat /\ DOMAIN settled = 1 .. Len(settled)
       /\ DOMAIN settled' = 1 .. Len(settled) + n
       /\ \A i \in 1 .. Len(settled) : settled'[i] = settled[i]
       /\ \A i \in 1 .. n : settled'[Len(settled) + i] = more[i]
  <2>1. Len(settled) \in Nat /\ DOMAIN settled = 1 .. Len(settled)
    BY <1>11, LenProperties
  <2>2. /\ settled' \in Seq(Settlements) /\ Len(settled') = Len(settled) + n
        /\ \A i \in 1 .. Len(settled) + n :
              settled'[i] = IF i <= Len(settled) THEN settled[i] ELSE more[i - Len(settled)]
    BY <1>9, <1>11, ConcatProperties
  <2>3. DOMAIN settled' = 1 .. Len(settled) + n
    BY <2>2, LenProperties
  <2>4. ASSUME NEW i \in 1 .. n PROVE settled'[Len(settled) + i] = more[i]
    <3>1. Len(settled) + i \in 1 .. Len(settled) + n /\ ~(Len(settled) + i <= Len(settled))
          /\ (Len(settled) + i) - Len(settled) = i
      BY <1>8, <2>1
    <3> QED BY <2>2, <3>1
  <2>5. ASSUME NEW i \in 1 .. Len(settled) PROVE settled'[i] = settled[i]
    BY <1>8, <2>1, <2>2
  <2> QED BY <2>1, <2>2, <2>3, <2>4, <2>5
<1>13. \A i \in 1 .. n : settled'[Len(settled) + i] = Result(order[i], Uncertain(order[i]))
  BY <1>10, <1>12
<1>14. \A id : id \in pending <=> \E i \in DOMAIN order : order[i] = id
  BY <1>5, <1>7, <1>8
<1>15. \A i, j \in DOMAIN order : order[i] = order[j] => i = j
  BY <1>5, <1>8
<1> QED BY <1>1, <1>6, <1>8, <1>12, <1>13, <1>14, <1>15

LEMMA FailHandling ==
  ASSUME Handling, NEW code, code # "none", Fail(code),
         UNCHANGED <<stage, queue, writing, stdin, executed>>
  PROVE  Handling'
<1>1. /\ failure = "none" /\ failure' = code /\ pending' = {} /\ UNCHANGED <<calls, started>>
      /\ settled' \in Seq(Settlements) /\ Len(settled) \in Nat /\ DOMAIN settled = 1 .. Len(settled)
  BY FailIs
<1>2. PICK order \in Seq(Nat) :
         /\ \A id : id \in pending <=> \E i \in DOMAIN order : order[i] = id
         /\ \A i, j \in DOMAIN order : order[i] = order[j] => i = j
         /\ Len(order) \in Nat /\ DOMAIN order = 1 .. Len(order)
         /\ DOMAIN settled' = 1 .. Len(settled) + Len(order)
         /\ \A i \in 1 .. Len(settled) : settled'[i] = settled[i]
         /\ \A i \in 1 .. Len(order) :
               settled'[Len(settled) + i] = Result(order[i], Uncertain(order[i]))
  BY FailIs
<1> DEFINE l == Len(settled)
           n == Len(order)
<1>3. ASSUME NEW i \in 1 .. n
      PROVE  /\ settled'[l + i].id = order[i]
             /\ settled'[l + i].outcome = "not run" => order[i] \notin started
  <2>1. settled'[l + i] = Result(order[i], Uncertain(order[i]))
    BY <1>2
  <2>2. settled'[l + i].id = order[i] /\ settled'[l + i].outcome = Uncertain(order[i])
    BY <2>1 DEF Result
  <2> QED BY <2>2 DEF Uncertain
<1>4. /\ l \in Nat /\ n \in Nat /\ DOMAIN settled = 1 .. l /\ DOMAIN settled' = 1 .. l + n
      /\ \A i \in 1 .. l : settled'[i] = settled[i]
      /\ \A id : id \in pending <=> \E i \in 1 .. n : order[i] = id
      /\ \A i, j \in 1 .. n : order[i] = order[j] => i = j
  BY <1>1, <1>2
<1> HIDE DEF l, n
<1>9. ASSUME NEW i \in 1 .. l
      PROVE  i \in DOMAIN settled' /\ settled'[i] = settled[i]
  BY <1>4
<1>5. ASSUME NEW i \in DOMAIN settled'
      PROVE  \/ i \in 1 .. l
             \/ \E k \in 1 .. n : i = l + k
  <2>1. CASE i \in 1 .. l
    BY <2>1
  <2>2. CASE i \notin 1 .. l
    <3>1. i - l \in 1 .. n /\ i = l + (i - l)
      BY <1>4, <2>2
    <3> QED BY <3>1
  <2> QED BY <2>1, <2>2
<1>6. CallTypes'
  BY <1>1 DEF Handling, CallTypes, Ids
<1>7. InOrder'
  BY <1>1 DEF Handling, InOrder, Rising, Ids
<1>8. Accounted'
  <2>1. /\ \A i, j \in 1 .. l : settled[i].id = settled[j].id => i = j
        /\ \A i \in 1 .. l : settled[i].id \in Ids \ pending
        /\ \A id \in Ids \ pending : \E i \in 1 .. l : settled[i].id = id
        /\ \A i \in 1 .. l : settled[i].outcome = "not run" => settled[i].id \notin started
    BY <1>4 DEF Handling, Accounted
  <2>2. pending \subseteq Ids /\ Ids' = Ids
    BY <1>1 DEF Handling, CallTypes, Ids
  <2>3. \A i, j \in DOMAIN settled' : settled'[i].id = settled'[j].id => i = j
    <3> SUFFICES ASSUME NEW i \in DOMAIN settled', NEW j \in DOMAIN settled', settled'[i].id = settled'[j].id
                 PROVE  i = j
      OBVIOUS
    <3>1. CASE i \in 1 .. l /\ j \in 1 .. l
      BY <1>4, <2>1, <3>1
    <3>2. CASE i \in 1 .. l /\ j \notin 1 .. l
      <4>1. PICK k \in 1 .. n : j = l + k
        BY <1>5, <3>2
      <4>2. settled'[j].id \in pending /\ settled'[i].id \notin pending
        BY <1>3, <1>4, <2>1, <3>2, <4>1
      <4> QED BY <4>2
    <3>3. CASE i \notin 1 .. l /\ j \in 1 .. l
      <4>1. PICK k \in 1 .. n : i = l + k
        BY <1>5, <3>3
      <4>2. settled'[i].id \in pending /\ settled'[j].id \notin pending
        BY <1>3, <1>4, <2>1, <3>3, <4>1
      <4> QED BY <4>2
    <3>4. CASE i \notin 1 .. l /\ j \notin 1 .. l
      <4>1. PICK k \in 1 .. n, m \in 1 .. n : i = l + k /\ j = l + m
        BY <1>5, <3>4
      <4>2. order[k] = order[m]
        BY <1>3, <4>1
      <4> QED BY <1>4, <4>1, <4>2
    <3> QED BY <3>1, <3>2, <3>3, <3>4
  <2>4. ASSUME NEW i \in DOMAIN settled'
        PROVE  /\ settled'[i].id \in Ids
               /\ settled'[i].outcome = "not run" => settled'[i].id \notin started
    <3>1. CASE i \in 1 .. l
      BY <1>4, <2>1, <3>1
    <3>2. CASE i \notin 1 .. l
      <4>1. PICK k \in 1 .. n : i = l + k
        BY <1>5, <3>2
      <4>2. order[k] \in pending
        BY <1>4
      <4> QED BY <1>3, <2>2, <4>1, <4>2
    <3> QED BY <3>1, <3>2
  <2>5. \A id \in Ids : \E i \in DOMAIN settled' : settled'[i].id = id
    <3> SUFFICES ASSUME NEW id \in Ids PROVE \E i \in DOMAIN settled' : settled'[i].id = id
      OBVIOUS
    <3>1. CASE id \in pending
      <4>1. PICK k \in 1 .. n : order[k] = id
        BY <1>4, <3>1
      <4>2. l + k \in DOMAIN settled'
        BY <1>4
      <4>3. settled'[l + k].id = id
        BY <1>3, <4>1
      <4> QED BY <4>2, <4>3
    <3>2. CASE id \notin pending
      <4>1. PICK i \in 1 .. l : settled[i].id = id
        BY <2>1, <3>2
      <4>2. i \in DOMAIN settled' /\ settled'[i] = settled[i]
        BY <1>9, <4>1
      <4> QED BY <4>1, <4>2
    <3> QED BY <3>1, <3>2
  <2>7. pending' = {} /\ started' = started
    BY <1>1
  <2> QED BY <2>2, <2>3, <2>4, <2>5, <2>7 DEF Accounted
<1> QED BY <1>6, <1>7, <1>8 DEF Handling

LEMMA TakeHandling ==
  ASSUME Handling, WriterTakes
  PROVE  Handling'
<1>1. /\ writing = 0 /\ queue # <<>> /\ Head(queue) \in pending
      /\ started' = started \cup {Head(queue)} /\ writing' = Head(queue) /\ queue' = Tail(queue)
      /\ UNCHANGED <<stage, calls, pending, settled, failure, stdin, executed>>
  BY DEF WriterTakes, serviceVars, workerVars
<1>2. PICK id : id = Head(queue)
  OBVIOUS
<1>3. queue \in Seq(Nat)
  BY DEF Handling, CallTypes
<1>4. Tail(queue) \in Seq(Nat) /\ 1 \in DOMAIN queue /\ id = queue[1]
  BY <1>1, <1>2, <1>3, TailIs
<1>5. Rising(queue') /\ \A i \in DOMAIN queue' : id < queue'[i] /\ \E j \in DOMAIN queue : queue'[i] = queue[j]
  BY <1>1, <1>2, <1>3, RisingTail DEF Handling, InOrder
<1>6. id \in Ids /\ id \in Nat /\ id \in pending /\ \A other \in started : other < id
  BY <1>1, <1>2, <1>4, IdsIs DEF Handling, InOrder, CallTypes
<1>7. CallTypes'
  BY <1>1, <1>2, <1>4, <1>6 DEF Handling, CallTypes, Ids
<1>8. InOrder'
  <2>1. \A i \in DOMAIN queue' : queue'[i] \in Ids' /\ \A other \in started' : other < queue'[i]
    <3> SUFFICES ASSUME NEW i \in DOMAIN queue' PROVE queue'[i] \in Ids /\ \A other \in started' : other < queue'[i]
      BY <1>1 DEF Ids
    <3>1. PICK j \in DOMAIN queue : queue'[i] = queue[j]
      BY <1>5
    <3> QED BY <1>1, <1>2, <1>5, <3>1 DEF Handling, InOrder
  <2>2. id \in started' /\ \A e \in executed : e < id
    BY <1>1, <1>2, <1>6 DEF Handling, CallTypes
  <2>3. \A i \in DOMAIN stdin : stdin[i] \in started /\ stdin[i] < id
    BY <1>6 DEF Handling, InOrder
  <2> QED BY <1>1, <1>2, <1>5, <2>1, <2>2, <2>3 DEF Handling, InOrder
<1>9. Accounted'
  <2>1. \A i \in DOMAIN settled : settled[i].id # id
    BY <1>6, SettledElsewhere
  <2> QED BY <1>1, <1>2, <2>1 DEF Handling, Accounted, Ids
<1> QED BY <1>7, <1>8, <1>9 DEF Handling

LEMMA WriteHandling ==
  ASSUME Handling, WriterWrites
  PROVE  Handling'
<1>1. /\ writing # 0 /\ stdin' = Append(stdin, writing) /\ writing' = 0
      /\ UNCHANGED <<stage, calls, pending, started, settled, failure, queue, executed>>
  BY DEF WriterWrites, serviceVars, callVars, workerVars
<1>2. /\ stdin \in Seq(Nat) /\ writing \in Nat /\ writing \in started
      /\ \A i \in DOMAIN stdin : stdin[i] < writing
  BY <1>1 DEF Handling, CallTypes, InOrder
<1>3. /\ stdin' \in Seq(Nat) /\ DOMAIN stdin = 1 .. Len(stdin) /\ Len(stdin) \in Nat
      /\ DOMAIN stdin' = 1 .. Len(stdin) + 1 /\ stdin'[Len(stdin) + 1] = writing
      /\ \A i \in 1 .. Len(stdin) : stdin'[i] = stdin[i]
  BY <1>1, <1>2, AppendIs
<1>4. Rising(stdin')
  BY <1>1, <1>2, RisingAppend DEF Handling, InOrder
<1>5. \A i \in DOMAIN stdin' : stdin'[i] = writing \/ \E j \in DOMAIN stdin : stdin'[i] = stdin[j]
  <2> TAKE i \in DOMAIN stdin'
  <2>1. i = Len(stdin) + 1 \/ i \in 1 .. Len(stdin)
    BY <1>3
  <2> QED BY <1>3, <2>1
<1>6. \A i \in DOMAIN stdin' : stdin'[i] \in started /\ \A id \in executed : id < stdin'[i]
  BY <1>1, <1>2, <1>5 DEF Handling, InOrder
<1>7. CallTypes'
  BY <1>1, <1>3 DEF Handling, CallTypes, Ids
<1>8. InOrder'
  BY <1>1, <1>4, <1>6 DEF Handling, InOrder, Ids, Rising
<1>9. Accounted'
  BY <1>1 DEF Handling, Accounted, Ids
<1> QED BY <1>7, <1>8, <1>9 DEF Handling

(* An answer settles the call it is to. *)
LEMMA SettleHandling ==
  ASSUME Handling, NEW id \in pending, Settle(id), failure = "none",
         UNCHANGED <<stage, queue, writing, stdin, executed>>
  PROVE  Handling'
<1>1. /\ pending' = pending \ {id} /\ UNCHANGED <<calls, started, failure>>
      /\ settled' = Append(settled, Result(id, "answered"))
  BY DEF Settle
<1>2. settled \in Seq(Settlements) /\ id \in Ids /\ id \in Nat
  BY IdsIs DEF Handling, CallTypes
<1>3. PICK r \in Settlements : r = Result(id, "answered") /\ r.id = id /\ r.outcome = "answered"
  <2> DEFINE r == Result(id, "answered")
  <2>1. r \in Settlements /\ r.id = id /\ r.outcome = "answered"
    BY <1>2 DEF Result, Settlements
  <2> QED BY <2>1
<1>4. /\ settled' \in Seq(Settlements) /\ Len(settled) \in Nat /\ DOMAIN settled = 1 .. Len(settled)
      /\ DOMAIN settled' = 1 .. Len(settled) + 1 /\ settled'[Len(settled) + 1] = r
      /\ \A i \in 1 .. Len(settled) : settled'[i] = settled[i]
  BY <1>1, <1>2, <1>3, AppendIs
<1>5. CallTypes'
  BY <1>1, <1>4 DEF Handling, CallTypes, Ids
<1>6. InOrder'
  BY <1>1 DEF Handling, InOrder, Rising, Ids
<1>7. Accounted'
  <2> DEFINE l == Len(settled)
  <2>1. /\ \A i, j \in 1 .. l : settled[i].id = settled[j].id => i = j
        /\ \A i \in 1 .. l : settled[i].id \in Ids /\ settled[i].id \notin pending
        /\ \A other \in Ids \ pending : \E i \in 1 .. l : settled[i].id = other
        /\ \A i \in 1 .. l : settled[i].outcome = "not run" => settled[i].id \notin started
    BY <1>4 DEF Handling, Accounted
  <2>2. /\ l \in Nat /\ DOMAIN settled' = 1 .. l + 1 /\ settled'[l + 1] = r
        /\ \A i \in 1 .. l : settled'[i] = settled[i]
    BY <1>4
  <2> HIDE DEF l
  <2>3. \A i \in DOMAIN settled' : i = l + 1 \/ i \in 1 .. l
    BY <2>2
  <2>4. ASSUME NEW i \in 1 .. l PROVE settled'[i].id # id
    <3>1. settled[i].id \notin pending /\ settled'[i] = settled[i]
      BY <2>1, <2>2
    <3> QED BY <3>1
  <2>5. ASSUME NEW i \in DOMAIN settled', NEW j \in DOMAIN settled', settled'[i].id = settled'[j].id
        PROVE  i = j
    <3>1. CASE i \in 1 .. l /\ j \in 1 .. l
      BY <2>1, <2>2, <2>5, <3>1
    <3>2. CASE i \in 1 .. l /\ j = l + 1
      BY <1>3, <2>2, <2>4, <2>5, <3>2
    <3>3. CASE i = l + 1 /\ j \in 1 .. l
      BY <1>3, <2>2, <2>4, <2>5, <3>3
    <3> QED BY <2>3, <3>1, <3>2, <3>3
  <2>6. \A i \in DOMAIN settled' : settled'[i].id \in Ids \ pending'
    <3> TAKE i \in DOMAIN settled'
    <3>1. CASE i \in 1 .. l
      <4>1. settled'[i].id \in Ids \ pending
        BY <2>1, <2>2, <3>1
      <4> QED BY <1>1, <4>1
    <3>2. CASE i = l + 1
      BY <1>1, <1>2, <1>3, <2>2, <3>2
    <3> QED BY <2>3, <3>1, <3>2
  <2>7. \A other \in Ids \ pending' : \E i \in DOMAIN settled' : settled'[i].id = other
    <3> SUFFICES ASSUME NEW other \in Ids \ pending' PROVE \E i \in DOMAIN settled' : settled'[i].id = other
      OBVIOUS
    <3>1. CASE other = id
      BY <1>3, <2>2, <3>1
    <3>2. CASE other # id
      <4>1. PICK i \in 1 .. l : settled[i].id = other
        BY <1>1, <2>1, <3>2
      <4> QED BY <2>2, <4>1
    <3> QED BY <3>1, <3>2
  <2>8. \A i \in DOMAIN settled' : settled'[i].outcome = "not run" => settled'[i].id \notin started
    BY <1>3, <2>1, <2>2, <2>3
  <2>9. stage = "none" => pending' = {}
    BY <1>1 DEF Handling, Accounted
  <2> QED BY <1>1, <2>5, <2>6, <2>7, <2>8, <2>9 DEF Accounted, Ids
<1> QED BY <1>5, <1>6, <1>7 DEF Handling

LEMMA ServeHandling ==
  ASSUME Handling, stdin # <<>>, stdin' = Tail(stdin), executed' = executed \cup {Head(stdin)},
         UNCHANGED <<stage, calls, pending, started, settled, failure, queue, writing>>
  PROVE  Handling' /\ Head(stdin) \in started \ executed /\ Head(stdin) \in Nat \ {0}
         /\ \A i \in DOMAIN stdin' : \E j \in DOMAIN stdin : stdin'[i] = stdin[j]
<1>1. PICK id : id = Head(stdin)
  OBVIOUS
<1>2. stdin \in Seq(Nat)
  BY DEF Handling, CallTypes
<1>3. Tail(stdin) \in Seq(Nat) /\ 1 \in DOMAIN stdin /\ id = stdin[1]
  BY <1>1, <1>2, TailIs
<1>4. Rising(stdin') /\ \A i \in DOMAIN stdin' : id < stdin'[i] /\ \E j \in DOMAIN stdin : stdin'[i] = stdin[j]
  BY <1>1, <1>2, RisingTail DEF Handling, InOrder
<1>5. id \in started /\ id \in Nat \ {0} /\ \A other \in executed : other < id
  BY <1>3, IdsIs DEF Handling, InOrder, CallTypes
<1>6. id \notin executed
  BY <1>5
<1>7. CallTypes'
  BY <1>1, <1>3, <1>5 DEF Handling, CallTypes, Ids
<1>8. InOrder'
  <2>1. \A i \in DOMAIN stdin' : stdin'[i] \in started /\ \A other \in executed' : other < stdin'[i]
    <3> SUFFICES ASSUME NEW i \in DOMAIN stdin' PROVE stdin'[i] \in started /\ \A other \in executed' : other < stdin'[i]
      OBVIOUS
    <3>1. PICK j \in DOMAIN stdin : stdin'[i] = stdin[j]
      BY <1>4
    <3> QED BY <1>1, <1>4, <3>1 DEF Handling, InOrder
  <2>2. writing # 0 => id < writing /\ \A i \in DOMAIN stdin' : stdin'[i] < writing
    BY <1>3, <1>4 DEF Handling, InOrder
  <2> QED BY <1>1, <1>4, <2>1, <2>2 DEF Handling, InOrder, Ids, Rising
<1>9. Accounted'
  BY DEF Handling, Accounted, Ids
<1> QED BY <1>1, <1>4, <1>5, <1>6, <1>7, <1>8, <1>9 DEF Handling

LEMMA SpawnIs ==
  ASSUME Spawn
  PROVE  /\ calls' \in Seq(CallRecords) /\ Ids' = {1} /\ calls'[1] = [kind |-> "hello", view |-> 0]
         /\ pending' = {1} /\ started' = {} /\ executed' = {} /\ stage' = "hello"
         /\ queue' \in Seq(Nat) /\ DOMAIN queue' = {1} /\ queue'[1] = 1
         /\ writing' = 0 /\ settled' = <<>> /\ failure' = "none" /\ stdin' = <<>>
<1> DEFINE call == [kind |-> "hello", view |-> 0]
           first == <<call>>
<1>1. FreshConnection(first) /\ stage' = "hello"
  BY DEF Spawn
<1>2. call \in CallRecords
  BY DEF CallRecords
<1> HIDE DEF call
<1>3. first \in Seq(CallRecords) /\ DOMAIN first = {1} /\ first[1] = call
  BY <1>2
<1> HIDE DEF first
<1>4. queue' = [id \in {1} |-> id] /\ pending' = {1} /\ calls' = first
  BY <1>1, <1>3 DEF FreshConnection
<1>5. queue' \in Seq(Nat)
  <2>1. queue' \in [1 .. 1 -> Nat]
    BY <1>4
  <2> QED BY <2>1, SeqDef
<1> QED BY <1>1, <1>3, <1>4, <1>5 DEF FreshConnection, Ids, call

LEMMA SpawnHandling ==
  ASSUME Spawn
  PROVE  Handling'
<1>1. CallTypes'
  BY SpawnIs, EmptySeq DEF CallTypes
<1>2. InOrder'
  <2>1. DOMAIN stdin' = {}
    BY SpawnIs
  <2> QED BY <2>1, SpawnIs DEF InOrder, Rising
<1>3. Accounted'
  <2>1. DOMAIN settled' = {}
    BY SpawnIs
  <2> QED BY <2>1, SpawnIs DEF Accounted
<1> QED BY <1>1, <1>2, <1>3 DEF Handling

(* The steps that admit a call, that end the connection, and that leave    *)
(* the calls alone.                                                        *)
Admits ==
    /\ \E kind \in AllKinds \cup {"hello", "shutdown"}, lease \in 0 .. view : Admit(kind, lease)
    /\ UNCHANGED <<connection, viewVars, deliveryVars, writing, stdin, stdout, workerVars>>
    /\ stage' # "none" /\ stage # "none"

Fails ==
    /\ \E code \in {"protocol", "disconnected", "deadline", "memory limit"} : Fail(code)
    /\ UNCHANGED <<serviceVars, threadVars, stdin, stdout, workerVars>>

Rests ==
    /\ UNCHANGED <<callVars, viewVars, deliveryVars, threadVars, stdin, stdout, machine, stream, held,
                   executed>>
    /\ stage' = stage \/ stage' # "none" \/ failure # "none"

Serving == WorkerServes \/ WorkerCloses

LEMMA NextIs ==
  ASSUME [Next]_vars, view \in Nat
  PROVE  \/ Admits \/ Fails \/ Rests \/ Spawn \/ Attach \/ Detach \/ Ack
         \/ WriterTakes \/ WriterWrites \/ ReadReply \/ ReadEvent \/ Serving
         \/ WorkerReleases \/ WorkerCaptures \/ WorkerSamples \/ GuestStops \/ WorkerErrs
<1>1. CASE UNCHANGED vars
  BY <1>1 DEF vars, Rests, callVars, viewVars, deliveryVars, threadVars, workerVars, serviceVars
<1>2. CASE Request
  <2>1. PICK kind \in Kinds, lease \in 1 .. view : Admit(kind, lease)
    BY <1>2 DEF Request
  <2>2. kind \in AllKinds \cup {"hello", "shutdown"} /\ lease \in 0 .. view
    BY <2>1
  <2>3. UNCHANGED <<connection, viewVars, deliveryVars, writing, stdin, stdout, workerVars>>
        /\ stage' # "none" /\ stage # "none"
    BY <1>2 DEF Request, serviceVars
  <2> QED BY <2>1, <2>2, <2>3 DEF Admits
<1>3. CASE BeginDrop
  <2>1. stage' # "none" /\ stage # "none"
    BY <1>3 DEF BeginDrop
  <2>2. CASE Admit("shutdown", 0)
    <3>1. 0 \in 0 .. view
      OBVIOUS
    <3> QED BY <1>3, <2>1, <2>2, <3>1 DEF BeginDrop, Admits
  <2>3. CASE UNCHANGED <<callVars, queue>>
    BY <1>3, <2>1, <2>3 DEF BeginDrop, Rests, threadVars, workerVars
  <2> QED BY <1>3, <2>2, <2>3 DEF BeginDrop
<1>4. CASE Connected \/ Dropped \/ Kill \/ WorkerExits
  BY <1>4 DEF Connected, Dropped, Kill, WorkerExits, Rests, serviceVars, workerVars
<1>5. CASE DropFails \/ WriterRejects \/ WriterBreaks \/ ReaderRejects \/ ReaderEnds \/ Watchdog
  BY <1>5 DEF DropFails, WriterRejects, WriterBreaks, ReaderRejects, ReaderEnds, Watchdog,
     WatchdogCalls, WatchdogRun, ResourcesExceeded, ThreadFails, Fails
<1> QED BY <1>1, <1>2, <1>3, <1>4, <1>5 DEF Next, Window, Lifetime, Writer, Reader, Worker, Serving

LEMMA ServingIs ==
  ASSUME Serving
  PROVE  /\ stdin # <<>> /\ stdin' = Tail(stdin) /\ executed' = executed \cup {Head(stdin)}
         /\ UNCHANGED <<stage, calls, pending, started, settled, failure, queue, writing>>
         /\ UNCHANGED viewVars /\ UNCHANGED deliveryVars
BY DEF Serving, WorkerServes, WorkerCloses, Working, callVars, serviceVars, threadVars

LEMMA ReadingIs ==
  ASSUME Reading
  PROVE  failure = "none" /\ UNCHANGED <<stage, queue, writing, stdin, executed, view, machine, stream, held>>
         /\ stdout # <<>> /\ stdout' = Tail(stdout)
BY DEF Reading, serviceVars, threadVars, workerVars

LEMMA HandlingNext ==
  ASSUME Handling, view \in Nat, [Next]_vars
  PROVE  Handling'
<1>1. CASE Admits
  <2>1. PICK kind \in AllKinds \cup {"hello", "shutdown"}, lease \in Nat : Admit(kind, lease)
    BY <1>1 DEF Admits
  <2> QED BY <1>1, <2>1, AdmitHandling DEF Admits, workerVars
<1>2. CASE Fails
  <2>1. PICK code \in {"protocol", "disconnected", "deadline", "memory limit"} : Fail(code)
    BY <1>2 DEF Fails
  <2>2. code # "none"
    OBVIOUS
  <2> QED BY <1>2, <2>1, <2>2, FailHandling DEF Fails, serviceVars, threadVars, workerVars
<1>3. CASE Rests
  BY <1>3, HandlingKept DEF Rests, HandlingFrame, callVars, threadVars
<1>4. CASE Attach \/ Detach \/ Ack \/ WorkerReleases \/ WorkerCaptures \/ WorkerSamples
           \/ GuestStops \/ WorkerErrs
  <2>1. UNCHANGED <<calls, pending, started, settled, failure, queue, writing, stdin, executed, stage>>
    BY <1>4 DEF Attach, Detach, Ack, WorkerReleases, WorkerCaptures, WorkerSamples, GuestStops,
       WorkerErrs, Working, serviceVars, callVars, threadVars, workerVars
  <2> QED BY <2>1, HandlingKept DEF HandlingFrame
<1>5. CASE ReadEvent
  <2>1. UNCHANGED <<calls, pending, started, settled, failure, queue, writing, stdin, executed, stage>>
    BY <1>5, ReadingIs DEF ReadEvent, callVars
  <2> QED BY <2>1, HandlingKept DEF HandlingFrame
<1>6. CASE ReadReply
  <2>1. PICK id \in pending : Settle(id)
    BY <1>6 DEF ReadReply
  <2> QED BY <1>6, <2>1, ReadingIs, SettleHandling DEF ReadReply
<1> QED BY <1>1, <1>2, <1>3, <1>4, <1>5, <1>6, NextIs, SpawnHandling, TakeHandling, WriteHandling,
        ServingIs, ServeHandling
-----------------------------------------------------------------------------
(* The outcomes of the calls.                                              *)

ResultsIn(log, id) == {i \in DOMAIN log : log[i].id = id}
OutcomeIn(open, log, id) ==
    CASE id \in open /\ ResultsIn(log, id) = {} -> "open"
      [] id \notin open /\ Cardinality(ResultsIn(log, id)) = 1 ->
            log[CHOOSE i \in ResultsIn(log, id) : TRUE].outcome
      [] OTHER -> "broken"

Outcomes == [id \in Ids |-> OutcomeIn(pending, settled, id)]

LEMMA OutcomesIs == Outcomes = [id \in Ids |-> Outcome(id)]
<1>1. \A id : OutcomeIn(pending, settled, id) = Outcome(id)
  BY DEF OutcomeIn, Outcome, ResultsIn, Results
<1> QED BY <1>1 DEF Outcomes

LEMMA OutcomeOpen ==
  ASSUME NEW open, NEW log, NEW id \in open, \A i \in DOMAIN log : log[i].id # id
  PROVE  OutcomeIn(open, log, id) = "open"
<1>1. ResultsIn(log, id) = {}
  BY DEF ResultsIn
<1> QED BY <1>1 DEF OutcomeIn

LEMMA OutcomeSettled ==
  ASSUME NEW open, NEW log, NEW id, id \notin open, NEW k \in DOMAIN log, log[k].id = id,
         \A i \in DOMAIN log : log[i].id = id => i = k
  PROVE  OutcomeIn(open, log, id) = log[k].outcome
<1>1. ResultsIn(log, id) = {k}
  BY DEF ResultsIn
<1>2. Cardinality({k}) = 1
  BY FS_Singleton
<1>3. (CHOOSE i \in {k} : TRUE) = k
  OBVIOUS
<1> QED BY <1>1, <1>2, <1>3 DEF OutcomeIn

(* Every call has one of four outcomes. *)
LEMMA OutcomesAre ==
  ASSUME Handling
  PROVE  /\ \A id \in pending : Outcomes[id] = "open"
         /\ \A id \in Ids \ pending : \E k \in DOMAIN settled :
               settled[k].id = id /\ Outcomes[id] = settled[k].outcome
         /\ \A k \in DOMAIN settled : settled[k].id \in Ids /\ Outcomes[settled[k].id] = settled[k].outcome
         /\ \A id \in Ids \ pending : Outcomes[id] # "open"
         /\ \A id \in started : Outcomes[id] # "not run"
         /\ DOMAIN Outcomes = Ids
<1>0. pending \subseteq Ids /\ started \subseteq Ids /\ settled \in Seq(Settlements)
  BY DEF Handling, CallTypes
<1>1. ASSUME NEW id \in pending PROVE Outcomes[id] = "open"
  <2>1. \A i \in DOMAIN settled : settled[i].id # id
    BY SettledElsewhere
  <2> QED BY <1>0, <2>1, OutcomeOpen DEF Outcomes
<1>2. ASSUME NEW k \in DOMAIN settled
      PROVE  settled[k].id \in Ids /\ Outcomes[settled[k].id] = settled[k].outcome
  <2>1. settled[k].id \in Ids /\ settled[k].id \notin pending
        /\ \A i \in DOMAIN settled : settled[i].id = settled[k].id => i = k
    BY DEF Handling, Accounted
  <2> QED BY <2>1, OutcomeSettled DEF Outcomes
<1>3. ASSUME NEW id \in Ids \ pending
      PROVE  \E k \in DOMAIN settled : settled[k].id = id /\ Outcomes[id] = settled[k].outcome
  <2>1. PICK k \in DOMAIN settled : settled[k].id = id
    BY DEF Handling, Accounted
  <2> QED BY <1>2, <2>1
<1>4. \A k \in DOMAIN settled : settled[k] \in Settlements
  BY <1>0, LenProperties, ElementOfSeq
<1>5. \A k \in DOMAIN settled : settled[k].outcome # "open"
  BY <1>4 DEF Settlements
<1>6. ASSUME NEW id \in Ids \ pending PROVE Outcomes[id] # "open"
  BY <1>3, <1>5
<1>7. ASSUME NEW id \in started PROVE Outcomes[id] # "not run"
  <2>1. CASE id \in pending
    BY <1>1, <2>1
  <2>2. CASE id \notin pending
    <3>1. PICK k \in DOMAIN settled : settled[k].id = id /\ Outcomes[id] = settled[k].outcome
      BY <1>0, <1>3, <2>2
    <3>2. settled[k].outcome # "not run"
      BY <3>1 DEF Handling, Accounted
    <3> QED BY <3>1, <3>2
  <2> QED BY <2>1, <2>2
<1>8. DOMAIN Outcomes = Ids
  BY DEF Outcomes
<1> QED BY <1>1, <1>2, <1>3, <1>6, <1>7, <1>8

(* The same, of the next state. *)
LEMMA OutcomesThen ==
  ASSUME Handling'
  PROVE  /\ \A id \in pending' : Outcomes'[id] = "open"
         /\ \A k \in DOMAIN settled' :
               settled'[k].id \in Ids' /\ Outcomes'[settled'[k].id] = settled'[k].outcome
         /\ DOMAIN Outcomes' = Ids'
<1>0. pending' \subseteq Ids'
  BY DEF Handling, CallTypes
<1>1. ASSUME NEW id \in pending' PROVE Outcomes'[id] = "open"
  <2>1. \A i \in DOMAIN settled' : settled'[i].id # id
    <3> SUFFICES ASSUME NEW i \in DOMAIN settled' PROVE settled'[i].id \in Ids' \ pending'
      OBVIOUS
    <3>1. Accounted'
      BY DEF Handling
    <3> QED BY <3>1 DEF Accounted
  <2> QED BY <1>0, <2>1, OutcomeOpen DEF Outcomes
<1>2. ASSUME NEW k \in DOMAIN settled'
      PROVE  settled'[k].id \in Ids' /\ Outcomes'[settled'[k].id] = settled'[k].outcome
  <2>1. settled'[k].id \in Ids' /\ settled'[k].id \notin pending'
        /\ \A i \in DOMAIN settled' : settled'[i].id = settled'[k].id => i = k
    BY DEF Handling, Accounted
  <2> QED BY <2>1, OutcomeSettled DEF Outcomes
<1> QED BY <1>1, <1>2 DEF Outcomes

LEMMA OutcomesAbstracted == Outcomes' = [id \in Ids |-> Outcome(id)]'
<1>1. \A id : OutcomeIn(pending', settled', id) = Outcome(id)'
  BY DEF OutcomeIn, Outcome, ResultsIn, Results
<1> QED BY <1>1 DEF Outcomes

LEMMA OutcomesKept ==
  ASSUME UNCHANGED <<calls, pending, settled>>
  PROVE  Outcomes' = Outcomes
BY DEF Outcomes, Ids

LEMMA AdmitOutcomes ==
  ASSUME Handling, Handling', NEW kind \in AllKinds \cup {"hello", "shutdown"}, NEW lease \in Nat,
         Admit(kind, lease)
  PROVE  Outcomes' = Append(Outcomes, "open")
<1>1. PICK n : n = Len(calls) + 1
  OBVIOUS
<1>2. /\ n \in Nat /\ n \notin Ids /\ Ids' = Ids \cup {n} /\ pending' = pending \cup {n}
      /\ settled' = settled /\ \A id \in Ids : id < n
  BY <1>1, AdmitIs
<1>3. Len(calls) \in Nat /\ Ids = 1 .. Len(calls)
  BY IdsIs DEF Handling, CallTypes
<1> DEFINE words == {Outcomes[id] : id \in Ids} \cup {"open"}
           l == Len(calls)
<1>4. Outcomes \in Seq(words) /\ Len(Outcomes) = l
  <2>1. DOMAIN Outcomes = 1 .. l
    BY <1>3 DEF Outcomes
  <2>2. Outcomes \in [1 .. l -> words]
    BY <1>3, <2>1 DEF Outcomes
  <2> QED BY <1>3, <2>1, <2>2, SeqDef, LenProperties
<1> HIDE DEF words, l
<1>5. "open" \in words
  BY DEF words
<1>6. /\ Append(Outcomes, "open") \in Seq(words) /\ DOMAIN Append(Outcomes, "open") = 1 .. l + 1
      /\ Append(Outcomes, "open")[l + 1] = "open"
      /\ \A i \in 1 .. l : Append(Outcomes, "open")[i] = Outcomes[i]
  BY <1>4, <1>5, AppendIs
<1>7. l \in Nat /\ n = l + 1 /\ Ids = 1 .. l /\ Ids' = 1 .. l + 1
  BY <1>1, <1>2, <1>3 DEF l
<1>8. Outcomes'[l + 1] = "open"
  BY <1>2, <1>7, OutcomesThen
<1>9. ASSUME NEW i \in 1 .. l PROVE Outcomes'[i] = Outcomes[i]
  <2>1. i \in Ids /\ i \in Ids' /\ i # n
    BY <1>7
  <2>2. ResultsIn(settled', i) = ResultsIn(settled, i) /\ (i \in pending' <=> i \in pending)
    BY <1>2, <2>1 DEF ResultsIn
  <2> QED BY <1>2, <2>1, <2>2 DEF Outcomes, OutcomeIn
<1>10. Outcomes' = [i \in 1 .. l + 1 |-> Outcomes'[i]]
  BY <1>7 DEF Outcomes
<1>11. Append(Outcomes, "open") = [i \in 1 .. l + 1 |-> Append(Outcomes, "open")[i]]
  <2>1. Len(Append(Outcomes, "open")) = l + 1
    BY <1>4, <1>5, AppendIs
  <2> QED BY <1>6, <2>1, SeqDef, LenProperties
<1>12. \A i \in 1 .. l + 1 : Outcomes'[i] = Append(Outcomes, "open")[i]
  <2> SUFFICES ASSUME NEW i \in 1 .. l + 1 PROVE Outcomes'[i] = Append(Outcomes, "open")[i]
    OBVIOUS
  <2>1. CASE i = l + 1
    BY <1>6, <1>8, <2>1
  <2>2. CASE i # l + 1
    <3>1. i \in 1 .. l
      BY <1>7, <2>2
    <3> QED BY <1>6, <1>9, <3>1
  <2> QED BY <2>1, <2>2
<1> QED BY <1>10, <1>11, <1>12

LEMMA FailOutcomes ==
  ASSUME Handling, Handling', NEW code, Fail(code), UNCHANGED executed
  PROVE  /\ DOMAIN Outcomes' = DOMAIN Outcomes
         /\ \A id \in DOMAIN Outcomes :
              IF Outcomes[id] # "open" THEN Outcomes'[id] = Outcomes[id]
              ELSE Outcomes'[id] = "unknown" \/ (Outcomes'[id] = "not run" /\ id \notin executed)
<1>1. UNCHANGED <<calls, started>> /\ pending' = {} /\ Len(settled) \in Nat
      /\ DOMAIN settled = 1 .. Len(settled)
  BY FailIs
<1>2. PICK order \in Seq(Nat) :
         /\ \A id : id \in pending <=> \E i \in DOMAIN order : order[i] = id
         /\ Len(order) \in Nat /\ DOMAIN order = 1 .. Len(order)
         /\ DOMAIN settled' = 1 .. Len(settled) + Len(order)
         /\ \A i \in 1 .. Len(settled) : settled'[i] = settled[i]
         /\ \A i \in 1 .. Len(order) :
               settled'[Len(settled) + i] = Result(order[i], Uncertain(order[i]))
  BY FailIs
<1>3. Ids' = Ids /\ DOMAIN Outcomes' = Ids /\ DOMAIN Outcomes = Ids
  BY <1>1 DEF Ids, Outcomes
<1>4. ASSUME NEW id \in Ids, Outcomes[id] # "open"
      PROVE  Outcomes'[id] = Outcomes[id]
  <2>1. id \notin pending
    BY <1>4, OutcomesAre
  <2>2. PICK k \in DOMAIN settled : settled[k].id = id /\ Outcomes[id] = settled[k].outcome
    BY <2>1, OutcomesAre
  <2>3. k \in DOMAIN settled' /\ settled'[k] = settled[k]
    BY <1>1, <1>2
  <2> QED BY <2>2, <2>3, OutcomesThen
<1>5. ASSUME NEW id \in Ids, Outcomes[id] = "open"
      PROVE  Outcomes'[id] = "unknown" \/ (Outcomes'[id] = "not run" /\ id \notin executed)
  <2>1. id \in pending
    BY <1>5, OutcomesAre
  <2>2. PICK i \in 1 .. Len(order) : order[i] = id
    BY <1>2, <2>1
  <2>3. PICK k : k = Len(settled) + i
    OBVIOUS
  <2>4. k \in DOMAIN settled'
    <3>1. Len(settled) \in Nat /\ Len(order) \in Nat
          /\ DOMAIN settled' = 1 .. Len(settled) + Len(order)
      BY <1>1, <1>2
    <3> QED BY <2>3, <3>1
  <2>5. settled'[k] = Result(id, Uncertain(id))
    BY <1>2, <2>2, <2>3
  <2>6. settled'[k].id = id /\ settled'[k].outcome = Uncertain(id)
    BY <2>5 DEF Result
  <2>7. Outcomes'[id] = Uncertain(id)
    BY <2>4, <2>6, OutcomesThen
  <2>8. id \notin started => id \notin executed
    BY DEF Handling, CallTypes
  <2> QED BY <2>7, <2>8 DEF Uncertain
<1> QED BY <1>3, <1>4, <1>5

LEMMA SettleOutcomes ==
  ASSUME Handling, Handling', NEW id \in pending, Settle(id)
  PROVE  id \in DOMAIN Outcomes /\ Outcomes[id] = "open"
         /\ Outcomes' = [Outcomes EXCEPT ![id] = "answered"]
<1>1. /\ pending' = pending \ {id} /\ UNCHANGED calls
      /\ settled' = Append(settled, Result(id, "answered"))
  BY DEF Settle
<1>2. settled \in Seq(Settlements) /\ id \in Ids /\ id \in Nat
  BY IdsIs DEF Handling, CallTypes
<1>3. Result(id, "answered") \in Settlements /\ Result(id, "answered").id = id
      /\ Result(id, "answered").outcome = "answered"
  BY <1>2 DEF Result, Settlements
<1>4. /\ Len(settled) + 1 \in DOMAIN settled' /\ settled'[Len(settled) + 1] = Result(id, "answered")
      /\ \A i \in DOMAIN settled : i \in DOMAIN settled' /\ settled'[i] = settled[i]
  BY <1>1, <1>2, <1>3, AppendIs
<1>5. Ids' = Ids /\ DOMAIN Outcomes' = Ids /\ DOMAIN Outcomes = Ids
  BY <1>1 DEF Ids, Outcomes
<1>6. Outcomes'[id] = "answered"
  <2>1. PICK k \in DOMAIN settled' : settled'[k] = Result(id, "answered")
    BY <1>4
  <2>2. settled'[k].id = id /\ settled'[k].outcome = "answered"
    BY <1>3, <2>1
  <2> QED BY <2>2, OutcomesThen
<1>7. ASSUME NEW other \in Ids, other # id PROVE Outcomes'[other] = Outcomes[other]
  <2>1. CASE other \in pending
    <3>1. other \in pending'
      BY <1>1, <1>7, <2>1
    <3> QED BY <2>1, <3>1, OutcomesAre, OutcomesThen
  <2>2. CASE other \notin pending
    <3>1. PICK k \in DOMAIN settled : settled[k].id = other /\ Outcomes[other] = settled[k].outcome
      BY <2>2, OutcomesAre
    <3> QED BY <1>4, <3>1, OutcomesThen
  <2> QED BY <2>1, <2>2
<1>8. Outcomes' = [other \in Ids |-> Outcomes'[other]]
  BY <1>5 DEF Outcomes
<1>9. [Outcomes EXCEPT ![id] = "answered"] = [other \in Ids |-> IF other = id THEN "answered" ELSE Outcomes[other]]
  BY <1>5
<1>10. Outcomes' = [Outcomes EXCEPT ![id] = "answered"]
  BY <1>6, <1>7, <1>8, <1>9
<1> QED BY <1>2, <1>5, <1>10, OutcomesAre

LEMMA SpawnOutcomes ==
  ASSUME Handling, Handling', Spawn
  PROVE  Outcomes' = <<"open">> /\ executed' = {} /\ \A id \in DOMAIN Outcomes : Outcomes[id] # "open"
<1>1. Ids' = {1} /\ pending' = {1} /\ executed' = {}
  BY SpawnIs
<1>2. Outcomes'[1] = "open" /\ DOMAIN Outcomes' = {1}
  BY <1>1, OutcomesThen
<1>3. Outcomes' = [id \in {1} |-> "open"]
  BY <1>1, <1>2 DEF Outcomes
<1>4. pending = {}
  BY DEF Handling, Accounted, Spawn
<1>5. [id \in {1} |-> "open"] = <<"open">>
  OBVIOUS
<1>6. \A id \in DOMAIN Outcomes : id \in Ids \ pending
  BY <1>4, OutcomesAre
<1>7. \A id \in DOMAIN Outcomes : Outcomes[id] # "open"
  BY <1>6, OutcomesAre
<1> QED BY <1>1, <1>3, <1>5, <1>7

(* Each step of the supervisor is a step of Calls, or no step. *)
LEMMA CallsStep ==
  ASSUME Handling, Handling', view \in Nat, [Next]_vars
  PROVE  \/ Outcomes' = Append(Outcomes, "open") /\ UNCHANGED executed
         \/ /\ DOMAIN Outcomes' = DOMAIN Outcomes
            /\ \A id \in DOMAIN Outcomes :
                 IF Outcomes[id] # "open" THEN Outcomes'[id] = Outcomes[id]
                 ELSE Outcomes'[id] = "unknown" \/ (Outcomes'[id] = "not run" /\ id \notin executed)
            /\ UNCHANGED executed
         \/ /\ \A id \in DOMAIN Outcomes : Outcomes[id] # "open"
            /\ Outcomes' = <<"open">> /\ executed' = {}
         \/ \E id \in DOMAIN Outcomes :
              /\ Outcomes[id] # "not run" /\ id \notin executed /\ executed' = executed \cup {id}
              /\ UNCHANGED Outcomes
         \/ \E id \in DOMAIN Outcomes :
              /\ Outcomes[id] = "open" /\ Outcomes' = [Outcomes EXCEPT ![id] = "answered"]
              /\ UNCHANGED executed
         \/ UNCHANGED <<Outcomes, executed>>
<1>1. CASE Admits
  <2>1. PICK kind \in AllKinds \cup {"hello", "shutdown"}, lease \in Nat : Admit(kind, lease)
    BY <1>1 DEF Admits
  <2>2. UNCHANGED executed
    BY <1>1 DEF Admits, workerVars
  <2> QED BY <2>1, <2>2, AdmitOutcomes
<1>2. CASE Fails
  <2>1. PICK code : Fail(code)
    BY <1>2 DEF Fails
  <2>2. UNCHANGED executed
    BY <1>2 DEF Fails, workerVars
  <2> QED BY <2>1, <2>2, FailOutcomes
<1>3. CASE Rests
  BY <1>3, OutcomesKept DEF Rests, callVars
<1>4. CASE Attach \/ Detach \/ Ack \/ WriterTakes \/ WriterWrites \/ WorkerReleases
           \/ WorkerCaptures \/ WorkerSamples \/ GuestStops \/ WorkerErrs
  <2>1. UNCHANGED <<calls, pending, settled, executed>>
    BY <1>4 DEF Attach, Detach, Ack, WriterTakes, WriterWrites, WorkerReleases, WorkerCaptures,
       WorkerSamples, GuestStops, WorkerErrs, Working, callVars, workerVars
  <2> QED BY <2>1, OutcomesKept
<1>5. CASE ReadEvent
  <2>1. UNCHANGED <<calls, pending, settled, executed>>
    BY <1>5, ReadingIs DEF ReadEvent, callVars
  <2> QED BY <2>1, OutcomesKept
<1>6. CASE ReadReply
  <2>1. PICK id \in pending : Settle(id)
    BY <1>6 DEF ReadReply
  <2>2. UNCHANGED executed
    BY <1>6, ReadingIs DEF ReadReply
  <2> QED BY <2>1, <2>2, SettleOutcomes
<1>7. CASE Serving
  <2>1. PICK id : id = Head(stdin)
    OBVIOUS
  <2>2. id \in started /\ id \notin executed
    BY <1>7, <2>1, ServingIs, ServeHandling
  <2>3. Outcomes' = Outcomes /\ executed' = executed \cup {id}
    BY <1>7, <2>1, ServingIs, OutcomesKept
  <2>4. id \in DOMAIN Outcomes /\ Outcomes[id] # "not run"
    BY <2>2, OutcomesAre DEF Handling, CallTypes
  <2> QED BY <2>2, <2>3, <2>4
<1> QED BY <1>1, <1>2, <1>3, <1>4, <1>5, <1>6, <1>7, NextIs, SpawnOutcomes

LEMMA CallsImplemented ==
  ASSUME Handling, Handling', view \in Nat, [Next]_vars
  PROVE  [Promise!CallsNext]_(Promise!callsVars)
<1> DEFINE o == [id \in Ids |-> Outcome(id)]
<1>1. o = Outcomes /\ o' = Outcomes'
  BY OutcomesIs, OutcomesAbstracted
<1>2. /\ Promise!Admission <=> o' = Append(o, "open") /\ UNCHANGED executed
      /\ Promise!Failing <=>
           /\ DOMAIN o' = DOMAIN o
           /\ \A id \in DOMAIN o :
                 IF o[id] # "open" THEN o'[id] = o[id]
                 ELSE o'[id] = "unknown" \/ (o'[id] = "not run" /\ id \notin executed)
           /\ UNCHANGED executed
      /\ Promise!Reconnection <=>
           (\A id \in DOMAIN o : o[id] # "open") /\ o' = <<"open">> /\ executed' = {}
      /\ \A id : Promise!Execution(id) <=>
              o[id] # "not run" /\ id \notin executed /\ executed' = executed \cup {id} /\ UNCHANGED o
      /\ \A id : Promise!Answering(id) <=>
              o[id] = "open" /\ o' = [o EXCEPT ![id] = "answered"] /\ UNCHANGED executed
      /\ UNCHANGED Promise!callsVars <=> UNCHANGED <<o, executed>>
      /\ Promise!CallsNext <=>
           \/ Promise!Admission \/ Promise!Failing \/ Promise!Reconnection
           \/ \E id \in DOMAIN o : Promise!Execution(id) \/ Promise!Answering(id)
  BY DEF Promise!Admission, Promise!Failing, Promise!Reconnection, Promise!Execution,
     Promise!Answering, Promise!callsVars, Promise!CallsNext
<1> HIDE DEF o
<1> QED BY <1>1, <1>2, CallsStep
-----------------------------------------------------------------------------
(* What the worker says, by the step it takes.                             *)

LEMMA BasedIs ==
  ASSUME NEW o \in Outputs, NEW base \in Nat
  PROVE  LET r == [o EXCEPT !.base = base] IN
         /\ r \in Outputs /\ r.type = o.type /\ r.id = o.id /\ r.kind = o.kind /\ r.guest = o.guest
         /\ r.base = base
<1>1. PICK r : r = [o EXCEPT !.base = base]
  OBVIOUS
<1>2. /\ r \in Outputs /\ r.type = o.type /\ r.id = o.id /\ r.kind = o.kind /\ r.guest = o.guest
      /\ r.base = base
  BY <1>1, SMT DEF Outputs
<1> QED BY <1>1, <1>2

LEMMA DeltaIs ==
  ASSUME NEW o \in Outputs, NEW base \in Nat
  PROVE  LET r == [o EXCEPT !.kind = "delta", !.base = base] IN
         /\ r \in Outputs /\ r.type = o.type /\ r.id = o.id /\ r.kind = "delta" /\ r.guest = o.guest
         /\ r.base = base
<1>0. "delta" \in OutputKinds
  BY DEF OutputKinds
<1>1. PICK n : n = [o EXCEPT !.kind = "delta"]
  OBVIOUS
<1>2. n \in Outputs /\ n.type = o.type /\ n.id = o.id /\ n.kind = "delta" /\ n.guest = o.guest
  BY <1>0, <1>1, SMT DEF Outputs
<1>3. PICK r : r = [n EXCEPT !.base = base]
  OBVIOUS
<1>4. /\ r \in Outputs /\ r.type = n.type /\ r.id = n.id /\ r.kind = n.kind /\ r.guest = n.guest
      /\ r.base = base
  BY <1>2, <1>3, BasedIs
<1>5. [o EXCEPT !.kind = "delta", !.base = base] = r
  BY <1>1, <1>3
<1> QED BY <1>2, <1>4, <1>5

(* A reply that tells nothing of the guest. *)
Plain(id, kind) ==
    /\ kind \in {"hello", "assemble", "error", "closed"}
    /\ \E o \in Outputs :
        /\ o.type = "reply" /\ o.id = id /\ o.kind = kind /\ o.guest = NoGuest
        /\ stdout' = Append(stdout, o)
    /\ UNCHANGED <<machine, stream, held>>

(* A reply that shows the guest, at once or in bulk, and may move it. *)
Shows(id) ==
    \E o \in Outputs :
        /\ o.type = "reply" /\ o.id = id /\ o.kind = "observed" /\ o.guest = machine'
        /\ \/ stdout' = Append(stdout, o) /\ UNCHANGED held
           \/ held = NoEvent /\ held' = o /\ UNCHANGED stdout /\ SameKey(machine', machine)
        /\ machine' \in Guests
        /\ \/ /\ machine'.session = machine.session /\ machine.session # 0
              /\ machine'.sequence = machine.sequence + 1
              /\ machine'.generation \in {machine.generation, machine.generation + 1}
           \/ machine'.session = id /\ machine'.generation = 0 /\ machine'.sequence = 1
        /\ stream' = IF SameKey(machine', machine) THEN stream ELSE NotObserved

Ends(id) ==
    /\ machine.session # 0
    /\ \E o \in Outputs :
        /\ o.type = "reply" /\ o.id = id /\ o.kind = "session closed" /\ o.guest = machine
        /\ stdout' = Append(stdout, o)
    /\ machine' = NoGuest /\ stream' = NotObserved /\ UNCHANGED held

Observing(id) ==
    /\ machine.session # 0 /\ machine' = Observed(machine)
    /\ stream' \in Streams /\ stream'.id = id /\ stream'.base = stream.base
    /\ stream'.latest.type = "event" /\ stream'.latest.id = id /\ stream'.latest.kind = "full"
    /\ stream'.latest.guest = machine'

Streaming(id) ==
    /\ Observing(id)
    /\ \E o \in Outputs :
        /\ o.type = "reply" /\ o.id = id /\ o.kind = "subscribed" /\ o.guest = NoGuest
        /\ stdout' = Append(stdout, o)
    /\ UNCHANGED held

Silences(id) ==
    /\ stream.id # 0 /\ stream' = NotObserved
    /\ \E o \in Outputs :
        /\ o.type = "reply" /\ o.id = id /\ o.kind = "unsubscribed" /\ o.guest = NoGuest
        /\ o.base = stream.id
        /\ stdout' = Append(stdout, o)
    /\ UNCHANGED <<machine, held>>

LEMMA RepliesIs ==
  ASSUME NEW id \in Nat, NEW kind \in OutputKinds, NEW g \in Guests, Replies(id, kind, g)
  PROVE  \E o \in Outputs :
           /\ o.type = "reply" /\ o.id = id /\ o.kind = kind /\ o.guest = g
           /\ stdout' = Append(stdout, o)
<1>1. "reply" \in Types
  BY DEF Types
<1> QED BY <1>1, MadeIs DEF Replies, Says

LEMMA ControlsIs ==
  ASSUME NEW id \in Nat, NEW m \in Guests, Controls(id, m), machine \in Guests,
         \/ /\ m.session = machine.session /\ machine.session # 0
            /\ m.sequence = machine.sequence + 1
            /\ m.generation \in {machine.generation, machine.generation + 1}
         \/ m.session = id /\ m.generation = 0 /\ m.sequence = 1
  PROVE  Shows(id)
<1>1. "observed" \in OutputKinds
  BY DEF OutputKinds, Replying
<1>2. PICK o \in Outputs : /\ o.type = "reply" /\ o.id = id /\ o.kind = "observed" /\ o.guest = m
                           /\ stdout' = Append(stdout, o)
  BY <1>1, RepliesIs DEF Controls
<1> QED BY <1>2 DEF Controls, Shows

LEMMA ServesIs ==
  ASSUME NEW id \in Nat \ {0}, NEW kind, Serves(id, kind), machine \in Guests, stream \in Streams
  PROVE  \/ \E word : Plain(id, word)
         \/ Shows(id) \/ Ends(id) \/ Silences(id)
         \/ kind = "subscribe" /\ Streaming(id)
<1>0. NoGuest \in Guests /\ Replying \subseteq OutputKinds
  BY Empty0 DEF OutputKinds
<1>1. CASE kind \in {"hello", "assemble"} /\ Replies(id, kind, NoGuest)
           /\ UNCHANGED <<machine, stream, held>>
  <2>1. kind \in OutputKinds
    BY <1>0, <1>1 DEF Replying
  <2>2. Plain(id, kind)
    BY <1>0, <1>1, <2>1, RepliesIs DEF Plain
  <2> QED BY <2>2
<1>2. CASE kind = "load" /\ machine.status # "running"
       /\ Controls(id, [session |-> id, generation |-> 0, sequence |-> 1, status |-> "ready"])
  <2>1. PICK m : m = [session |-> id, generation |-> 0, sequence |-> 1, status |-> "ready"]
    OBVIOUS
  <2>2. m \in Guests /\ m.session = id /\ m.generation = 0 /\ m.sequence = 1
    BY <2>1, SMT DEF Guests
  <2> QED BY <1>2, <2>1, <2>2, ControlsIs
<1>3. CASE Loaded /\ Controls(id, [Observed(machine) EXCEPT !.status = "running"])
  <2>1. PICK n \in Guests : n = Observed(machine) /\ n.session = machine.session
                            /\ n.generation = machine.generation /\ n.sequence = machine.sequence + 1
    BY ObservedIs
  <2>2. PICK m \in Guests : m = [n EXCEPT !.status = "running"] /\ m.session = n.session
                            /\ m.generation = n.generation /\ m.sequence = n.sequence
    BY StatusIs
  <2> QED BY <1>3, <2>1, <2>2, ControlsIs DEF Loaded
<1>4. CASE Loaded /\ Controls(id, [Observed(machine) EXCEPT !.status = "ready", !.generation = @ + 1])
  <2>1. PICK n \in Guests : n = Observed(machine) /\ n.session = machine.session
                            /\ n.generation = machine.generation /\ n.sequence = machine.sequence + 1
    BY ObservedIs
  <2>2. PICK m \in Guests : m = [n EXCEPT !.status = "ready", !.generation = @ + 1]
                            /\ m.session = n.session /\ m.generation = n.generation + 1
                            /\ m.sequence = n.sequence
    BY ResetIs
  <2> QED BY <1>4, <2>1, <2>2, ControlsIs DEF Loaded
<1>5. CASE Observes(id)
  <2>1. PICK n \in Guests : n = Observed(machine) /\ n.session = machine.session /\ SameKey(n, machine)
                            /\ n.generation = machine.generation /\ n.sequence = machine.sequence + 1
    BY ObservedIs
  <2>2. machine' = n /\ machine.session # 0 /\ stream' = stream
    BY <1>5, <2>1 DEF Observes, Loaded
  <2>3. "observed" \in OutputKinds /\ "reply" \in Types
    BY DEF OutputKinds, Replying, Types
  <2>4. CASE Replies(id, "observed", machine') /\ UNCHANGED held
    <3>1. PICK o \in Outputs : /\ o.type = "reply" /\ o.id = id /\ o.kind = "observed" /\ o.guest = n
                               /\ stdout' = Append(stdout, o)
      BY <2>2, <2>3, <2>4, RepliesIs
    <3> QED BY <2>1, <2>2, <2>4, <3>1 DEF Shows
  <2>5. CASE held = NoEvent /\ held' = Output("reply", id, "observed", machine') /\ UNCHANGED stdout
    <3>1. PICK o \in Outputs : /\ o.type = "reply" /\ o.id = id /\ o.kind = "observed" /\ o.guest = n
                               /\ held' = o
      BY <2>2, <2>3, <2>5, MadeIs
    <3> QED BY <2>1, <2>2, <2>5, <3>1 DEF Shows
  <2> QED BY <1>5, <2>4, <2>5 DEF Observes
<1>6. CASE Closes(id)
  <2>1. "session closed" \in OutputKinds
    BY <1>0 DEF Replying
  <2>2. PICK m \in Guests, word \in OutputKinds : m = machine /\ word = "session closed"
    BY <2>1
  <2>3. Replies(id, word, m)
    BY <1>6, <2>2 DEF Closes
  <2>4. PICK o \in Outputs : /\ o.type = "reply" /\ o.id = id /\ o.kind = word
                             /\ o.guest = m /\ stdout' = Append(stdout, o)
    BY <2>3, RepliesIs
  <2> QED BY <1>6, <2>2, <2>4 DEF Closes, Ends
<1>7. CASE kind = "subscribe" /\ Subscribes(id)
  <2>1. "subscribed" \in OutputKinds /\ "full" \in OutputKinds /\ "event" \in Types
    BY <1>0 DEF Replying, OutputKinds, Types
  <2>2. machine' \in Guests /\ machine' = Observed(machine) /\ machine.session # 0
    BY <1>7, ObservedIs DEF Subscribes, Loaded
  <2>3. PICK e \in Outputs : /\ e = Output("event", id, "full", machine')
                             /\ e.type = "event" /\ e.id = id /\ e.kind = "full" /\ e.guest = machine'
    BY <2>1, <2>2, MadeIs
  <2>4. PICK s : s = [stream EXCEPT !.id = id]
    OBVIOUS
  <2>5. s \in Streams /\ s.id = id /\ s.base = stream.base
    BY <2>4, StreamId
  <2>6. PICK t : t = [s EXCEPT !.latest = e]
    OBVIOUS
  <2>7. t \in Streams /\ t.id = id /\ t.base = stream.base /\ t.latest = e
    BY <2>5, <2>6, StreamSet
  <2>8. stream' = t
    BY <1>7, <2>3, <2>4, <2>6 DEF Subscribes
  <2>9. Observing(id)
    BY <2>2, <2>3, <2>7, <2>8 DEF Observing
  <2> QED BY <1>0, <1>7, <2>1, <2>9, RepliesIs DEF Subscribes, Streaming
<1>8. CASE Unsubscribes(id)
  <2>1. "unsubscribed" \in OutputKinds /\ "reply" \in Types
    BY <1>0 DEF Replying, Types
  <2>2. PICK o \in Outputs : /\ o = Output("reply", id, "unsubscribed", NoGuest)
                             /\ o.type = "reply" /\ o.id = id /\ o.kind = "unsubscribed" /\ o.guest = NoGuest
    BY <1>0, <2>1, MadeIs
  <2>3. PICK r \in Outputs : /\ r = [o EXCEPT !.base = stream.id] /\ r.type = o.type /\ r.id = o.id
                             /\ r.kind = o.kind /\ r.guest = o.guest /\ r.base = stream.id
    <3>1. PICK base \in Nat : base = stream.id
      BY StreamIs
    <3>2. PICK r : r = [o EXCEPT !.base = base]
      OBVIOUS
    <3>3. /\ r \in Outputs /\ r.type = o.type /\ r.id = o.id /\ r.kind = o.kind /\ r.guest = o.guest
          /\ r.base = base
      BY <3>2, BasedIs
    <3> QED BY <3>1, <3>2, <3>3
  <2>4. stdout' = Append(stdout, r)
    BY <1>8, <2>2, <2>3 DEF Unsubscribes, Says
  <2> QED BY <1>8, <2>2, <2>3, <2>4 DEF Unsubscribes, Silences
<1>9. CASE Refuses(id)
  <2>1. "error" \in OutputKinds
    BY <1>0 DEF Replying
  <2>2. Plain(id, "error")
    BY <1>0, <1>9, <2>1, RepliesIs DEF Plain, Refuses
  <2> QED BY <2>2
<1> QED BY <1>1, <1>2, <1>3, <1>4, <1>5, <1>6, <1>7, <1>8, <1>9 DEF Serves

(* The next reading of the guest is sampled, or the sampling fails. *)
Loses ==
    /\ UNCHANGED machine
    /\ stream' \in Streams /\ stream'.id = 0 /\ stream'.base = stream.base
    /\ stream'.latest.type = "event" /\ stream'.latest.id = stream.id
    /\ stream'.latest.kind = "ended" /\ stream'.latest.guest = NoGuest

LEMMA CapturesIs ==
  ASSUME WorkerCaptures, machine \in Guests, stream \in Streams
  PROVE  /\ stream.id # 0 /\ UNCHANGED <<stdin, stdout, held, executed>>
         /\ Observing(stream.id) \/ Loses
<1>0. stream.id # 0 /\ UNCHANGED <<stdin, stdout, held, executed>>
  BY DEF WorkerCaptures
<1>1. PICK id \in Nat : id = stream.id
  BY StreamIs
<1>2. "event" \in Types /\ "full" \in OutputKinds /\ "ended" \in OutputKinds /\ NoGuest \in Guests
  BY Empty0 DEF Types, OutputKinds
<1>3. CASE Loaded /\ machine' = Observed(machine)
           /\ stream' = [stream EXCEPT !.latest = Output("event", stream.id, "full", machine')]
  <2>1. PICK m \in Guests : m = machine'
    BY <1>3, ObservedIs
  <2>2. PICK e \in Outputs : /\ e = Output("event", id, "full", m)
                             /\ e.type = "event" /\ e.id = id /\ e.kind = "full" /\ e.guest = m
    BY <1>2, MadeIs
  <2>3. PICK t : t = [stream EXCEPT !.latest = e]
    OBVIOUS
  <2>4. t \in Streams /\ t.id = stream.id /\ t.latest = e /\ t.base = stream.base
    BY <2>3, StreamSet
  <2>5. stream' = t
    BY <1>1, <1>3, <2>1, <2>2, <2>3
  <2> QED BY <1>0, <1>1, <1>3, <2>1, <2>2, <2>4, <2>5 DEF Observing, Loaded
<1>4. CASE stream' = [stream EXCEPT !.id = 0, !.latest = Output("event", stream.id, "ended", NoGuest)]
           /\ UNCHANGED machine
  <2>2. PICK e \in Outputs : /\ e = Output("event", id, "ended", NoGuest)
                             /\ e.type = "event" /\ e.id = id /\ e.kind = "ended" /\ e.guest = NoGuest
    BY <1>2, MadeIs
  <2>3. PICK s : s = [stream EXCEPT !.id = 0]
    OBVIOUS
  <2>4. s \in Streams /\ s.id = 0 /\ s.base = stream.base
    BY <2>3, StreamId
  <2>5. PICK t : t = [s EXCEPT !.latest = e]
    OBVIOUS
  <2>6. t \in Streams /\ t.id = 0 /\ t.latest = e /\ t.base = s.base
    BY <2>4, <2>5, StreamSet
  <2>7. stream' = t
    BY <1>1, <1>4, <2>2, <2>3, <2>5
  <2> QED BY <1>0, <1>1, <1>4, <2>2, <2>4, <2>6, <2>7 DEF Loses
<1> QED BY <1>0, <1>3, <1>4 DEF WorkerCaptures

LEMMA StreamBase ==
  ASSUME NEW s \in Streams, NEW o \in Outputs, NEW t, t = [s EXCEPT !.base = o]
  PROVE  t \in Streams /\ t.id = s.id /\ t.latest = s.latest /\ t.base = o
BY SMT DEF Streams

(* The sample that waits is written, in full or as what has changed. *)
Changes(o, sample) ==
    /\ o.kind = "delta" /\ sample.kind = "full"
    /\ stream.base.id = sample.id /\ SameKey(stream.base.guest, sample.guest)
    /\ o.type = sample.type /\ o.id = sample.id /\ o.guest = sample.guest
    /\ o.base = stream.base.guest.sequence

LEMMA SamplesIs ==
  ASSUME WorkerSamples, stream \in Streams
  PROVE  /\ UNCHANGED <<stdin, machine, held, executed>>
         /\ stream.latest # NoEvent
         /\ \E o \in Outputs : stdout' = Append(stdout, o) /\ (o = stream.latest \/ Changes(o, stream.latest))
         /\ stream' \in Streams /\ stream'.id = stream.id /\ stream'.latest = NoEvent
         /\ stream'.base = IF stream.latest.kind = "ended" THEN NoEvent ELSE stream.latest
<1>1. UNCHANGED <<stdin, machine, held, executed>> /\ stream.latest # NoEvent
  BY DEF WorkerSamples
<1>2. PICK sample \in Outputs : sample = stream.latest
  BY StreamIs
<1>3. \E o \in Outputs : stdout' = Append(stdout, o) /\ (o = stream.latest \/ Changes(o, stream.latest))
  <2>1. CASE Says(sample)
    BY <1>2, <2>1 DEF Says
  <2>2. CASE /\ sample.kind = "full" /\ stream.base.id = sample.id
             /\ SameKey(stream.base.guest, sample.guest)
             /\ Says([sample EXCEPT !.kind = "delta", !.base = stream.base.guest.sequence])
    <3>1. PICK base \in Nat : base = stream.base.guest.sequence
      BY StreamIs, OutputIs, GuestIs
    <3>2. PICK o : o = [sample EXCEPT !.kind = "delta", !.base = base]
      OBVIOUS
    <3>3. /\ o \in Outputs /\ o.type = sample.type /\ o.id = sample.id /\ o.kind = "delta"
          /\ o.guest = sample.guest /\ o.base = base
      BY <3>2, DeltaIs
    <3>4. stdout' = Append(stdout, o)
      BY <2>2, <3>1, <3>2 DEF Says
    <3> QED BY <1>2, <2>2, <3>1, <3>3, <3>4 DEF Changes
  <2> QED BY <1>2, <2>1, <2>2 DEF WorkerSamples
<1>4. /\ stream' \in Streams /\ stream'.id = stream.id /\ stream'.latest = NoEvent
      /\ stream'.base = IF stream.latest.kind = "ended" THEN NoEvent ELSE stream.latest
  <2>1. PICK base \in Outputs : base = IF sample.kind = "ended" THEN NoEvent ELSE sample
    BY Empty0
  <2>2. PICK s : s = [stream EXCEPT !.latest = NoEvent]
    OBVIOUS
  <2>3. s \in Streams /\ s.id = stream.id /\ s.latest = NoEvent
    BY <2>2, StreamSet, Empty0
  <2>4. PICK t : t = [s EXCEPT !.base = base]
    OBVIOUS
  <2>5. t \in Streams /\ t.id = s.id /\ t.latest = s.latest /\ t.base = base
    BY <2>3, <2>4, StreamBase
  <2>6. stream' = t
    BY <1>2, <2>1, <2>2, <2>4 DEF WorkerSamples
  <2> QED BY <1>2, <2>1, <2>3, <2>5, <2>6
<1> QED BY <1>1, <1>3, <1>4

LEMMA ErrsIs ==
  ASSUME WorkerErrs, Len(calls) \in Nat
  PROVE  /\ UNCHANGED <<stdin, machine, stream, held, executed>> /\ "garbage" \in Faults
         /\ \E o \in Outputs :
              /\ stdout' = Append(stdout, o) /\ o.guest = NoGuest
              /\ o.type = "garbage" \/ (o.type = "reply" /\ o.kind = "error")
<1>0. NoGuest \in Guests /\ {"garbage", "reply"} \subseteq Types /\ {"none", "error"} \subseteq OutputKinds
  BY Empty0 DEF Types, OutputKinds, Replying
<1>1. UNCHANGED <<stdin, machine, stream, held, executed>> /\ "garbage" \in Faults
  BY DEF WorkerErrs
<1>2. CASE Says(Output("garbage", 0, "none", NoGuest))
  <2>1. PICK o \in Outputs : o = Output("garbage", 0, "none", NoGuest) /\ o.type = "garbage"
                             /\ o.guest = NoGuest
    BY <1>0, MadeIs
  <2> QED BY <1>1, <1>2, <2>1 DEF Says
<1>3. CASE \E id \in 0 .. Len(calls) : Says(Output("reply", id, "error", NoGuest))
  <2>1. PICK id \in Nat : Says(Output("reply", id, "error", NoGuest))
    BY <1>3
  <2>2. PICK o \in Outputs : o = Output("reply", id, "error", NoGuest) /\ o.type = "reply"
                             /\ o.kind = "error" /\ o.guest = NoGuest
    BY <1>0, MadeIs
  <2> QED BY <1>1, <2>1, <2>2 DEF Says
<1> QED BY <1>2, <1>3 DEF WorkerErrs

LEMMA StopsIs ==
  ASSUME GuestStops, machine \in Guests
  PROVE  /\ machine' \in Guests /\ machine'.session = machine.session
         /\ machine'.generation = machine.generation /\ machine'.sequence = machine.sequence
<1>1. PICK m : m = [machine EXCEPT !.status = "paused"]
  OBVIOUS
<1>2. /\ m \in Guests /\ m.session = machine.session /\ m.generation = machine.generation
      /\ m.sequence = machine.sequence
  BY <1>1, StatusIs
<1> QED BY <1>1, <1>2 DEF GuestStops
-----------------------------------------------------------------------------
(* What the window is sent.                                                *)

LEMMA CreditIs ==
  ASSUME NEW d \in Credits
  PROVE  d.attached \in BOOLEAN /\ d.waiting \in Outputs /\ d.latest \in Outputs
BY DEF Credits

LEMMA CreditLatest ==
  ASSUME NEW d \in Credits, NEW o \in Outputs, NEW t, t = [d EXCEPT !.latest = o]
  PROVE  /\ t \in Credits /\ (t.attached <=> d.attached) /\ t.waiting = d.waiting /\ t.latest = o
BY SMT DEF Credits

LEMMA CreditWaiting ==
  ASSUME NEW d \in Credits, NEW o \in Outputs, NEW t, t = [d EXCEPT !.waiting = o]
  PROVE  /\ t \in Credits /\ (t.attached <=> d.attached) /\ t.waiting = o /\ t.latest = d.latest
BY SMT DEF Credits

LEMMA FlushIs ==
  ASSUME NEW d \in Credits, NEW v \in Nat, Flush(d, v)
  PROVE  \/ (d.waiting # NoEvent \/ d.latest = NoEvent) /\ delivery' = d /\ UNCHANGED delivered
         \/ /\ d.waiting = NoEvent /\ d.latest # NoEvent
            /\ delivery' \in Credits /\ (delivery'.attached <=> d.attached)
            /\ delivery'.waiting = d.latest /\ delivery'.latest = NoEvent
            /\ delivered' = Append(delivered, [view |-> v, event |-> d.latest])
<1>1. CASE d.waiting # NoEvent \/ d.latest = NoEvent
  BY <1>1 DEF Flush
<1>2. CASE ~(d.waiting # NoEvent \/ d.latest = NoEvent)
  <2>1. PICK s : s = [d EXCEPT !.waiting = d.latest]
    OBVIOUS
  <2>2. s \in Credits /\ (s.attached <=> d.attached) /\ s.waiting = d.latest
    BY <2>1, CreditIs, CreditWaiting
  <2>3. PICK t : t = [s EXCEPT !.latest = NoEvent]
    OBVIOUS
  <2>4. t \in Credits /\ (t.attached <=> s.attached) /\ t.waiting = s.waiting /\ t.latest = NoEvent
    BY <2>2, <2>3, CreditLatest, Empty0
  <2>5. delivery' = t /\ delivered' = Append(delivered, [view |-> v, event |-> d.latest])
    BY <1>2, <2>1, <2>3 DEF Flush
  <2> QED BY <1>2, <2>2, <2>4, <2>5
<1> QED BY <1>1, <1>2

LEMMA OfferIs ==
  ASSUME delivery \in Credits, NEW e \in Outputs, e # NoEvent, NEW v \in Nat, Offer(e, v)
  PROVE  /\ delivery' \in Credits /\ (delivery'.attached <=> delivery.attached)
         /\ \/ /\ delivery.waiting # NoEvent /\ delivery'.waiting = delivery.waiting
               /\ delivery'.latest = e /\ UNCHANGED delivered
            \/ /\ delivery'.waiting = e /\ delivery'.latest = NoEvent
               /\ delivered' = Append(delivered, [view |-> v, event |-> e])
<1>1. PICK d : d = [delivery EXCEPT !.latest = e]
  OBVIOUS
<1>2. d \in Credits /\ (d.attached <=> delivery.attached) /\ d.waiting = delivery.waiting /\ d.latest = e
  BY <1>1, CreditLatest
<1>3. Flush(d, v)
  BY <1>1 DEF Offer
<1> QED BY <1>2, <1>3, FlushIs

LEMMA AckIs ==
  ASSUME delivery \in Credits, view \in Nat, Ack
  PROVE  /\ delivery' \in Credits /\ delivery.waiting # NoEvent
         /\ delivery.attached => delivery'.attached
         /\ delivery'.latest = NoEvent
         /\ \/ delivery.latest = NoEvent /\ UNCHANGED delivered
            \/ /\ delivery.latest # NoEvent
               /\ delivered' = Append(delivered, [view |-> view, event |-> delivery.latest])
            \/ /\ delivery.latest # NoEvent /\ delivery' = NewDelivery
               /\ refused' = delivery.latest /\ UNCHANGED delivered
<1>1. delivery.waiting # NoEvent
  BY DEF Ack, Acknowledge, AcknowledgeLost
<1>2. CASE Acknowledge(view)
  <2>1. PICK d : d = [delivery EXCEPT !.waiting = NoEvent]
    OBVIOUS
  <2>2. d \in Credits /\ (d.attached <=> delivery.attached) /\ d.waiting = NoEvent /\ d.latest = delivery.latest
    BY <2>1, CreditWaiting, Empty0
  <2>3. Flush(d, view)
    BY <1>2, <2>1 DEF Acknowledge
  <2> QED BY <1>1, <2>2, <2>3, FlushIs
<1>3. CASE "channel" \in Faults /\ AcknowledgeLost
  BY <1>1, <1>3, Empty0 DEF AcknowledgeLost
<1> QED BY <1>2, <1>3 DEF Ack
-----------------------------------------------------------------------------
(* The types of the worker and of the window.                              *)

Appended(o) == o \in Outputs /\ stdout' = Append(stdout, o)
Deliveries == [view : Nat, event : Outputs]

LEMMA SpawnEmpties ==
  ASSUME Spawn
  PROVE  /\ view' = 0 /\ guest' = NoGuest /\ closedSession' = 0 /\ subscription' = 0
         /\ cache' = NoEvent /\ delivery' = Detached /\ delivered' = <<>> /\ stdin' = <<>>
         /\ stdout' = <<>> /\ machine' = NoGuest /\ stream' = NoStream /\ held' = NoEvent
         /\ executed' = {}
<1> DEFINE first == <<[kind |-> "hello", view |-> 0]>>
<1>1. FreshConnection(first)
  BY DEF Spawn
<1> HIDE DEF first
<1> QED BY <1>1 DEF FreshConnection

LEMMA ServingSays ==
  ASSUME Handling, WorkerTypes, Serving, NEW id, id = Head(stdin)
  PROVE  /\ id \in Nat \ {0} /\ id \in Ids /\ id \notin executed /\ executed' = executed \cup {id}
         /\ \/ \E word : Plain(id, word)
            \/ Shows(id) \/ Ends(id) \/ Silences(id)
            \/ calls[id].kind = "subscribe" /\ Streaming(id)
<1>0. machine \in Guests /\ stream \in Streams
  BY DEF WorkerTypes
<1>1. id \in Nat \ {0} /\ id \in Ids /\ id \notin executed /\ executed' = executed \cup {id}
  BY ServingIs, ServeHandling DEF Handling, CallTypes
<1>2. CASE WorkerServes
  <2>1. PICK kind : kind = calls[id].kind /\ Serves(id, kind)
    BY <1>2 DEF WorkerServes
  <2> QED BY <1>0, <1>1, <2>1, ServesIs
<1>3. CASE WorkerCloses
  <2>1. "closed" \in OutputKinds
    BY DEF OutputKinds, Replying
  <2>2. Replies(id, "closed", NoGuest) /\ UNCHANGED <<machine, stream, held>>
    BY <1>3 DEF WorkerCloses
  <2>3. Plain(id, "closed")
    BY <1>1, <2>1, <2>2, Empty0, RepliesIs DEF Plain
  <2> QED BY <1>1, <2>3
<1> QED BY <1>2, <1>3 DEF Serving

(* How the steps of the worker leave what it says and what it keeps. *)
LEMMA WorkerIs ==
  ASSUME Handling, WorkerTypes, Serving \/ WorkerReleases \/ WorkerCaptures \/ WorkerSamples \/ GuestStops \/ WorkerErrs
  PROVE  /\ machine' \in Guests /\ stream' \in Streams /\ held' \in Outputs
         /\ UNCHANGED stdout \/ \E o : Appended(o)
         /\ UNCHANGED <<calls, pending, started, settled, failure, queue, writing>>
         /\ UNCHANGED <<view, guest, closedSession, subscription>> /\ UNCHANGED deliveryVars
<1>0. machine \in Guests /\ stream \in Streams /\ held \in Outputs
  BY DEF WorkerTypes
<1>1. CASE Serving
  <2>1. PICK id \in Nat \ {0} : id = Head(stdin)
    BY <1>1, ServingIs, ServeHandling
  <2>2. \/ \E word : Plain(id, word)
        \/ Shows(id) \/ Ends(id) \/ Silences(id) \/ Streaming(id)
    BY <1>1, <2>1, ServingSays
  <2>3. machine' \in Guests /\ stream' \in Streams /\ held' \in Outputs
        /\ (UNCHANGED stdout \/ \E o : Appended(o))
    <3>1. CASE \E word : Plain(id, word)
      BY <1>0, <3>1 DEF Plain, Appended
    <3>2. CASE Shows(id)
      BY <1>0, <3>2, NotObservedIs DEF Shows, Appended
    <3>3. CASE Ends(id)
      BY <1>0, <3>3, NotObservedIs, Empty0 DEF Ends, Appended
    <3>4. CASE Silences(id)
      BY <1>0, <3>4, NotObservedIs DEF Silences, Appended
    <3>5. CASE Streaming(id)
      BY <1>0, <3>5, ObservedIs DEF Streaming, Observing, Appended
    <3> QED BY <2>2, <3>1, <3>2, <3>3, <3>4, <3>5
  <2> QED BY <1>1, <2>3, ServingIs DEF viewVars
<1>2. CASE WorkerReleases \/ WorkerCaptures \/ WorkerSamples \/ GuestStops \/ WorkerErrs
  <2>1. UNCHANGED callVars /\ UNCHANGED viewVars /\ UNCHANGED deliveryVars /\ UNCHANGED threadVars
    BY <1>2 DEF WorkerReleases, WorkerCaptures, WorkerSamples, GuestStops, WorkerErrs, Working
  <2>2. CASE WorkerReleases
    BY <1>0, <2>1, <2>2, Empty0 DEF WorkerReleases, Says, Appended, callVars, viewVars, threadVars
  <2>3. CASE WorkerCaptures
    BY <1>0, <2>1, <2>3, CapturesIs, ObservedIs DEF Observing, Loses, callVars, viewVars, threadVars
  <2>4. CASE WorkerSamples
    BY <1>0, <2>1, <2>4, SamplesIs DEF Appended, callVars, viewVars, threadVars
  <2>5. CASE GuestStops
    BY <1>0, <2>1, <2>5, StopsIs DEF GuestStops, callVars, viewVars, threadVars
  <2>6. CASE WorkerErrs
    <3>1. Len(calls) \in Nat
      BY IdsIs DEF Handling, CallTypes
    <3> QED BY <1>0, <2>1, <2>6, <3>1, ErrsIs DEF Appended, callVars, viewVars, threadVars
  <2> QED BY <1>2, <2>2, <2>3, <2>4, <2>5, <2>6
<1> QED BY <1>1, <1>2

LEMMA DeliveredIs ==
  ASSUME delivered \in Seq(Deliveries), NEW v \in Nat, NEW e \in Outputs,
         delivered' = Append(delivered, [view |-> v, event |-> e])
  PROVE  /\ delivered' \in Seq(Deliveries) /\ Len(delivered) \in Nat
         /\ DOMAIN delivered = 1 .. Len(delivered) /\ DOMAIN delivered' = 1 .. Len(delivered) + 1
         /\ Len(delivered') = Len(delivered) + 1
         /\ delivered'[Len(delivered) + 1].view = v /\ delivered'[Len(delivered) + 1].event = e
         /\ \A i \in 1 .. Len(delivered) : delivered'[i] = delivered[i]
<1>1. PICK r \in Deliveries : r = [view |-> v, event |-> e] /\ r.view = v /\ r.event = e
  <2> DEFINE r == [view |-> v, event |-> e]
  <2>1. r \in Deliveries /\ r.view = v /\ r.event = e
    BY DEF Deliveries
  <2> QED BY <2>1
<1> QED BY <1>1, AppendIs

(* What reading a message does to the session that is shown. *)
Sees(seen) == guest' = IF Stale(seen) THEN guest ELSE seen

LEMMA ReplyIs ==
  ASSUME ReadReply, stdout \in Seq(Outputs), NEW reply, reply = Head(stdout)
  PROVE  /\ reply \in Outputs /\ reply.type = "reply" /\ reply.id \in pending /\ Settle(reply.id)
         /\ failure = "none" /\ stdout # <<>> /\ stdout' = Tail(stdout)
         /\ UNCHANGED <<view, queue, writing, stdin, executed, machine, stream, held>>
         /\ UNCHANGED <<cache, delivery, delivered, refused>>
         /\ \/ /\ reply.kind = "observed" /\ Sees(reply.guest)
               /\ subscription' = Kept(reply.guest) /\ UNCHANGED closedSession
            \/ /\ reply.kind = "session closed"
               /\ closedSession' = IF closedSession > reply.guest.session
                                   THEN closedSession ELSE reply.guest.session
               /\ guest' = NoGuest /\ subscription' = 0
            \/ /\ reply.kind \notin {"observed", "session closed"}
               /\ subscription' = IF Subscribed(reply) THEN reply.id
                                  ELSE IF Unsubscribed(reply) THEN 0 ELSE subscription
               /\ UNCHANGED <<guest, closedSession>>
<1>1. /\ failure = "none" /\ stdout # <<>> /\ stdout' = Tail(stdout)
      /\ UNCHANGED <<view, queue, writing, stdin, executed, machine, stream, held>>
      /\ UNCHANGED <<cache, delivery, delivered, refused>>
  BY ReadingIs DEF ReadReply, deliveryVars
<1>2. reply \in Outputs /\ reply.type = "reply" /\ reply.id \in pending /\ Settle(reply.id)
  BY <1>1, TailIs DEF ReadReply
<1>3. CASE reply.kind = "observed"
  BY <1>1, <1>2, <1>3 DEF ReadReply, Seen, Sees
<1>4. CASE reply.kind = "session closed"
  <2>1. reply.kind # "observed"
    BY <1>4
  <2>2. /\ closedSession' = IF closedSession > reply.guest.session
                            THEN closedSession ELSE reply.guest.session
        /\ guest' = NoGuest /\ subscription' = 0
    BY <1>4, <2>1 DEF ReadReply
  <2> QED BY <1>1, <1>2, <1>4, <2>2
<1>5. CASE reply.kind \notin {"observed", "session closed"}
  BY <1>1, <1>2, <1>5 DEF ReadReply
<1> QED BY <1>3, <1>4, <1>5

LEMMA EventIs ==
  ASSUME ReadEvent, stdout \in Seq(Outputs), NEW event, event = Head(stdout)
  PROVE  /\ event \in Outputs /\ event.type = "event" /\ Applicable(event)
         /\ failure = "none" /\ stdout # <<>> /\ stdout' = Tail(stdout) /\ UNCHANGED callVars
         /\ UNCHANGED <<view, queue, writing, stdin, executed, machine, stream, held, closedSession>>
         /\ cache' = Cached(event)
         /\ event.kind # "ended" => Sees(event.guest)
         /\ event.kind = "ended" => UNCHANGED guest
         /\ \E kept : /\ kept = IF event.kind = "ended" THEN subscription ELSE Kept(event.guest)
                      /\ \/ /\ kept = event.id /\ delivery.attached
                            /\ Offer(Full(event), view) /\ subscription' = kept
                         \/ /\ "channel" \in Faults /\ delivery' = Detached /\ subscription' = 0
                            /\ UNCHANGED delivered
                         \/ /\ ~(kept = event.id /\ delivery.attached)
                            /\ subscription' = kept /\ UNCHANGED <<delivery, delivered>>
<1>1. /\ failure = "none" /\ stdout # <<>> /\ stdout' = Tail(stdout) /\ UNCHANGED callVars
      /\ UNCHANGED <<view, queue, writing, stdin, executed, machine, stream, held, closedSession>>
  BY ReadingIs DEF ReadEvent
<1>2. event \in Outputs
  BY <1>1, TailIs
<1>3. PICK kept : kept = IF event.kind = "ended" THEN subscription ELSE Kept(event.guest)
  OBVIOUS
<1>4. /\ event.type = "event" /\ Applicable(event) /\ cache' = Cached(event)
      /\ IF event.kind = "ended" THEN UNCHANGED <<guest, clock>> ELSE Seen(event.guest)
      /\ IF kept = event.id /\ delivery.attached
         THEN \/ Offer(Full(event), view) /\ subscription' = kept
              \/ /\ "channel" \in Faults /\ delivery.waiting = NoEvent
                 /\ delivery' = Detached /\ subscription' = 0
                 /\ UNCHANGED delivered
         ELSE subscription' = kept /\ UNCHANGED <<delivery, delivered>>
  BY <1>3 DEF ReadEvent
<1>5. /\ event.kind # "ended" => Sees(event.guest)
      /\ event.kind = "ended" => UNCHANGED guest
  BY <1>4 DEF Seen, Sees
<1>6. \/ /\ kept = event.id /\ delivery.attached
         /\ Offer(Full(event), view) /\ subscription' = kept
      \/ /\ "channel" \in Faults /\ delivery' = Detached /\ subscription' = 0
         /\ UNCHANGED delivered
      \/ /\ ~(kept = event.id /\ delivery.attached)
         /\ subscription' = kept /\ UNCHANGED <<delivery, delivered>>
  BY <1>4
<1> QED BY <1>1, <1>2, <1>3, <1>4, <1>5, <1>6

LEMMA TypesNext ==
  ASSUME Handling, WindowTypes, WorkerTypes, [Next]_vars
  PROVE  WindowTypes' /\ WorkerTypes'
<1>0. /\ view \in Nat /\ guest \in Guests /\ closedSession \in Nat /\ subscription \in Nat
      /\ cache \in Outputs /\ delivery \in Credits /\ delivered \in Seq(Deliveries)
      /\ stdout \in Seq(Outputs) /\ machine \in Guests /\ stream \in Streams /\ held \in Outputs
  BY DEF WindowTypes, WorkerTypes, Deliveries
<1>1. CASE Admits \/ WriterTakes \/ WriterWrites \/ Rests
  <2>1. UNCHANGED <<view, guest, closedSession, subscription, cache, delivery, delivered, stdout,
                    machine, stream, held>>
    BY <1>1 DEF Admits, WriterTakes, WriterWrites, Rests, viewVars, deliveryVars, workerVars
  <2> QED BY <2>1 DEF WindowTypes, WorkerTypes
<1>2. CASE Fails
  <2>1. UNCHANGED <<view, guest, closedSession, subscription, cache, delivered, stdout, machine, stream, held>>
        /\ delivery' = Detached
    BY <1>2 DEF Fails, Fail, viewVars, workerVars
  <2> QED BY <2>1, Empty0 DEF WindowTypes, WorkerTypes
<1>3. CASE Spawn
  BY <1>3, SpawnEmpties, Empty0, EmptySeq DEF WindowTypes, WorkerTypes
<1>4. CASE Attach \/ Detach
  <2>1. UNCHANGED <<guest, closedSession, cache, delivered, stdout, machine, stream, held>>
        /\ delivery' \in {NewDelivery, Detached} /\ subscription' = 0 /\ view' \in {view, view + 1}
    BY <1>4 DEF Attach, Detach, workerVars
  <2> QED BY <1>0, <2>1, Empty0 DEF WindowTypes, WorkerTypes
<1>5. CASE Ack
  <2>1. UNCHANGED <<view, guest, closedSession, subscription, cache, stdout, machine, stream, held>>
    BY <1>5 DEF Ack, viewVars, workerVars
  <2>2. delivery' \in Credits /\ delivered' \in Seq(Deliveries)
    BY <1>0, <1>5, AckIs, DeliveredIs, CreditIs
  <2> QED BY <2>1, <2>2 DEF WindowTypes, WorkerTypes, Deliveries
<1>6. CASE ReadReply
  <2>1. PICK reply : reply = Head(stdout)
    OBVIOUS
  <2>2. stdout' \in Seq(Outputs) /\ UNCHANGED <<view, machine, stream, held>>
        /\ UNCHANGED <<cache, delivery, delivered>>
    BY <1>0, <1>6, <2>1, ReplyIs, TailIs
  <2>3. reply.guest \in Guests /\ reply.guest.session \in Nat /\ reply.id \in Nat
    BY <1>0, <1>6, <2>1, ReplyIs, OutputIs, GuestIs
  <2>4. guest' \in Guests /\ closedSession' \in Nat
    BY <1>0, <1>6, <2>1, <2>3, ReplyIs, Empty0 DEF Sees
  <2>5. subscription' \in Nat
    <3>1. \/ subscription' = Kept(reply.guest) \/ subscription' = 0
          \/ subscription' = reply.id \/ subscription' = subscription
      BY <1>0, <1>6, <2>1, ReplyIs
    <3>2. Kept(reply.guest) \in {0, subscription}
      BY DEF Kept
    <3> QED BY <1>0, <2>3, <3>1, <3>2
  <2> QED BY <2>2, <2>4, <2>5 DEF WindowTypes, WorkerTypes
<1>7. CASE ReadEvent
  <2>1. PICK event : event = Head(stdout)
    OBVIOUS
  <2>2. stdout' \in Seq(Outputs) /\ UNCHANGED <<view, machine, stream, held, closedSession>>
        /\ event \in Outputs /\ cache' = Cached(event)
    BY <1>0, <1>7, <2>1, EventIs, TailIs
  <2>3. event.guest \in Guests /\ Full(event) \in Outputs /\ cache' \in Outputs
    BY <2>2, OutputIs, FullIs, Empty0 DEF Cached
  <2>4. guest' \in Guests
    BY <1>0, <1>7, <2>1, <2>3, EventIs DEF Sees
  <2>5. PICK kept : /\ kept = IF event.kind = "ended" THEN subscription ELSE Kept(event.guest)
                    /\ \/ Offer(Full(event), view) /\ subscription' = kept
                       \/ delivery' = Detached /\ subscription' = 0 /\ UNCHANGED delivered
                       \/ subscription' = kept /\ UNCHANGED <<delivery, delivered>>
    BY <1>0, <1>7, <2>1, EventIs
  <2>6. subscription' \in Nat
    BY <1>0, <2>5 DEF Kept
  <2>7. delivery' \in Credits /\ delivered' \in Seq(Deliveries)
    <3>1. CASE Offer(Full(event), view)
      <4>1. PICK e \in Outputs : e = Full(event)
        BY <2>3
      <4>2. PICK d : d = [delivery EXCEPT !.latest = e]
        OBVIOUS
      <4>3. d \in Credits
        BY <1>0, <4>2, CreditLatest
      <4>4. Flush(d, view)
        BY <3>1, <4>1, <4>2 DEF Offer
      <4> QED BY <1>0, <4>3, <4>4, FlushIs, CreditIs, DeliveredIs
    <3>2. CASE delivery' = Detached /\ UNCHANGED delivered
      BY <1>0, <3>2, Empty0
    <3>3. CASE UNCHANGED <<delivery, delivered>>
      BY <1>0, <3>3
    <3> QED BY <2>5, <3>1, <3>2, <3>3
  <2> QED BY <1>0, <2>2, <2>3, <2>4, <2>6, <2>7 DEF WindowTypes, WorkerTypes, Deliveries
<1>8. CASE Serving \/ WorkerReleases \/ WorkerCaptures \/ WorkerSamples \/ GuestStops \/ WorkerErrs
  <2>1. stdout' \in Seq(Outputs)
    <3>1. CASE UNCHANGED stdout
      BY <1>0, <3>1
    <3>2. CASE \E o : Appended(o)
      <4>1. PICK o \in Outputs : stdout' = Append(stdout, o)
        BY <3>2 DEF Appended
      <4> QED BY <1>0, <4>1, AppendIs
    <3> QED BY <1>8, <3>1, <3>2, WorkerIs
  <2> QED BY <1>8, <2>1, WorkerIs DEF WindowTypes, WorkerTypes, deliveryVars
<1> QED BY <1>0, <1>1, <1>2, <1>3, <1>4, <1>5, <1>6, <1>7, <1>8, NextIs
-----------------------------------------------------------------------------
(* A connection's calls are only added to, and what is said stays true.    *)

Later ==
    /\ executed \subseteq executed' /\ Ids \subseteq Ids'
    /\ \A id \in Ids : calls'[id] = calls[id]

LEMMA LaterIs ==
  ASSUME Handling, view \in Nat, [Next]_vars, ~Spawn
  PROVE  Later
<1>1. CASE Admits
  <2>1. PICK kind \in AllKinds \cup {"hello", "shutdown"}, lease \in Nat : Admit(kind, lease)
    BY <1>1 DEF Admits
  <2>2. PICK n : n = Len(calls) + 1
    OBVIOUS
  <2> QED BY <1>1, <2>1, <2>2, AdmitIs DEF Admits, workerVars, Later
<1>2. CASE ~Admits
  <2>1. UNCHANGED calls /\ executed \subseteq executed'
    <3>1. CASE Fails \/ Rests \/ Attach \/ Detach \/ Ack \/ WriterTakes \/ WriterWrites
               \/ WorkerReleases \/ WorkerCaptures \/ WorkerSamples \/ GuestStops \/ WorkerErrs
      BY <3>1 DEF Fails, Fail, Rests, Attach, Detach, Ack, WriterTakes, WriterWrites, WorkerReleases,
         WorkerCaptures, WorkerSamples, GuestStops, WorkerErrs, Working, callVars, workerVars
    <3>2. CASE ReadReply \/ ReadEvent
      BY <3>2, ReadingIs DEF ReadReply, ReadEvent, Settle, callVars
    <3> QED BY <1>2, <3>1, <3>2, NextIs, ServingIs
  <2> QED BY <2>1 DEF Later, Ids
<1> QED BY <1>1, <1>2

LEMMA SaidLater ==
  ASSUME Handling, Later, NEW o
  PROVE  /\ SaidOf(o) => SaidOf(o)'
         /\ \A lease : IsOf(o, lease) => IsOf(o, lease)'
<1>1. executed \subseteq Ids
  BY DEF Handling, CallTypes, Accounted
<1>2. SaidOf(o) => SaidOf(o)'
  BY <1>1 DEF Later, SaidOf, IsEvent, IsReply
<1>3. ASSUME NEW lease, IsOf(o, lease) PROVE IsOf(o, lease)'
  BY <1>3 DEF Later, IsOf
<1> QED BY <1>2, <1>3

Spoken == WindowTypes /\ WorkerTypes /\ Said /\ RepliesFirst

LEMMA SaidAppended ==
  ASSUME Handling, Spoken, Later, NEW o, Appended(o), SaidOf(o)'
  PROVE  \A i \in DOMAIN stdout' : SaidOf(stdout[i])'
<1>1. stdout \in Seq(Outputs)
  BY DEF Spoken, WorkerTypes
<1>2. /\ Len(stdout) \in Nat /\ DOMAIN stdout = 1 .. Len(stdout)
      /\ DOMAIN stdout' = 1 .. Len(stdout) + 1 /\ stdout'[Len(stdout) + 1] = o
      /\ \A i \in 1 .. Len(stdout) : stdout'[i] = stdout[i]
  BY <1>1, AppendIs DEF Appended
<1> SUFFICES ASSUME NEW i \in DOMAIN stdout' PROVE SaidOf(stdout[i])'
  OBVIOUS
<1>3. CASE i = Len(stdout) + 1
  BY <1>2, <1>3 DEF SaidOf
<1>4. CASE i # Len(stdout) + 1
  <2>1. i \in DOMAIN stdout /\ stdout'[i] = stdout[i]
    BY <1>2, <1>4
  <2>2. PICK p : p = stdout[i]
    OBVIOUS
  <2>3. SaidOf(p)'
    BY <2>1, <2>2, SaidLater DEF Spoken, Said
  <2> QED BY <2>1, <2>2, <2>3 DEF SaidOf
<1> QED BY <1>3, <1>4

LEMMA SaidTail ==
  ASSUME Handling, Spoken, Later, stdout # <<>>, stdout' = Tail(stdout)
  PROVE  \A i \in DOMAIN stdout' : SaidOf(stdout[i])'
<1>1. stdout \in Seq(Outputs)
  BY DEF Spoken, WorkerTypes
<1>2. /\ Len(stdout) \in Nat /\ DOMAIN stdout = 1 .. Len(stdout) /\ DOMAIN stdout' = 1 .. Len(stdout) - 1
      /\ \A i \in 1 .. Len(stdout) - 1 : stdout'[i] = stdout[i + 1]
  BY <1>1, TailIs
<1> SUFFICES ASSUME NEW i \in DOMAIN stdout' PROVE SaidOf(stdout[i])'
  OBVIOUS
<1>3. i + 1 \in DOMAIN stdout /\ stdout'[i] = stdout[i + 1]
  BY <1>2
<1>4. PICK p : p = stdout[i + 1]
  OBVIOUS
<1>5. SaidOf(p)'
  BY <1>3, <1>4, SaidLater DEF Spoken, Said
<1> QED BY <1>3, <1>4, <1>5 DEF SaidOf

LEMMA SaidSame ==
  ASSUME Handling, Spoken, Later, UNCHANGED stdout
  PROVE  \A i \in DOMAIN stdout' : SaidOf(stdout[i])'
<1> SUFFICES ASSUME NEW i \in DOMAIN stdout PROVE SaidOf(stdout[i])'
  OBVIOUS
<1>1. PICK p : p = stdout[i]
  OBVIOUS
<1>2. SaidOf(p)'
  BY <1>1, SaidLater DEF Spoken, Said
<1> QED BY <1>1, <1>2 DEF SaidOf

LEMMA FirstAppended ==
  ASSUME Handling, Spoken, NEW o, Appended(o), UNCHANGED cache,
         IsReply(o, "subscribed") => o.id \in Ids \ executed
  PROVE  RepliesFirst'
<1>1. stdout \in Seq(Outputs)
  BY DEF Spoken, WorkerTypes
<1> DEFINE l == Len(stdout)
<1>2. /\ l \in Nat /\ DOMAIN stdout = 1 .. l /\ DOMAIN stdout' = 1 .. l + 1 /\ stdout'[l + 1] = o
      /\ \A i \in 1 .. l : stdout'[i] = stdout[i]
  BY <1>1, AppendIs DEF Appended
<1> HIDE DEF l
<1> SUFFICES ASSUME NEW i \in DOMAIN stdout', IsReply(stdout'[i], "subscribed")
             PROVE  /\ cache.id # stdout'[i].id
                    /\ \A j \in DOMAIN stdout' : IsEvent(stdout'[j]) /\ stdout'[j].id = stdout'[i].id => i < j
  BY DEF RepliesFirst
<1>3. CASE i = l + 1
  <2>1. o.id \in Ids /\ o.id \notin executed /\ o.id # 0
    BY <1>2, <1>3, IdsIs DEF Handling, CallTypes
  <2>2. cache.id # o.id
    BY <2>1, Empty0 DEF Spoken, Said
  <2>3. \A j \in DOMAIN stdout : IsEvent(stdout[j]) => stdout[j].id # o.id
    BY <2>1 DEF Spoken, Said, SaidOf
  <2>4. ~IsEvent(o)
    BY <1>2, <1>3 DEF IsReply, IsEvent
  <2>5. \A j \in 1 .. l + 1 : j = l + 1 \/ j \in 1 .. l
    BY <1>2
  <2> QED BY <1>2, <1>3, <2>2, <2>3, <2>4, <2>5
<1>4. CASE i # l + 1
  <2>1. i \in 1 .. l /\ stdout'[i] = stdout[i] /\ i < l + 1
    BY <1>2, <1>4
  <2>2. \A j \in 1 .. l + 1 : j = l + 1 \/ j \in 1 .. l
    BY <1>2
  <2> QED BY <1>2, <2>1, <2>2 DEF Spoken, RepliesFirst
<1> QED BY <1>3, <1>4

LEMMA FirstTail ==
  ASSUME Handling, Spoken, stdout # <<>>, stdout' = Tail(stdout),
         \/ UNCHANGED cache
         \/ IsEvent(Head(stdout)) /\ cache'.id \in {0, Head(stdout).id}
  PROVE  RepliesFirst'
<1>1. stdout \in Seq(Outputs)
  BY DEF Spoken, WorkerTypes
<1> DEFINE l == Len(stdout)
<1>2. /\ l \in Nat \ {0} /\ DOMAIN stdout = 1 .. l /\ DOMAIN stdout' = 1 .. l - 1 /\ Head(stdout) = stdout[1]
      /\ \A i \in 1 .. l - 1 : stdout'[i] = stdout[i + 1]
  BY <1>1, TailIs
<1> HIDE DEF l
<1> SUFFICES ASSUME NEW i \in DOMAIN stdout', IsReply(stdout'[i], "subscribed")
             PROVE  /\ cache'.id # stdout'[i].id
                    /\ \A j \in DOMAIN stdout' : IsEvent(stdout'[j]) /\ stdout'[j].id = stdout'[i].id => i < j
  BY DEF RepliesFirst
<1>3. i + 1 \in DOMAIN stdout /\ stdout'[i] = stdout[i + 1] /\ 1 \in DOMAIN stdout /\ ~(i + 1 < 1)
  BY <1>2
<1>4. /\ cache.id # stdout[i + 1].id
      /\ \A j \in DOMAIN stdout : IsEvent(stdout[j]) /\ stdout[j].id = stdout[i + 1].id => i + 1 < j
  BY <1>3 DEF Spoken, RepliesFirst
<1>5. IsEvent(stdout[1]) => stdout[1].id # stdout[i + 1].id
  BY <1>3, <1>4
<1>6. stdout[i + 1].id # 0
  BY <1>3, IdsIs DEF Spoken, Said, SaidOf, Handling, CallTypes
<1>7. ASSUME NEW j \in DOMAIN stdout', IsEvent(stdout'[j]), stdout'[j].id = stdout'[i].id PROVE i < j
  <2>1. j + 1 \in DOMAIN stdout /\ stdout'[j] = stdout[j + 1]
    BY <1>2
  <2>2. i + 1 < j + 1
    BY <1>3, <1>4, <1>7, <2>1
  <2> QED BY <1>2, <2>2
<1> QED BY <1>2, <1>3, <1>4, <1>5, <1>6, <1>7

(* The part of Said about what is not in the pipe. *)
Keeping ==
    /\ held # NoEvent => IsReply(held, "observed")
    /\ stream.id # 0 => stream.id \in executed
    /\ stream.latest # NoEvent =>
          IsEvent(stream.latest) /\ stream.latest.id \in executed
          /\ stream.latest.kind \in {"full", "ended"}
    /\ stream.base # NoEvent => stream.base.id \in executed
    /\ cache # NoEvent => cache.id \in executed

LEMMA ServingSaid ==
  ASSUME Handling, Spoken, Later, Serving
  PROVE  Said' /\ RepliesFirst'
<1>0. UNCHANGED cache /\ Keeping /\ UNCHANGED calls /\ stream \in Streams
  BY ServingIs DEF deliveryVars, Spoken, Said, Keeping, WorkerTypes
<1>1. PICK id : id = Head(stdin)
  OBVIOUS
<1>2. /\ id \in Nat \ {0} /\ id \in Ids /\ id \notin executed /\ executed' = executed \cup {id}
      /\ \/ \E word : Plain(id, word)
         \/ Shows(id) \/ Ends(id) \/ Silences(id)
         \/ calls[id].kind = "subscribe" /\ Streaming(id)
  BY <1>1, ServingSays DEF Spoken
<1>3. ASSUME NEW o, Appended(o), SaidOf(o)', o.id = id, Keeping'
      PROVE  Said' /\ RepliesFirst'
  BY <1>0, <1>2, <1>3, SaidAppended, FirstAppended DEF Said, Keeping
<1>4. CASE \E word : Plain(id, word)
  <2>1. PICK o \in Outputs, kind \in {"hello", "assemble", "error", "closed"} :
           /\ o.type = "reply" /\ o.id = id /\ o.kind = kind /\ stdout' = Append(stdout, o)
           /\ UNCHANGED <<machine, stream, held>>
    BY <1>4 DEF Plain
  <2>2. SaidOf(o)' /\ Keeping' /\ Appended(o)
    BY <1>0, <1>2, <2>1 DEF SaidOf, IsEvent, IsReply, Keeping, Appended
  <2> QED BY <1>3, <2>1, <2>2
<1>5. CASE Shows(id)
  <2>1. PICK o \in Outputs :
           /\ o.type = "reply" /\ o.id = id /\ o.kind = "observed"
           /\ \/ stdout' = Append(stdout, o) /\ UNCHANGED held
              \/ held = NoEvent /\ held' = o /\ UNCHANGED stdout
           /\ stream' = stream \/ stream' = NotObserved
    BY <1>5 DEF Shows
  <2>2. SaidOf(o)'
    BY <2>1 DEF SaidOf, IsEvent, IsReply
  <2>3. Keeping'
    BY <1>0, <1>2, <2>1, NotObservedIs DEF Keeping, IsReply, IsEvent
  <2>4. CASE stdout' = Append(stdout, o)
    BY <1>3, <2>1, <2>2, <2>3, <2>4 DEF Appended
  <2>5. CASE UNCHANGED stdout
    <3>1. Said'
      BY <2>3, <2>5, SaidSame DEF Said, Keeping
    <3> QED BY <1>0, <2>5, <3>1 DEF Spoken, RepliesFirst
  <2> QED BY <2>1, <2>4, <2>5
<1>6. CASE Ends(id)
  <2>1. PICK o \in Outputs :
           /\ o.type = "reply" /\ o.id = id /\ o.kind = "session closed" /\ stdout' = Append(stdout, o)
           /\ stream' = NotObserved /\ UNCHANGED held
    BY <1>6 DEF Ends
  <2>2. SaidOf(o)' /\ Appended(o)
    BY <2>1 DEF SaidOf, IsEvent, IsReply, Appended
  <2>3. Keeping'
    BY <1>0, <1>2, <2>1, NotObservedIs DEF Keeping, IsReply, IsEvent
  <2> QED BY <1>3, <2>1, <2>2, <2>3
<1>7. CASE Silences(id)
  <2>1. PICK o \in Outputs :
           /\ o.type = "reply" /\ o.id = id /\ o.kind = "unsubscribed" /\ stdout' = Append(stdout, o)
           /\ o.base = stream.id /\ stream.id # 0
           /\ stream' = NotObserved /\ UNCHANGED held
    BY <1>7 DEF Silences
  <2>2. SaidOf(o)' /\ Appended(o)
    BY <1>0, <1>2, <2>1 DEF SaidOf, IsEvent, IsReply, Appended, Keeping
  <2>3. Keeping'
    BY <1>0, <1>2, <2>1, NotObservedIs DEF Keeping, IsReply, IsEvent
  <2> QED BY <1>3, <2>1, <2>2, <2>3
<1>8. CASE calls[id].kind = "subscribe" /\ Streaming(id)
  <2>1. PICK o \in Outputs :
           /\ o.type = "reply" /\ o.id = id /\ o.kind = "subscribed" /\ stdout' = Append(stdout, o)
    BY <1>8 DEF Streaming
  <2>2. SaidOf(o)' /\ Appended(o)
    BY <1>0, <1>2, <1>8, <2>1 DEF SaidOf, IsEvent, IsReply, Appended
  <2>3. Keeping'
    BY <1>0, <1>2, <1>8 DEF Keeping, IsReply, IsEvent, Streaming, Observing
  <2> QED BY <1>3, <2>1, <2>2, <2>3
<1> QED BY <1>2, <1>4, <1>5, <1>6, <1>7, <1>8

LEMMA SpokenNext ==
  ASSUME Handling, Spoken, [Next]_vars
  PROVE  Said' /\ RepliesFirst'
<1>0. view \in Nat /\ stdout \in Seq(Outputs) /\ stream \in Streams /\ held \in Outputs
      /\ machine \in Guests /\ Keeping
  BY DEF Spoken, WindowTypes, WorkerTypes, Said, Keeping
<1>1. CASE Spawn
  <2>1. DOMAIN stdout' = {} /\ cache' = NoEvent /\ stream' = NoStream /\ held' = NoEvent
    BY <1>1, SpawnEmpties
  <2> QED BY <2>1, Empty0 DEF Said, RepliesFirst
<1>2. CASE ~Spawn /\ UNCHANGED <<stdout, cache>> /\ Keeping'
  <2>1. Said'
    BY <1>0, <1>2, LaterIs, SaidSame DEF Said, Keeping
  <2> QED BY <1>2, <2>1 DEF Spoken, RepliesFirst
<1>3. CASE ~Spawn /\ (Admits \/ Fails \/ Rests \/ WriterTakes \/ WriterWrites \/ Attach \/ Detach \/ Ack)
  <2>1. UNCHANGED <<stdout, cache, stream, held, executed>>
    BY <1>3 DEF Admits, Fails, Fail, Rests, WriterTakes, WriterWrites, Attach, Detach, Ack, deliveryVars,
       workerVars
  <2> QED BY <1>0, <1>2, <1>3, <2>1 DEF Keeping
<1>4. CASE ~Spawn /\ ReadReply
  <2>1. stdout # <<>> /\ stdout' = Tail(stdout) /\ UNCHANGED <<cache, stream, held, executed>>
    BY <1>0, <1>4, ReplyIs
  <2> QED BY <1>0, <1>4, <2>1, LaterIs, SaidTail, FirstTail DEF Said, Keeping
<1>5. CASE ~Spawn /\ ReadEvent
  <2>1. PICK event \in Outputs : event = Head(stdout)
    BY <1>0, <1>5, EventIs
  <2>2. /\ event.type = "event" /\ stdout # <<>> /\ stdout' = Tail(stdout) /\ cache' = Cached(event)
        /\ UNCHANGED <<stream, held, executed>>
    BY <1>0, <1>5, <2>1, EventIs
  <2>3. event.id \in executed
    <3>1. 1 \in DOMAIN stdout /\ event = stdout[1]
      BY <1>0, <2>1, <2>2, TailIs
    <3> QED BY <2>2, <3>1 DEF Spoken, Said, SaidOf, IsEvent
  <2>4. cache' = NoEvent \/ cache'.id = event.id
    BY <2>2, FullIs DEF Cached
  <2>5. cache'.id \in {0, event.id}
    BY <2>4, Empty0
  <2>6. Keeping'
    BY <1>0, <2>2, <2>3, <2>4 DEF Keeping
  <2>7. RepliesFirst'
    BY <2>1, <2>2, <2>5, FirstTail DEF IsEvent
  <2> QED BY <1>0, <1>5, <2>2, <2>6, <2>7, LaterIs, SaidTail DEF Said, Keeping
<1>6. CASE ~Spawn /\ Serving
  BY <1>0, <1>6, LaterIs, ServingSaid
<1>7. ASSUME ~Spawn, NEW o, Appended(o), SaidOf(o)', Keeping', UNCHANGED cache, ~IsReply(o, "subscribed")
      PROVE  Said' /\ RepliesFirst'
  BY <1>0, <1>7, LaterIs, SaidAppended, FirstAppended DEF Said, Keeping
<1>8. CASE ~Spawn /\ WorkerReleases
  <2>1. /\ stdout' = Append(stdout, held) /\ held' = NoEvent /\ held # NoEvent
        /\ UNCHANGED <<cache, stream, executed>>
    BY <1>8 DEF WorkerReleases, Says, Working, deliveryVars
  <2>2. IsReply(held, "observed")
    BY <1>0, <2>1 DEF Keeping
  <2>3. PICK o \in Outputs : o = held
    BY <1>0
  <2>4. SaidOf(o)' /\ Keeping' /\ Appended(o) /\ ~IsReply(o, "subscribed")
    BY <1>0, <2>1, <2>2, <2>3 DEF SaidOf, IsReply, IsEvent, Keeping, Appended
  <2> QED BY <1>7, <1>8, <2>1, <2>4
<1>9. CASE ~Spawn /\ WorkerCaptures
  <2>1. /\ UNCHANGED <<cache, stdout, held, executed>> /\ stream.id # 0
        /\ Observing(stream.id) \/ Loses
    BY <1>0, <1>9, CapturesIs DEF WorkerCaptures, Working, deliveryVars
  <2>2. Keeping'
    BY <1>0, <2>1 DEF Keeping, Observing, Loses, IsEvent, IsReply
  <2> QED BY <1>2, <1>9, <2>1, <2>2
<1>10. CASE ~Spawn /\ WorkerSamples
  <2>1. /\ UNCHANGED <<cache, held, executed>> /\ stream.latest # NoEvent
        /\ stream'.id = stream.id /\ stream'.latest = NoEvent
        /\ stream'.base = NoEvent \/ stream'.base = stream.latest
    BY <1>0, <1>10, SamplesIs DEF WorkerSamples, Working, deliveryVars
  <2>2. PICK o \in Outputs : stdout' = Append(stdout, o) /\ (o = stream.latest \/ Changes(o, stream.latest))
    BY <1>0, <1>10, SamplesIs
  <2>3. IsEvent(stream.latest) /\ stream.latest.id \in executed /\ stream.latest.kind \in {"full", "ended"}
    BY <1>0, <2>1 DEF Keeping
  <2>4. o.type = "event" /\ o.id \in executed /\ o.kind \in {"full", "delta", "ended"}
    BY <2>2, <2>3 DEF Changes, IsEvent
  <2>5. SaidOf(o)' /\ ~IsReply(o, "subscribed") /\ Appended(o)
    BY <2>1, <2>2, <2>4 DEF SaidOf, IsReply, IsEvent, Appended
  <2>6. Keeping'
    BY <1>0, <2>1, <2>3 DEF Keeping, IsReply, IsEvent
  <2> QED BY <1>7, <1>10, <2>1, <2>5, <2>6
<1>11. CASE ~Spawn /\ GuestStops
  <2>1. UNCHANGED <<cache, stdout, stream, held, executed>>
    BY <1>11 DEF GuestStops, deliveryVars
  <2> QED BY <1>0, <1>2, <1>11, <2>1 DEF Keeping
<1>12. CASE ~Spawn /\ WorkerErrs
  <2>1. UNCHANGED <<cache, stream, held, executed>>
    BY <1>12 DEF WorkerErrs, Working, deliveryVars
  <2>2. Len(calls) \in Nat
    BY IdsIs DEF Handling, CallTypes
  <2>3. PICK o \in Outputs :
          /\ stdout' = Append(stdout, o)
          /\ o.type = "garbage" \/ (o.type = "reply" /\ o.kind = "error")
    BY <1>12, <2>2, ErrsIs
  <2>4. SaidOf(o)' /\ ~IsReply(o, "subscribed") /\ Appended(o) /\ Keeping'
    BY <1>0, <2>1, <2>3 DEF SaidOf, IsReply, IsEvent, Appended, Keeping
  <2> QED BY <1>7, <1>12, <2>1, <2>4
<1> QED BY <1>0, <1>1, <1>3, <1>4, <1>5, <1>6, <1>8, <1>9, <1>10, <1>11, <1>12, NextIs

LEMMA OwnedNext ==
  ASSUME Handling, Spoken, Owned, [Next]_vars
  PROVE  Owned'
<1>0. /\ view \in Nat /\ stdout \in Seq(Outputs) /\ delivery \in Credits /\ delivered \in Seq(Deliveries)
      /\ \A id \in Ids : id \in Nat \ {0} /\ calls[id] \in CallRecords
  BY IdsIs DEF Handling, CallTypes, Spoken, WindowTypes, WorkerTypes, Deliveries
<1>1. CASE Spawn
  <2>1. calls'[1].view = 0
    BY <1>1, SpawnIs
  <2> QED BY <1>1, <2>1, SpawnIs, SpawnEmpties, Empty0 DEF Owned
<1>2. ASSUME ~Spawn, NEW id, NEW lease, IsOf(id, lease)
      PROVE  IsOf(id, lease)'
  BY <1>0, <1>2, LaterIs, SaidLater
<1>3. ASSUME ~Spawn, UNCHANGED delivered, NEW i \in DOMAIN delivered
      PROVE  IsOf(delivered[i].event.id, delivered[i].view)'
  <2>1. PICK id, lease : id = delivered[i].event.id /\ lease = delivered[i].view
    OBVIOUS
  <2>2. IsOf(id, lease)'
    BY <1>2, <1>3, <2>1 DEF Owned
  <2> QED BY <1>3, <2>1, <2>2 DEF IsOf
<1>4. ASSUME ~Spawn, NEW e \in Outputs, delivered' = Append(delivered, [view |-> view, event |-> e]),
             IsOf(e.id, view)
      PROVE  \A i \in DOMAIN delivered' : IsOf(delivered[i].event.id, delivered[i].view)'
  <2>1. /\ Len(delivered) \in Nat
        /\ DOMAIN delivered = 1 .. Len(delivered) /\ DOMAIN delivered' = 1 .. Len(delivered) + 1
        /\ delivered'[Len(delivered) + 1].view = view /\ delivered'[Len(delivered) + 1].event = e
        /\ \A i \in 1 .. Len(delivered) : delivered'[i] = delivered[i]
    BY <1>0, <1>4, DeliveredIs
  <2> SUFFICES ASSUME NEW i \in DOMAIN delivered'
               PROVE  IsOf(delivered[i].event.id, delivered[i].view)'
    OBVIOUS
  <2>2. PICK id, lease : id = delivered'[i].event.id /\ lease = delivered'[i].view
    OBVIOUS
  <2>3. CASE i = Len(delivered) + 1
    <3>1. IsOf(id, lease)
      BY <1>4, <2>1, <2>2, <2>3
    <3>2. IsOf(id, lease)'
      BY <1>2, <1>4, <3>1
    <3> QED BY <2>2, <3>2 DEF IsOf
  <2>4. CASE i # Len(delivered) + 1
    <3>1. i \in DOMAIN delivered /\ delivered'[i] = delivered[i]
      BY <2>1, <2>4
    <3>2. IsOf(id, lease)
      BY <2>2, <3>1 DEF Owned
    <3>3. IsOf(id, lease)'
      BY <1>2, <1>4, <3>2
    <3> QED BY <2>2, <3>3 DEF IsOf
  <2> QED BY <2>1, <2>3, <2>4
<1>5. ASSUME ~Spawn, UNCHANGED <<calls, view>>
      PROVE  \A id \in Ids' : calls'[id].view <= view'
  BY <1>5 DEF Owned, Ids
<1>6. ASSUME ~Spawn, subscription # 0, UNCHANGED <<view, subscription>>
      PROVE  IsOf(subscription, view)'
  <2>1. PICK id, lease : id = subscription /\ lease = view
    OBVIOUS
  <2>2. IsOf(id, lease)'
    BY <1>2, <1>6, <2>1 DEF Owned
  <2> QED BY <1>6, <2>1, <2>2 DEF IsOf
<1>7. ASSUME ~Spawn, delivery'.latest # NoEvent, delivery'.latest = delivery.latest, UNCHANGED view
      PROVE  IsOf(delivery.latest.id, view)'
  <2>1. PICK id, lease : id = delivery.latest.id /\ lease = view
    OBVIOUS
  <2>2. IsOf(id, lease)'
    BY <1>2, <1>7, <2>1 DEF Owned
  <2> QED BY <1>7, <2>1, <2>2 DEF IsOf
<1>8. CASE ~Spawn /\ Admits
  <2>1. PICK kind \in AllKinds \cup {"hello", "shutdown"}, lease \in 0 .. view : Admit(kind, lease)
    BY <1>8 DEF Admits
  <2>2. UNCHANGED <<view, subscription, delivery, delivered>>
    BY <1>8 DEF Admits, viewVars, deliveryVars
  <2>3. lease \in Nat
    BY <1>0
  <2>4. PICK n : n = Len(calls) + 1
    OBVIOUS
  <2>5. /\ Ids' = Ids \cup {n} /\ \A id \in Ids : calls'[id] = calls[id]
        /\ calls'[n] = [kind |-> kind, view |-> lease]
    BY <2>1, <2>3, <2>4, AdmitIs
  <2>6. \A id \in Ids' : calls'[id].view <= view
    BY <1>0, <2>3, <2>5 DEF Owned
  <2> QED BY <1>3, <1>6, <1>7, <1>8, <2>2, <2>6 DEF Owned
<1>9. CASE ~Spawn /\ (Fails \/ Rests \/ WriterTakes \/ WriterWrites)
  <2>1. UNCHANGED <<calls, view, subscription, delivered>>
        /\ (UNCHANGED delivery \/ delivery' = Detached)
    BY <1>9 DEF Fails, Fail, Rests, WriterTakes, WriterWrites, callVars, viewVars, deliveryVars
  <2> QED BY <1>3, <1>5, <1>6, <1>7, <1>9, <2>1, Empty0 DEF Owned
<1>10. CASE ~Spawn /\ (Attach \/ Detach)
  <2>1. /\ UNCHANGED <<calls, delivered>> /\ delivery' \in {NewDelivery, Detached}
        /\ subscription' = 0 /\ view' \in {view, view + 1}
    BY <1>10 DEF Attach, Detach, callVars
  <2>2. \A id \in Ids : calls[id].view \in Nat /\ calls[id].view <= view
    BY <1>0 DEF CallRecords, Owned
  <2>3. \A id \in Ids' : calls'[id].view <= view'
    BY <1>0, <2>1, <2>2 DEF Ids
  <2> QED BY <1>3, <1>10, <2>1, <2>3, Empty0 DEF Owned
<1>11. CASE ~Spawn /\ Ack
  <2>1. UNCHANGED <<calls, view, subscription>>
    BY <1>11 DEF Ack, callVars, viewVars
  <2>2. delivery' \in Credits /\ delivery'.attached /\ delivery'.latest = NoEvent
    BY <1>0, <1>11, AckIs DEF Owned
  <2>3. CASE UNCHANGED delivered
    BY <1>3, <1>5, <1>6, <1>11, <2>1, <2>2, <2>3 DEF Owned
  <2>4. CASE delivery.latest # NoEvent
             /\ delivered' = Append(delivered, [view |-> view, event |-> delivery.latest])
    <3>1. delivery.latest \in Outputs /\ IsOf(delivery.latest.id, view)
      BY <1>0, <2>4, CreditIs DEF Owned
    <3> QED BY <1>4, <1>5, <1>6, <1>11, <2>1, <2>2, <2>4, <3>1 DEF Owned
  <2> QED BY <1>0, <1>11, <2>3, <2>4, AckIs
<1>12. CASE ~Spawn /\ ReadReply
  <2>1. PICK reply : reply = Head(stdout)
    OBVIOUS
  <2>2. /\ reply \in Outputs /\ reply.type = "reply" /\ reply.id \in pending /\ Settle(reply.id)
        /\ UNCHANGED <<view, cache, delivery, delivered>> /\ stdout # <<>>
    BY <1>0, <1>12, <2>1, ReplyIs
  <2>3. \/ subscription' = Kept(reply.guest) \/ subscription' = 0
        \/ subscription' = (IF Subscribed(reply) THEN reply.id
                            ELSE IF Unsubscribed(reply) THEN 0 ELSE subscription)
    BY <1>0, <1>12, <2>1, ReplyIs
  <2>4. \/ subscription' = 0 \/ subscription' = subscription
        \/ Subscribed(reply) /\ subscription' = reply.id
    BY <2>3 DEF Kept
  <2>5. UNCHANGED calls
    BY <2>2 DEF Settle
  <2>6. ASSUME Subscribed(reply), subscription' = reply.id
        PROVE  IsOf(subscription, view)'
    <3>1. 1 \in DOMAIN stdout /\ reply = stdout[1]
      BY <1>0, <2>1, <2>2, TailIs
    <3>2. calls[reply.id].kind = "subscribe" /\ calls[reply.id].view = view
      BY <2>2, <2>6, <3>1 DEF Subscribed, Spoken, Said, SaidOf, IsReply
    <3>3. reply.id \in Ids
      BY <2>2 DEF Handling, CallTypes
    <3>4. calls[reply.id] \in CallRecords
      BY <1>0, <3>3
    <3>5. calls[reply.id] = [kind |-> "subscribe", view |-> view]
      BY <3>2, <3>4 DEF CallRecords
    <3> QED BY <2>2, <2>5, <2>6, <3>3, <3>5 DEF IsOf, Ids
  <2> QED BY <1>3, <1>5, <1>6, <1>7, <1>12, <2>2, <2>4, <2>5, <2>6 DEF Owned
<1>13. CASE ~Spawn /\ ReadEvent
  <2>1. PICK event \in Outputs : event = Head(stdout)
    BY <1>0, <1>13, EventIs
  <2>2. event.type = "event" /\ stdout # <<>> /\ UNCHANGED <<view, calls>>
    BY <1>0, <1>13, <2>1, EventIs DEF callVars
  <2>3. event.id # 0
    <3>1. 1 \in DOMAIN stdout /\ event = stdout[1]
      BY <1>0, <2>1, <2>2, TailIs
    <3>2. event.id \in executed
      BY <2>2, <3>1 DEF Spoken, Said, SaidOf, IsEvent
    <3> QED BY <1>0, <3>2 DEF Handling, CallTypes
  <2>4. PICK kept : /\ kept = IF event.kind = "ended" THEN subscription ELSE Kept(event.guest)
                    /\ \/ /\ kept = event.id /\ delivery.attached
                          /\ Offer(Full(event), view) /\ subscription' = kept
                       \/ delivery' = Detached /\ subscription' = 0 /\ UNCHANGED delivered
                       \/ subscription' = kept /\ UNCHANGED <<delivery, delivered>>
    BY <1>0, <1>13, <2>1, EventIs
  <2>5. kept \in {0, subscription}
    BY <2>4 DEF Kept
  <2>6. CASE delivery' = Detached /\ subscription' = 0 /\ UNCHANGED delivered
    BY <1>3, <1>5, <1>13, <2>2, <2>6, Empty0 DEF Owned
  <2>7. CASE subscription' = kept /\ UNCHANGED <<delivery, delivered>>
    BY <1>3, <1>5, <1>6, <1>7, <1>13, <2>2, <2>5, <2>7 DEF Owned
  <2>8. CASE kept = event.id /\ delivery.attached /\ Offer(Full(event), view) /\ subscription' = kept
    <3>1. PICK e \in Outputs : e = Full(event) /\ e.id = event.id /\ e # NoEvent
      BY <2>3, FullIs, Empty0
    <3>2. subscription # 0 /\ subscription' = subscription /\ e.id = subscription
      BY <2>3, <2>5, <2>8, <3>1
    <3>3. /\ delivery' \in Credits /\ (delivery'.attached <=> delivery.attached)
          /\ \/ delivery'.latest = e /\ UNCHANGED delivered
             \/ /\ delivery'.latest = NoEvent
                /\ delivered' = Append(delivered, [view |-> view, event |-> e])
      BY <1>0, <2>8, <3>1, OfferIs
    <3>4. IsOf(e.id, view)
      BY <3>2 DEF Owned
    <3>5. PICK id, lease : id = e.id /\ lease = view
      OBVIOUS
    <3>6. delivery'.latest = e => IsOf(delivery.latest.id, view)'
      <4>1. IsOf(id, lease)'
        BY <1>2, <1>13, <3>4, <3>5
      <4> QED BY <2>2, <3>5, <4>1 DEF IsOf
    <3>7. IsOf(subscription, view)'
      BY <1>6, <1>13, <2>2, <3>2
    <3>8. \A i \in DOMAIN delivered' : IsOf(delivered[i].event.id, delivered[i].view)'
      BY <1>3, <1>4, <1>13, <3>3, <3>4
    <3> QED BY <1>5, <1>13, <2>2, <2>8, <3>2, <3>3, <3>6, <3>7, <3>8 DEF Owned
  <2> QED BY <2>4, <2>6, <2>7, <2>8
<1>14. CASE ~Spawn /\ (Serving \/ WorkerReleases \/ WorkerCaptures \/ WorkerSamples \/ GuestStops \/ WorkerErrs)
  <2>1. UNCHANGED <<calls, view, subscription, delivery, delivered>>
    BY <1>14, WorkerIs DEF Spoken, deliveryVars
  <2> QED BY <1>3, <1>5, <1>6, <1>7, <1>14, <2>1 DEF Owned
<1> QED BY <1>0, <1>1, <1>8, <1>9, <1>10, <1>11, <1>12, <1>13, <1>14, NextIs

LEMMA CatchesUpNext ==
  ASSUME Handling, Spoken, Owned, WindowCatchesUp, [Next]_vars
  PROVE  WindowCatchesUp'
<1>0. /\ view \in Nat /\ stdout \in Seq(Outputs) /\ delivery \in Credits /\ delivered \in Seq(Deliveries)
  BY DEF Spoken, WindowTypes, WorkerTypes, Deliveries
<1>1. CASE Spawn
  BY <1>1, SpawnEmpties DEF WindowCatchesUp
<1>2. CASE Fails \/ Attach \/ Detach
  <2>1. ~delivery'.attached \/ subscription' = 0
    BY <1>2, Empty0 DEF Fails, Fail, Attach, Detach
  <2> QED BY <2>1 DEF WindowCatchesUp
<1>3. CASE UNCHANGED <<view, subscription, cache, delivery, delivered, refused>>
  BY <1>3 DEF WindowCatchesUp
<1>4. CASE Admits \/ Rests \/ WriterTakes \/ WriterWrites
  BY <1>3, <1>4 DEF Admits, Rests, WriterTakes, WriterWrites, viewVars, deliveryVars
<1>5. CASE Serving \/ WorkerReleases \/ WorkerCaptures \/ WorkerSamples \/ GuestStops \/ WorkerErrs
  BY <1>3, <1>5, WorkerIs DEF Spoken, deliveryVars
<1>6. CASE Ack
  <2>1. UNCHANGED <<view, subscription, cache>>
    BY <1>6 DEF Ack, viewVars
  <2>2. delivery.attached /\ delivery'.latest = NoEvent
    BY <1>0, <1>6, AckIs DEF Owned
  <2>3. CASE delivery.latest = NoEvent /\ UNCHANGED delivered
    <3>1. delivery # NewDelivery
      BY <1>0, <1>6, AckIs, Empty0
    <3>2. subscription # 0 /\ cache.id = subscription => Last(delivered) = [view |-> view, event |-> cache]
      BY <2>2, <2>3, <3>1, Empty0 DEF WindowCatchesUp
    <3> QED BY <2>1, <2>2, <2>3, <3>2 DEF WindowCatchesUp
  <2>4. CASE delivery.latest # NoEvent
             /\ delivered' = Append(delivered, [view |-> view, event |-> delivery.latest])
    <3>1. subscription # 0 /\ cache.id = subscription => delivery.latest = cache
      BY <2>2, <2>4, Empty0 DEF WindowCatchesUp
    <3>2. Last(delivered') = [view |-> view, event |-> delivery.latest]
      <4>1. PICK r \in Deliveries : r = [view |-> view, event |-> delivery.latest]
        BY <1>0, CreditIs DEF Deliveries
      <4>2. delivered' = Append(delivered, r)
        BY <2>4, <4>1
      <4>3. Len(delivered') = Len(delivered) + 1 /\ delivered'[Len(delivered) + 1] = r
        BY <1>0, <4>2, AppendIs
      <4> QED BY <4>1, <4>3 DEF Last
    <3> QED BY <2>1, <2>2, <3>1, <3>2 DEF WindowCatchesUp
  <2>5. CASE delivery.latest # NoEvent /\ delivery' = NewDelivery /\ refused' = delivery.latest
    <3>1. subscription # 0 /\ cache.id = subscription => delivery.latest = cache
      BY <2>2, <2>5, Empty0 DEF WindowCatchesUp
    <3> QED BY <2>1, <2>5, <3>1 DEF WindowCatchesUp
  <2> QED BY <1>0, <1>6, <2>3, <2>4, <2>5, AckIs
<1>7. CASE ReadReply
  <2>1. PICK reply : reply = Head(stdout)
    OBVIOUS
  <2>2. /\ reply.type = "reply" /\ stdout # <<>>
        /\ UNCHANGED <<view, cache, delivery, delivered, refused>>
    BY <1>0, <1>7, <2>1, ReplyIs
  <2>3. \/ subscription' = Kept(reply.guest) \/ subscription' = 0
        \/ subscription' = (IF Subscribed(reply) THEN reply.id
                            ELSE IF Unsubscribed(reply) THEN 0 ELSE subscription)
    BY <1>0, <1>7, <2>1, ReplyIs
  <2>4. \/ subscription' = 0 \/ subscription' = subscription
        \/ Subscribed(reply) /\ subscription' = reply.id
    BY <2>3 DEF Kept
  <2>5. Subscribed(reply) => cache.id # reply.id
    <3>1. 1 \in DOMAIN stdout /\ reply = stdout[1]
      BY <1>0, <2>1, <2>2, TailIs
    <3> QED BY <2>2, <3>1 DEF Subscribed, Spoken, RepliesFirst, IsReply
  <2> QED BY <2>2, <2>4, <2>5 DEF WindowCatchesUp
<1>8. CASE ReadEvent
  <2>1. PICK event \in Outputs : event = Head(stdout)
    BY <1>0, <1>8, EventIs
  <2>2. cache' = Cached(event) /\ UNCHANGED view
    BY <1>0, <1>8, <2>1, EventIs
  <2>3. PICK kept : /\ kept = IF event.kind = "ended" THEN subscription ELSE Kept(event.guest)
                    /\ \/ /\ kept = event.id /\ delivery.attached
                          /\ Offer(Full(event), view) /\ subscription' = kept
                       \/ delivery' = Detached /\ subscription' = 0 /\ UNCHANGED delivered
                       \/ /\ ~(kept = event.id /\ delivery.attached)
                          /\ subscription' = kept /\ UNCHANGED <<delivery, delivered>>
    BY <1>0, <1>8, <2>1, EventIs
  <2>4. PICK e \in Outputs : e = Full(event) /\ e.id = event.id
    BY FullIs
  <2>5. cache' = NoEvent \/ cache' = e
    BY <2>2, <2>4 DEF Cached
  <2>6. SUFFICES ASSUME delivery'.attached, subscription' # 0, cache'.id = subscription'
                 PROVE  \/ delivery'.latest = cache' /\ delivery'.waiting # NoEvent
                        \/ delivery'.latest = NoEvent /\ Last(delivered') = [view |-> view', event |-> cache']
    BY DEF WindowCatchesUp
  <2>7. cache' = e /\ subscription' = event.id /\ e # NoEvent
    BY <2>4, <2>5, <2>6, Empty0
  <2>8. Offer(e, view)
    BY <2>3, <2>4, <2>6, <2>7
  <2>9. CASE delivery.waiting # NoEvent /\ delivery'.waiting = delivery.waiting /\ delivery'.latest = e
    BY <2>7, <2>9
  <2>10. CASE delivery'.latest = NoEvent /\ delivered' = Append(delivered, [view |-> view, event |-> e])
    <3>1. PICK r \in Deliveries : r = [view |-> view, event |-> e]
      BY <1>0 DEF Deliveries
    <3>2. delivered' = Append(delivered, r)
      BY <2>10, <3>1
    <3>3. Len(delivered') = Len(delivered) + 1 /\ delivered'[Len(delivered) + 1] = r
      BY <1>0, <3>2, AppendIs
    <3> QED BY <2>2, <2>7, <2>10, <3>1, <3>3 DEF Last
  <2> QED BY <1>0, <2>7, <2>8, <2>9, <2>10, OfferIs
<1> QED BY <1>0, <1>1, <1>2, <1>4, <1>5, <1>6, <1>7, <1>8, NextIs
-----------------------------------------------------------------------------
(* The results.                                                            *)

Told == Handling /\ Speaking /\ WindowCatchesUp

LEMMA ToldInit == Init => Told
<1> SUFFICES ASSUME Init PROVE Told
  OBVIOUS
<1>1. /\ calls = <<>> /\ stdout = <<>> /\ view = 0 /\ guest = NoGuest /\ closedSession = 0
      /\ subscription = 0 /\ cache = NoEvent /\ delivery = Detached /\ delivered = <<>>
      /\ machine = NoGuest /\ stream = NoStream /\ held = NoEvent
  BY DEF Init, DeliveryInit
<1>2. WindowTypes /\ WorkerTypes
  BY <1>1, Empty0, EmptySeq DEF WindowTypes, WorkerTypes
<1>3. Said /\ RepliesFirst
  BY <1>1, Empty0 DEF Said, RepliesFirst
<1>4. Owned
  BY <1>1, Empty0 DEF Owned, Ids
<1>5. WindowCatchesUp
  BY <1>1 DEF WindowCatchesUp
<1> QED BY <1>2, <1>3, <1>4, <1>5, HandlingInit DEF Told, Speaking

LEMMA ToldNext == Told /\ [Next]_vars => Told'
<1> SUFFICES ASSUME Told, [Next]_vars PROVE Told'
  OBVIOUS
<1>1. Handling /\ Spoken /\ Owned /\ WindowTypes /\ WorkerTypes /\ WindowCatchesUp
  BY DEF Told, Speaking, Spoken
<1>2. view \in Nat
  BY <1>1 DEF WindowTypes
<1>3. Handling'
  BY <1>1, <1>2, HandlingNext
<1>4. WindowTypes' /\ WorkerTypes'
  BY <1>1, TypesNext
<1>5. Said' /\ RepliesFirst'
  BY <1>1, SpokenNext
<1>6. Owned'
  BY <1>1, OwnedNext
<1>7. WindowCatchesUp'
  BY <1>1, CatchesUpNext
<1> QED BY <1>3, <1>4, <1>5, <1>6, <1>7 DEF Told, Speaking

LEMMA ToldAlways == Spec => []Told
BY ToldInit, ToldNext, PTL DEF Spec

(***************************************************************************)
(* Every observation a window was sent belongs to a subscription it asked  *)
(* for itself, whatever is still on its way from before it was attached    *)
(* (src-tauri/src/supervisor.rs read, connect): the subscription compared  *)
(* with an event is of the lease attached last.                            *)
(***************************************************************************)
THEOREM EventsToTheirOwner == Spec => []DeliveredToOwner
<1>1. Told => DeliveredToOwner
  BY DEF Told, Speaking, Owned, IsOf, DeliveredToOwner
<1> QED BY <1>1, ToldAlways, PTL

(***************************************************************************)
(* The sample cached for the subscription of the attached window was the   *)
(* last one sent to it, waits for the credit of another one, or was lost   *)
(* by a channel that refused it on an acknowledgement; then the window has *)
(* its whole credit, and nothing is kept before the next sample            *)
(* (src-tauri/src/supervisor/delivery.rs offer, acknowledge, flush).  The  *)
(* reply to a subscription comes before its events, so that a subscription *)
(* begins with none of them cached.                                        *)
(***************************************************************************)
THEOREM CreditHoldsNewest == Spec => []WindowCatchesUp
<1>1. Told => WindowCatchesUp
  BY DEF Told
<1> QED BY <1>1, ToldAlways, PTL

(***************************************************************************)
(* The supervisor implements Calls: a call is executed at most once, and   *)
(* settled exactly once, by its answer or by the failure of the            *)
(* connection, and one settled as not run is never executed                *)
(* (src-tauri/src/supervisor.rs Shared::fail, write, read; docs/protocol.md*)
(* "any request whose pipe write began").                                  *)
(***************************************************************************)
THEOREM SupervisorImplementsCalls == Spec => ImplementsCalls
<1>1. Init => Promise!CallsInit
  <2>1. Init => [id \in Ids |-> Outcome(id)] = <<>> /\ executed = {}
    BY DEF Init, Ids
  <2> QED BY <2>1 DEF Promise!CallsInit
<1>2. Told /\ Told' /\ [Next]_vars => [Promise!CallsNext]_(Promise!callsVars)
  BY CallsImplemented DEF Told, Speaking, WindowTypes
<1> QED BY <1>1, <1>2, ToldAlways, PTL DEF Spec, ImplementsCalls, Promise!CallsSpec
-----------------------------------------------------------------------------
(* Without a defective worker: every reply on its way is awaited.          *)

LEMMA FailureIs ==
  ASSUME Handling, view \in Nat, [Next]_vars
  PROVE  \/ DropFails \/ WriterRejects \/ WriterBreaks \/ ReaderRejects \/ ReaderEnds \/ Watchdog
         \/ failure' \in {failure, "none"}
<1>1. CASE UNCHANGED vars
  BY <1>1 DEF vars, callVars
<1>2. CASE Request \/ BeginDrop
  BY <1>2 DEF Request, BeginDrop, Admit, callVars
<1>3. CASE Connected \/ Dropped \/ Kill \/ WorkerExits \/ Attach \/ Detach \/ Ack \/ WriterTakes
           \/ WriterWrites \/ WorkerReleases \/ WorkerCaptures \/ WorkerSamples \/ GuestStops \/ WorkerErrs
  BY <1>3 DEF Connected, Dropped, Kill, WorkerExits, Attach, Detach, Ack, WriterTakes, WriterWrites,
     WorkerReleases, WorkerCaptures, WorkerSamples, GuestStops, WorkerErrs, Working, callVars
<1>4. CASE Spawn
  BY <1>4, SpawnIs
<1>5. CASE Serving
  BY <1>5, ServingIs
<1>6. CASE ReadReply \/ ReadEvent
  BY <1>6 DEF ReadReply, ReadEvent, Settle, callVars
<1> QED BY <1>1, <1>2, <1>3, <1>4, <1>5, <1>6 DEF Next, Window, Lifetime, Writer, Reader, Worker, Serving

LEMMA HeadApplies ==
  ASSUME stdout \in Seq(Outputs), stdout # <<>>, Chained, IsEvent(Head(stdout))
  PROVE  Applicable(Head(stdout))
<1>1. 1 \in DOMAIN stdout /\ Head(stdout) = stdout[1]
  BY TailIs
<1>2. SUFFICES ASSUME stdout[1].kind = "delta"
               PROVE  Applicable(stdout[1])
  BY <1>1 DEF Applicable
<1>3. PICK p \in 0 .. Len(stdout) : LastBefore(1, p) /\ Fit(FullAt(p), stdout[1])
  BY <1>1, <1>2 DEF Chained, Deltas
<1>4. p = 0
  BY <1>3 DEF LastBefore
<1> QED BY <1>3, <1>4 DEF FullAt, Fit, Applicable, SameKey

LEMMA NoProtocolFailure ==
  ASSUME Sound, Handling, Spoken, Awaited, Chained, [Next]_vars
  PROVE  failure' # "protocol"
<1>0. view \in Nat /\ stdout \in Seq(Outputs)
  BY DEF Spoken, WindowTypes, WorkerTypes
<1>1. CASE DropFails \/ WriterBreaks \/ ReaderEnds
  BY <1>1 DEF DropFails, WriterBreaks, ReaderEnds, ThreadFails, Fail
<1>2. CASE Watchdog
  <2>1. ~ResourcesExceeded
    BY DEF Sound, ResourcesExceeded
  <2> QED BY <1>2, <2>1 DEF Watchdog, WatchdogCalls, WatchdogRun, ThreadFails, Fail
<1>3. CASE WriterRejects
  <2>1. failure = "none" /\ queue # <<>> /\ Head(queue) \notin pending
    BY <1>3 DEF WriterRejects, ThreadFails, Fail
  <2>2. queue \in Seq(Nat)
    BY DEF Handling, CallTypes
  <2>3. 1 \in DOMAIN queue /\ Head(queue) = queue[1]
    BY <2>1, <2>2, TailIs
  <2> QED BY <2>1, <2>3 DEF Awaited, Waiting
<1>4. CASE ReaderRejects
  <2>1. failure = "none" /\ stdout # <<>>
    BY <1>4 DEF ReaderRejects, ThreadFails, Fail
  <2>2. 1 \in DOMAIN stdout /\ Head(stdout) = stdout[1]
    BY <1>0, <2>1, TailIs
  <2>3. /\ Head(stdout).type \in {"reply", "event"}
        /\ Head(stdout).type = "reply" => Head(stdout).id \in pending
    BY <2>1, <2>2 DEF Awaited, Answering
  <2>4. Head(stdout).type = "event" => Applicable(Head(stdout))
    BY <1>0, <2>1, HeadApplies DEF IsEvent
  <2> QED BY <1>4, <2>3, <2>4 DEF ReaderRejects
<1>5. CASE failure' \in {failure, "none"}
  BY <1>5 DEF Awaited
<1> QED BY <1>0, <1>1, <1>2, <1>3, <1>4, <1>5, FailureIs

LEMMA WaitingNext ==
  ASSUME Handling, view \in Nat, stdout \in Seq(Outputs), [Next]_vars, failure' = "none",
         failure = "none" => Waiting /\ Answering
  PROVE  Waiting'
<1>0. queue \in Seq(Nat) /\ stdin \in Seq(Nat)
  BY DEF Handling, CallTypes
<1>1. CASE Spawn
  <2>1. DOMAIN stdin' = {}
    BY <1>1, SpawnIs
  <2> QED BY <1>1, <2>1, SpawnIs DEF Waiting
<1>2. CASE Admits
  <2>1. PICK kind \in AllKinds \cup {"hello", "shutdown"}, lease \in Nat : Admit(kind, lease)
    BY <1>2 DEF Admits
  <2>2. PICK n : n = Len(calls) + 1
    OBVIOUS
  <2>3. /\ pending' = pending \cup {n} /\ queue' = Append(queue, n) /\ failure = "none" /\ n \in Nat
        /\ UNCHANGED <<stdin, writing>>
    BY <1>2, <2>1, <2>2, AdmitIs DEF Admits
  <2>4. \A i \in DOMAIN queue' : queue'[i] \in pending'
    <3>1. /\ DOMAIN queue = 1 .. Len(queue) /\ DOMAIN queue' = 1 .. Len(queue) + 1 /\ Len(queue) \in Nat
          /\ queue'[Len(queue) + 1] = n /\ \A i \in 1 .. Len(queue) : queue'[i] = queue[i]
      BY <1>0, <2>3, AppendIs
    <3>2. \A i \in 1 .. Len(queue) + 1 : i = Len(queue) + 1 \/ i \in 1 .. Len(queue)
      BY <3>1
    <3> QED BY <2>3, <3>1, <3>2 DEF Waiting
  <2> QED BY <2>3, <2>4 DEF Waiting
<1>3. CASE Fails
  BY <1>3 DEF Fails, Fail
<1>4. CASE UNCHANGED <<failure, pending, queue, stdin, writing>>
  BY <1>4 DEF Waiting
<1>5. CASE Rests \/ Attach \/ Detach \/ Ack \/ WorkerReleases \/ WorkerCaptures \/ WorkerSamples
           \/ GuestStops \/ WorkerErrs
  BY <1>4, <1>5 DEF Rests, Attach, Detach, Ack, WorkerReleases, WorkerCaptures, WorkerSamples, GuestStops,
     WorkerErrs, Working, callVars, threadVars
<1>6. CASE WriterTakes
  <2>1. /\ queue # <<>> /\ queue' = Tail(queue) /\ writing' = Head(queue)
        /\ UNCHANGED <<pending, stdin, failure>>
    BY <1>6 DEF WriterTakes
  <2>2. /\ Len(queue) \in Nat \ {0} /\ DOMAIN queue = 1 .. Len(queue) /\ Head(queue) = queue[1]
        /\ DOMAIN queue' = 1 .. Len(queue) - 1
        /\ \A i \in 1 .. Len(queue) - 1 : queue'[i] = queue[i + 1]
    BY <1>0, <2>1, TailIs
  <2>3. \A i \in DOMAIN queue' : i + 1 \in DOMAIN queue
    BY <2>2
  <2> QED BY <2>1, <2>2, <2>3 DEF Waiting
<1>7. CASE WriterWrites
  <2>1. /\ stdin' = Append(stdin, writing) /\ writing' = 0 /\ writing # 0
        /\ UNCHANGED <<pending, queue, failure>>
    BY <1>7 DEF WriterWrites, callVars
  <2>2. /\ DOMAIN stdin = 1 .. Len(stdin) /\ DOMAIN stdin' = 1 .. Len(stdin) + 1 /\ Len(stdin) \in Nat
        /\ stdin'[Len(stdin) + 1] = writing /\ \A i \in 1 .. Len(stdin) : stdin'[i] = stdin[i]
    BY <1>0, <2>1, AppendIs DEF Handling, CallTypes
  <2>3. \A i \in 1 .. Len(stdin) + 1 : i = Len(stdin) + 1 \/ i \in 1 .. Len(stdin)
    BY <2>2
  <2> QED BY <2>1, <2>2, <2>3 DEF Waiting
<1>8. CASE ReadReply
  <2>1. PICK reply : reply = Head(stdout)
    OBVIOUS
  <2>2. /\ reply.type = "reply" /\ Settle(reply.id) /\ failure = "none" /\ stdout # <<>>
        /\ UNCHANGED <<queue, stdin, writing>>
    BY <1>8, <2>1, ReplyIs
  <2>3. 1 \in DOMAIN stdout /\ reply = stdout[1]
    BY <2>1, <2>2, TailIs
  <2>4. reply.id \in executed /\ reply.id \in started /\ reply.id \in Nat
    BY <2>2, <2>3, IdsIs DEF Answering, Handling, CallTypes
  <2>5. pending' = pending \ {reply.id}
    BY <2>2 DEF Settle
  <2>6. \A i \in DOMAIN queue : queue[i] # reply.id
    BY <2>4 DEF Handling, InOrder
  <2>7. \A i \in DOMAIN stdin : stdin[i] # reply.id
    BY <2>4 DEF Handling, InOrder
  <2>8. writing # 0 => writing # reply.id
    BY <2>4 DEF Handling, InOrder
  <2> QED BY <2>2, <2>5, <2>6, <2>7, <2>8 DEF Waiting
<1>9. CASE ReadEvent
  <2>1. PICK event : event = Head(stdout)
    OBVIOUS
  <2> QED BY <1>4, <1>9, <2>1, EventIs DEF callVars
<1>10. CASE Serving
  <2>1. \A i \in DOMAIN stdin' : \E j \in DOMAIN stdin : stdin'[i] = stdin[j]
    BY <1>10, ServingIs, ServeHandling
  <2> QED BY <1>10, <2>1, ServingIs DEF Waiting
<1> QED BY <1>1, <1>2, <1>3, <1>5, <1>6, <1>7, <1>8, <1>9, <1>10, NextIs

(* The pipe with one message more. *)
LEMMA AnsweringAppended ==
  ASSUME stdout \in Seq(Outputs), Answering, NEW o, Appended(o), pending \subseteq pending',
         executed \subseteq executed', held' = held \/ held' = NoEvent,
         \/ o.type = "event"
         \/ /\ o.type = "reply" /\ o.id \in pending' \cap executed'
            /\ \A i \in DOMAIN stdout : stdout[i].type = "reply" => stdout[i].id # o.id
            /\ held' # NoEvent => o.id # held.id
  PROVE  Answering'
<1> DEFINE l == Len(stdout)
<1>1. /\ DOMAIN stdout = 1 .. l /\ DOMAIN stdout' = 1 .. l + 1 /\ l \in Nat
      /\ stdout'[l + 1] = o /\ \A i \in 1 .. l : stdout'[i] = stdout[i]
  BY AppendIs DEF Appended
<1> HIDE DEF l
<1>2. \A i \in 1 .. l + 1 : i = l + 1 \/ i \in 1 .. l
  BY <1>1
<1>3. \A i \in DOMAIN stdout' :
        /\ stdout'[i].type \in {"reply", "event"}
        /\ stdout'[i].type = "reply" => stdout'[i].id \in pending' \cap executed'
  BY <1>1, <1>2 DEF Answering
<1>4. ASSUME NEW i \in DOMAIN stdout', NEW j \in DOMAIN stdout', stdout'[i].type = "reply",
             stdout'[j].type = "reply", stdout'[i].id = stdout'[j].id
      PROVE  i = j
  <2>1. CASE i \in 1 .. l /\ j \in 1 .. l
    BY <1>1, <1>4, <2>1 DEF Answering
  <2>2. CASE i \in 1 .. l /\ j = l + 1
    BY <1>1, <1>4, <2>2
  <2>3. CASE i = l + 1 /\ j \in 1 .. l
    BY <1>1, <1>4, <2>3
  <2> QED BY <1>1, <1>2, <2>1, <2>2, <2>3
<1>5. held' # NoEvent =>
        /\ held'.id \in pending' \cap executed'
        /\ \A i \in DOMAIN stdout' : stdout'[i].type = "reply" => stdout'[i].id # held'.id
  <2> SUFFICES ASSUME held' # NoEvent, NEW i \in DOMAIN stdout'
               PROVE  stdout'[i].type = "reply" => stdout'[i].id # held'.id
    <3>1. held' # NoEvent => held'.id \in pending' \cap executed'
      BY DEF Answering
    <3> QED BY <3>1
  <2>1. held' = held
    OBVIOUS
  <2>2. CASE i \in 1 .. l
    BY <1>1, <2>1, <2>2 DEF Answering
  <2>3. CASE i = l + 1
    <3>1. o.type = "reply" => o.id # held.id
      OBVIOUS
    <3> QED BY <1>1, <2>1, <2>3, <3>1 DEF Answering
  <2> QED BY <1>1, <1>2, <2>2, <2>3
<1> QED BY <1>3, <1>4, <1>5 DEF Answering

LEMMA AnsweringSame ==
  ASSUME Answering, UNCHANGED <<stdout, held>>, pending \subseteq pending', executed \subseteq executed'
  PROVE  Answering'
BY DEF Answering

LEMMA AnsweringNext ==
  ASSUME Sound, Handling, Spoken, [Next]_vars, failure' = "none",
         failure = "none" => Waiting /\ Answering
  PROVE  Answering'
<1>0. view \in Nat /\ stdout \in Seq(Outputs) /\ stream \in Streams /\ held \in Outputs /\ machine \in Guests
      /\ Keeping
  BY DEF Spoken, WindowTypes, WorkerTypes, Said, Keeping
<1>1. CASE Spawn
  <2>1. DOMAIN stdout' = {} /\ held' = NoEvent
    BY <1>1, SpawnEmpties
  <2> QED BY <2>1 DEF Answering
<1>2. CASE Admits
  <2>1. PICK kind \in AllKinds \cup {"hello", "shutdown"}, lease \in Nat : Admit(kind, lease)
    BY <1>2 DEF Admits
  <2>2. failure = "none" /\ pending \subseteq pending' /\ UNCHANGED <<stdout, held, executed>>
    BY <1>2, <2>1 DEF Admit, Admits, workerVars
  <2> QED BY <2>2, AnsweringSame
<1>3. CASE Fails
  BY <1>3 DEF Fails, Fail
<1>4. CASE Rests \/ Attach \/ Detach \/ Ack \/ WriterTakes \/ WriterWrites \/ GuestStops
  <2>1. UNCHANGED <<failure, pending, stdout, held, executed>>
    BY <1>4 DEF Rests, Attach, Detach, Ack, WriterTakes, WriterWrites, GuestStops, callVars, workerVars
  <2> QED BY <2>1, AnsweringSame
<1>5. CASE ReadReply \/ ReadEvent
  <2>1. PICK o : o = Head(stdout)
    OBVIOUS
  <2>2. /\ failure = "none" /\ stdout # <<>> /\ stdout' = Tail(stdout) /\ UNCHANGED <<held, executed>>
        /\ \/ pending' = pending /\ o.type = "event"
           \/ pending' = pending \ {o.id} /\ o.type = "reply"
    BY <1>0, <1>5, <2>1, ReplyIs, EventIs DEF Settle, callVars
  <2> DEFINE l == Len(stdout)
  <2>3. /\ l \in Nat \ {0} /\ DOMAIN stdout = 1 .. l /\ DOMAIN stdout' = 1 .. l - 1 /\ o = stdout[1]
        /\ \A i \in 1 .. l - 1 : stdout'[i] = stdout[i + 1]
    BY <1>0, <2>1, <2>2, TailIs
  <2> HIDE DEF l
  <2>4. Answering
    BY <2>2
  <2>5. \A i \in DOMAIN stdout' : i + 1 \in DOMAIN stdout /\ stdout'[i] = stdout[i + 1]
                                  /\ 1 \in DOMAIN stdout /\ i + 1 # 1
    BY <2>3
  <2>6. ASSUME NEW i \in DOMAIN stdout'
        PROVE  /\ stdout'[i].type \in {"reply", "event"}
               /\ stdout'[i].type = "reply" => stdout'[i].id \in pending' \cap executed'
    BY <2>2, <2>3, <2>4, <2>5 DEF Answering
  <2>7. ASSUME NEW i \in DOMAIN stdout', NEW j \in DOMAIN stdout', stdout'[i].type = "reply",
               stdout'[j].type = "reply", stdout'[i].id = stdout'[j].id
        PROVE  i = j
    <3>1. i + 1 = j + 1
      BY <2>4, <2>5, <2>7 DEF Answering
    <3> QED BY <2>3, <3>1
  <2>8. held' # NoEvent =>
          /\ held'.id \in pending' \cap executed'
          /\ \A i \in DOMAIN stdout' : stdout'[i].type = "reply" => stdout'[i].id # held'.id
    <3>1. 1 \in DOMAIN stdout
      BY <2>3
    <3> QED BY <2>2, <2>3, <2>4, <2>5, <3>1 DEF Answering
  <2> QED BY <2>6, <2>7, <2>8 DEF Answering
<1>6. CASE Serving
  <2>1. PICK id : id = Head(stdin)
    OBVIOUS
  <2>2. /\ id \in Nat \ {0} /\ id \notin executed /\ executed' = executed \cup {id}
        /\ \/ \E word : Plain(id, word)
           \/ Shows(id) \/ Ends(id) \/ Silences(id) \/ Streaming(id)
    BY <1>6, <2>1, ServingSays DEF Spoken
  <2>3. UNCHANGED <<pending, failure>> /\ stdin # <<>>
    BY <1>6, ServingIs
  <2>4. Answering /\ id \in pending
    <3>1. 1 \in DOMAIN stdin /\ id = stdin[1]
      BY <2>1, <2>3, TailIs DEF Handling, CallTypes
    <3> QED BY <2>3, <3>1 DEF Waiting
  <2>5. /\ \A i \in DOMAIN stdout : stdout[i].type = "reply" => stdout[i].id # id
        /\ held # NoEvent => held.id # id
    BY <2>2, <2>4 DEF Answering
  <2>6. CASE UNCHANGED held /\ \E o : Appended(o) /\ o.type = "reply" /\ o.id = id
    <3>1. PICK o : Appended(o) /\ o.type = "reply" /\ o.id = id /\ UNCHANGED held
      BY <2>6
    <3> QED BY <1>0, <2>2, <2>3, <2>4, <2>5, <3>1, AnsweringAppended
  <2>7. CASE UNCHANGED stdout /\ held = NoEvent /\ held'.id = id
    BY <2>2, <2>3, <2>4, <2>5, <2>7 DEF Answering
  <2>8. CASE Shows(id)
    BY <2>6, <2>7, <2>8 DEF Shows, Appended
  <2> QED BY <2>2, <2>6, <2>8 DEF Plain, Ends, Silences, Streaming, Appended
<1>7. CASE WorkerReleases
  <2>1. /\ stdout' = Append(stdout, held) /\ held' = NoEvent /\ held # NoEvent
        /\ UNCHANGED <<pending, failure, executed>>
    BY <1>7 DEF WorkerReleases, Says, Working, callVars
  <2>2. IsReply(held, "observed") /\ Answering
    BY <1>0, <2>1 DEF Keeping
  <2>3. PICK o \in Outputs : o = held
    BY <1>0
  <2>4. /\ o.type = "reply" /\ o.id \in pending' \cap executed' /\ Appended(o)
        /\ \A i \in DOMAIN stdout : stdout[i].type = "reply" => stdout[i].id # o.id
    BY <2>1, <2>2, <2>3 DEF Answering, IsReply, Appended
  <2> QED BY <1>0, <2>1, <2>2, <2>4, AnsweringAppended
<1>8. CASE WorkerCaptures
  <2>1. UNCHANGED <<pending, failure, stdout, held, executed>>
    BY <1>0, <1>8, CapturesIs DEF WorkerCaptures, Working, callVars
  <2> QED BY <2>1, AnsweringSame
<1>9. CASE WorkerSamples
  <2>1. /\ UNCHANGED <<pending, failure, held, executed>> /\ stream.latest # NoEvent
    BY <1>0, <1>9, SamplesIs DEF WorkerSamples, Working, callVars
  <2>2. PICK o \in Outputs : stdout' = Append(stdout, o) /\ (o = stream.latest \/ Changes(o, stream.latest))
    BY <1>0, <1>9, SamplesIs
  <2>3. o.type = "event" /\ Appended(o)
    BY <1>0, <2>1, <2>2 DEF Changes, IsEvent, Appended, Keeping
  <2> QED BY <1>0, <2>1, <2>3, AnsweringAppended
<1>10. CASE WorkerErrs
  BY <1>10 DEF WorkerErrs, Sound
<1> QED BY <1>0, <1>1, <1>2, <1>3, <1>4, <1>5, <1>6, <1>7, <1>8, <1>9, <1>10, NextIs

LEMMA AwaitedNext ==
  ASSUME Sound, Handling, Spoken, Awaited, Chained, [Next]_vars
  PROVE  Awaited'
<1>1. failure' # "protocol"
  BY NoProtocolFailure
<1>2. view \in Nat /\ stdout \in Seq(Outputs) /\ (failure = "none" => Waiting /\ Answering)
  BY DEF Spoken, WindowTypes, WorkerTypes, Awaited
<1>3. ASSUME failure' = "none" PROVE Waiting' /\ Answering'
  BY <1>2, <1>3, WaitingNext, AnsweringNext
<1> QED BY <1>1, <1>3 DEF Awaited
-----------------------------------------------------------------------------
(* Without a defective worker: each delta has its base.                    *)

LEMMA LastAppended ==
  ASSUME stdout \in Seq(Outputs), NEW o, Appended(o), UNCHANGED cache,
         NEW k \in 1 .. Len(stdout) + 1, NEW p, LastBefore(k, p)
  PROVE  /\ p \in 0 .. Len(stdout) /\ p \in 0 .. Len(stdout')
         /\ LastBefore(k, p)' /\ FullAt(p)' = FullAt(p)
         /\ k = Len(stdout) + 1 /\ ~IsEvent(o) => LastBefore(k + 1, p)'
<1> DEFINE l == Len(stdout)
<1>1. /\ DOMAIN stdout = 1 .. l /\ DOMAIN stdout' = 1 .. l + 1 /\ l \in Nat /\ Len(stdout') = l + 1
      /\ stdout'[l + 1] = o /\ \A i \in 1 .. l : stdout'[i] = stdout[i]
  BY AppendIs DEF Appended
<1> HIDE DEF l
<1>2. p \in 0 .. k - 1 /\ k \in 1 .. l + 1
  BY DEF LastBefore, l
<1>3. p \in 0 .. l /\ p \in 0 .. l + 1 /\ k \in Nat
  BY <1>1, <1>2
<1>4. \A q \in 1 .. l + 1 : q < k => q \in 1 .. l
  BY <1>1, <1>2
<1>5. p # 0 => p \in 1 .. l
  BY <1>3
<1>6. FullAt(p)' = FullAt(p)
  BY <1>1, <1>5 DEF FullAt
<1>7. p # 0 => IsEvent(stdout'[p]) /\ stdout'[p].kind # "ended"
  BY <1>1, <1>5 DEF LastBefore
<1>8. \A q \in DOMAIN stdout' : p < q /\ q < k => ~IsEvent(stdout'[q])
  BY <1>1, <1>4 DEF LastBefore
<1>9. LastBefore(k, p)'
  BY <1>2, <1>7, <1>8 DEF LastBefore
<1>10. ASSUME k = l + 1, ~IsEvent(o) PROVE LastBefore(k + 1, p)'
  <2>1. p \in 0 .. (k + 1) - 1
    BY <1>2, <1>3
  <2>2. ASSUME NEW q \in DOMAIN stdout', p < q, q < k + 1 PROVE ~IsEvent(stdout'[q])
    <3>1. CASE q = l + 1
      BY <1>1, <1>10, <3>1
    <3>2. CASE q # l + 1
      <4>1. q < k
        BY <1>1, <1>10, <3>2
      <4> QED BY <1>8, <2>2, <4>1
    <3> QED BY <3>1, <3>2
  <2> QED BY <1>7, <2>1, <2>2 DEF LastBefore
<1> QED BY <1>1, <1>3, <1>6, <1>9, <1>10 DEF l

LEMMA LastTail ==
  ASSUME stdout \in Seq(Outputs), stdout # <<>>, stdout' = Tail(stdout),
         \/ UNCHANGED cache /\ ~IsEvent(Head(stdout))
         \/ cache' = Cached(Head(stdout)) /\ IsEvent(Head(stdout)),
         NEW k \in 2 .. Len(stdout) + 1, NEW p, LastBefore(k, p)
  PROVE  \E q \in 0 .. Len(stdout') :
           LastBefore(k - 1, q)' /\ FullAt(q)'.id = FullAt(p).id /\ FullAt(q)'.guest = FullAt(p).guest
<1> DEFINE l == Len(stdout)
<1>1. /\ l \in Nat \ {0} /\ DOMAIN stdout = 1 .. l /\ DOMAIN stdout' = 1 .. l - 1 /\ Len(stdout') = l - 1
      /\ Head(stdout) = stdout[1] /\ stdout[1] \in Outputs
      /\ \A i \in 1 .. l - 1 : stdout'[i] = stdout[i + 1]
  BY TailIs
<1> HIDE DEF l
<1>2. p \in 0 .. k - 1 /\ k \in 2 .. l + 1 /\ k \in Nat /\ 1 \in DOMAIN stdout
  BY <1>1 DEF LastBefore, l
<1>3. /\ p # 0 => IsEvent(stdout[p]) /\ stdout[p].kind # "ended"
      /\ \A q \in DOMAIN stdout : p < q /\ q < k => ~IsEvent(stdout[q])
  BY DEF LastBefore
<1>4. ASSUME NEW q \in 0 .. l - 1, \A i \in 1 .. l - 1 : q < i => p < i + 1
      PROVE  \A i \in DOMAIN stdout' : q < i /\ i < k - 1 => ~IsEvent(stdout'[i])
  <2> SUFFICES ASSUME NEW i \in DOMAIN stdout', q < i, i < k - 1 PROVE ~IsEvent(stdout'[i])
    OBVIOUS
  <2>0. i \in 1 .. l - 1 /\ i + 1 \in 1 .. l
    <3>1. i \in 1 .. l - 1 /\ l \in Nat
      BY <1>1
    <3> QED BY <3>1, Shifted
  <2>1. i + 1 \in DOMAIN stdout /\ stdout'[i] = stdout[i + 1]
    BY <1>1, <2>0
  <2>2. i \in Nat /\ k \in Nat
    <3>1. 1 .. l - 1 \subseteq Nat
      BY <1>1
    <3> QED BY <1>2, <2>0, <3>1
  <2>3. i + 1 < k
    BY <2>2
  <2> QED BY <1>3, <1>4, <2>0, <2>1, <2>3
<1>5. CASE p \in {0, 1}
  <2>1. FullAt(0)'.id = FullAt(p).id /\ FullAt(0)'.guest = FullAt(p).guest
    <3>1. CASE IsEvent(stdout[1])
      <4>1. p = 1
        BY <1>2, <1>3, <1>5, <3>1
      <4>2. cache' = Full(stdout[1])
        BY <1>1, <1>3, <3>1, <4>1 DEF Cached
      <4> QED BY <1>1, <4>1, <4>2, FullIs DEF FullAt
    <3>2. CASE ~IsEvent(stdout[1])
      <4>1. p = 0 /\ cache' = cache
        BY <1>1, <1>3, <1>5, <3>2
      <4> QED BY <4>1 DEF FullAt
    <3> QED BY <3>1, <3>2
  <2>2. 0 \in 0 .. l - 1 /\ 0 \in 0 .. (k - 1) - 1
    BY <1>1, <1>2
  <2>3. \A i \in 1 .. l - 1 : 0 < i => p < i + 1
    BY <1>1, <1>5
  <2>4. LastBefore(k - 1, 0)'
    BY <1>4, <2>2, <2>3 DEF LastBefore
  <2> QED BY <1>1, <2>1, <2>2, <2>4
<1>6. CASE p \notin {0, 1}
  <2>1. p \in Nat /\ p - 1 \in 1 .. l - 1 /\ p - 1 \in 0 .. l - 1 /\ p - 1 \in 0 .. (k - 1) - 1 /\ p - 1 # 0
        /\ (p - 1) + 1 = p
    BY <1>1, <1>2, <1>6
  <2>2. stdout'[p - 1] = stdout[p]
    BY <1>1, <2>1
  <2>3. \A i \in 1 .. l - 1 : p - 1 < i => p < i + 1
    BY <1>1, <2>1
  <2>4. LastBefore(k - 1, p - 1)'
    BY <1>3, <1>4, <2>1, <2>2, <2>3 DEF LastBefore
  <2>5. FullAt(p - 1)' = FullAt(p)
    BY <2>1, <2>2 DEF FullAt
  <2> QED BY <1>1, <2>1, <2>4, <2>5
<1> QED BY <1>5, <1>6

LEMMA DeltasTail ==
  ASSUME stdout \in Seq(Outputs), stdout # <<>>, stdout' = Tail(stdout), UNCHANGED stream,
         \/ UNCHANGED cache /\ ~IsEvent(Head(stdout))
         \/ cache' = Cached(Head(stdout)) /\ IsEvent(Head(stdout)),
         Deltas, Based
  PROVE  Deltas' /\ Based'
<1> DEFINE l == Len(stdout)
<1>1. /\ l \in Nat \ {0} /\ DOMAIN stdout = 1 .. l /\ DOMAIN stdout' = 1 .. l - 1 /\ Len(stdout') = l - 1
      /\ \A i \in 1 .. l - 1 : stdout'[i] = stdout[i + 1]
  BY TailIs
<1> HIDE DEF l
<1>2. Deltas'
  <2> SUFFICES ASSUME NEW i \in DOMAIN stdout', IsEvent(stdout'[i]), stdout'[i].kind = "delta"
               PROVE  \E q \in 0 .. Len(stdout') : LastBefore(i, q)' /\ Fit(FullAt(q)', stdout'[i])
    BY DEF Deltas
  <2>0. i \in 1 .. l - 1 /\ i + 1 \in 1 .. l
    <3>1. i \in 1 .. l - 1 /\ l \in Nat
      BY <1>1
    <3> QED BY <3>1, Shifted
  <2>1. /\ i + 1 \in DOMAIN stdout /\ stdout'[i] = stdout[i + 1]
        /\ i + 1 \in 2 .. l + 1 /\ (i + 1) - 1 = i
    <3>0. l \in Nat
      BY <1>1
    <3>1. i + 1 \in 2 .. l + 1 /\ (i + 1) - 1 = i
      BY <2>0, <3>0, Shifted
    <3> QED BY <1>1, <2>0, <3>1
  <2>2. PICK p : LastBefore(i + 1, p) /\ Fit(FullAt(p), stdout[i + 1])
    BY <2>1 DEF Deltas
  <2>3. PICK k \in 2 .. l + 1 : k = i + 1 /\ k - 1 = i
    BY <2>1
  <2>4. LastBefore(k, p)
    BY <2>2, <2>3
  <2>5. PICK q \in 0 .. Len(stdout') :
          LastBefore(k - 1, q)' /\ FullAt(q)'.id = FullAt(p).id /\ FullAt(q)'.guest = FullAt(p).guest
    BY <2>4, LastTail DEF l
  <2>6. Fit(FullAt(q)', stdout'[i])
    BY <2>1, <2>2, <2>5 DEF Fit
  <2> QED BY <2>3, <2>5, <2>6
<1>3. Based'
  <2> SUFFICES ASSUME stream.base # NoEvent
               PROVE  \E q \in 0 .. Len(stdout') :
                        /\ \E n : n = Len(stdout') + 1 /\ LastBefore(n, q)'
                        /\ FullAt(q)'.id = stream.base.id /\ FullAt(q)'.guest = stream.base.guest
    BY DEF Based, LastBefore
  <2>1. PICK p : /\ LastBefore(Len(stdout) + 1, p)
                 /\ FullAt(p).id = stream.base.id /\ FullAt(p).guest = stream.base.guest
    BY DEF Based
  <2>2. PICK k \in 2 .. l + 1 : k = l + 1 /\ k - 1 = Len(stdout') + 1
    BY <1>1
  <2>3. LastBefore(k, p)
    BY <2>1, <2>2 DEF l
  <2>4. PICK q \in 0 .. Len(stdout') :
          LastBefore(k - 1, q)' /\ FullAt(q)'.id = FullAt(p).id /\ FullAt(q)'.guest = FullAt(p).guest
    BY <2>3, LastTail DEF l
  <2> QED BY <2>1, <2>2, <2>4
<1> QED BY <1>2, <1>3

LEMMA DeltasAppended ==
  ASSUME stdout \in Seq(Outputs), NEW o, Appended(o), UNCHANGED cache, Deltas,
         IsEvent(o) /\ o.kind = "delta" =>
            \E p : LastBefore(Len(stdout) + 1, p) /\ Fit(FullAt(p), o)
  PROVE  Deltas'
<1> DEFINE l == Len(stdout)
<1>1. /\ DOMAIN stdout = 1 .. l /\ DOMAIN stdout' = 1 .. l + 1 /\ l \in Nat /\ Len(stdout') = l + 1
      /\ stdout'[l + 1] = o /\ \A i \in 1 .. l : stdout'[i] = stdout[i]
  BY AppendIs DEF Appended
<1> HIDE DEF l
<1> SUFFICES ASSUME NEW i \in DOMAIN stdout', IsEvent(stdout'[i]), stdout'[i].kind = "delta"
             PROVE  \E q \in 0 .. Len(stdout') : LastBefore(i, q)' /\ Fit(FullAt(q)', stdout'[i])
  BY DEF Deltas
<1>2. PICK p : LastBefore(i, p) /\ Fit(FullAt(p), stdout'[i])
  <2>1. CASE i = l + 1
    BY <1>1, <2>1 DEF l
  <2>2. CASE i # l + 1
    <3>1. i \in DOMAIN stdout /\ stdout'[i] = stdout[i]
      BY <1>1, <2>2
    <3> QED BY <3>1 DEF Deltas
  <2> QED BY <2>1, <2>2
<1>3. i \in 1 .. Len(stdout) + 1
  BY <1>1 DEF l
<1>4. p \in 0 .. Len(stdout') /\ LastBefore(i, p)' /\ FullAt(p)' = FullAt(p)
  BY <1>2, <1>3, LastAppended
<1> QED BY <1>2, <1>4

LEMMA BasedAppended ==
  ASSUME stdout \in Seq(Outputs), NEW o, Appended(o), ~IsEvent(o), UNCHANGED cache, Based,
         stream'.base = stream.base
  PROVE  Based'
<1>1. Len(stdout) \in Nat /\ Len(stdout') = Len(stdout) + 1
  BY AppendIs DEF Appended
<1> SUFFICES ASSUME stream.base # NoEvent
             PROVE  \E q \in 0 .. Len(stdout') :
                      /\ \E n : n = Len(stdout') + 1 /\ LastBefore(n, q)'
                      /\ FullAt(q)'.id = stream.base.id /\ FullAt(q)'.guest = stream.base.guest
  BY DEF Based, LastBefore
<1>2. PICK p : /\ LastBefore(Len(stdout) + 1, p)
               /\ FullAt(p).id = stream.base.id /\ FullAt(p).guest = stream.base.guest
  BY DEF Based
<1>3. PICK k \in 1 .. Len(stdout) + 1 : k = Len(stdout) + 1 /\ k + 1 = Len(stdout') + 1
  BY <1>1
<1>4. p \in 0 .. Len(stdout') /\ LastBefore(k + 1, p)' /\ FullAt(p)' = FullAt(p)
  BY <1>2, <1>3, LastAppended
<1> QED BY <1>2, <1>3, <1>4

LEMMA NewerObserving ==
  ASSUME Ordered, machine \in Guests, stream \in Streams, NEW id, Observing(id)
  PROVE  Newer'
<1>1. /\ machine'.session = machine.session /\ machine'.sequence = machine.sequence + 1
      /\ stream'.base = stream.base /\ stream'.latest.guest = machine'
  BY ObservedIs DEF Observing
<1>2. stream.base.guest \in Guests /\ machine.sequence \in Nat /\ stream.base.guest.sequence \in Nat
  BY StreamIs, OutputIs, GuestIs
<1>3. stream.base.guest \in InFlight
  BY DEF InFlight
<1>4. stream.base.guest.session = machine.session => stream.base.guest.sequence <= machine.sequence
  BY <1>3 DEF Ordered, Behind
<1> QED BY <1>1, <1>2, <1>4 DEF Newer, SameKey

LEMMA NewerSilent ==
  ASSUME stream'.latest = NoEvent \/ stream'.latest.kind = "ended"
  PROVE  Newer'
BY Empty0 DEF Newer

LEMMA SampledChained ==
  ASSUME Handling, Spoken, Chained, WorkerSamples
  PROVE  Chained'
<1>0. /\ stdout \in Seq(Outputs) /\ stream \in Streams /\ Keeping /\ UNCHANGED cache
      /\ \A id \in executed : id # 0
  BY IdsIs DEF Spoken, WorkerTypes, Said, Keeping, WorkerSamples, Working, deliveryVars, Handling, CallTypes
<1>1. /\ stream.latest # NoEvent /\ stream'.latest = NoEvent
      /\ stream'.base = IF stream.latest.kind = "ended" THEN NoEvent ELSE stream.latest
  BY <1>0, SamplesIs
<1>2. PICK o \in Outputs : stdout' = Append(stdout, o) /\ (o = stream.latest \/ Changes(o, stream.latest))
  BY <1>0, SamplesIs
<1>3. /\ IsEvent(stream.latest) /\ stream.latest.id \in executed /\ stream.latest.kind \in {"full", "ended"}
      /\ stream.latest.id # 0
  BY <1>0, <1>1 DEF Keeping
<1>4. IsEvent(o) /\ o.id = stream.latest.id /\ o.guest = stream.latest.guest
      /\ (stream.latest.kind # "ended" => o.kind # "ended")
  BY <1>2, <1>3 DEF Changes, IsEvent
<1>5. Appended(o)
  BY <1>2 DEF Appended
<1>6. ASSUME o.kind = "delta" PROVE \E p : LastBefore(Len(stdout) + 1, p) /\ Fit(FullAt(p), o)
  <2>1. Changes(o, stream.latest)
    BY <1>2, <1>3, <1>6
  <2>2. stream.base # NoEvent
    BY <1>3, <2>1, Empty0 DEF Changes
  <2>3. PICK p : /\ LastBefore(Len(stdout) + 1, p)
                 /\ FullAt(p).id = stream.base.id /\ FullAt(p).guest = stream.base.guest
    BY <2>2 DEF Chained, Based
  <2>4. stream.base.guest.sequence < stream.latest.guest.sequence
    BY <2>1 DEF Changes, Chained, Newer
  <2>5. stream.base.guest.sequence \in Nat /\ stream.latest.guest.sequence \in Nat
    BY <1>0, StreamIs, OutputIs, GuestIs
  <2>6. Fit(FullAt(p), o)
    BY <2>1, <2>3, <2>4, <2>5 DEF Fit, Changes
  <2> QED BY <2>3, <2>6
<1>7. Deltas'
  BY <1>0, <1>5, <1>6, DeltasAppended DEF Chained
<1>8. Newer'
  BY <1>1, NewerSilent
<1>9. Based'
  <2>1. CASE stream.latest.kind = "ended"
    BY <1>1, <2>1 DEF Based
  <2>2. CASE stream.latest.kind # "ended"
    <3>1. PICK k, n : k = Len(stdout) + 1 /\ n = Len(stdout) + 2
      OBVIOUS
    <3>2. k \in Nat \ {0} /\ DOMAIN stdout' = 1 .. k /\ Len(stdout') = k /\ stdout'[k] = o /\ n = k + 1
      BY <1>0, <1>2, <3>1, AppendIs
    <3>3. k \in 0 .. n - 1 /\ n = Len(stdout') + 1 /\ k \in 0 .. Len(stdout')
      BY <3>2
    <3>4. \A q \in DOMAIN stdout' : ~(k < q)
      BY <3>2
    <3>5. LastBefore(n, k)'
      BY <1>4, <2>2, <3>2, <3>3, <3>4 DEF LastBefore
    <3>6. FullAt(k)' = o
      BY <3>2 DEF FullAt
    <3>7. FullAt(k)'.id = stream'.base.id /\ FullAt(k)'.guest = stream'.base.guest
      BY <1>1, <1>4, <2>2, <3>6
    <3>8. \E q \in 0 .. Len(stdout') :
             /\ \E m : m = Len(stdout') + 1 /\ LastBefore(m, q)'
             /\ FullAt(q)'.id = stream'.base.id /\ FullAt(q)'.guest = stream'.base.guest
      BY <3>3, <3>5, <3>7
    <3> QED BY <3>8 DEF Based, LastBefore
  <2> QED BY <2>1, <2>2
<1> QED BY <1>7, <1>8, <1>9 DEF Chained

LEMMA ChainedNext ==
  ASSUME Sound, Handling, Spoken, Chained, Ordered, [Next]_vars
  PROVE  Chained'
<1>0. /\ view \in Nat /\ stdout \in Seq(Outputs) /\ stream \in Streams /\ held \in Outputs /\ machine \in Guests
      /\ Keeping /\ Deltas /\ Based /\ Newer
  BY DEF Spoken, WindowTypes, WorkerTypes, Said, Keeping, Chained
<1>1. CASE Spawn
  <2>1. DOMAIN stdout' = {} /\ stream' = NoStream
    BY <1>1, SpawnEmpties
  <2> QED BY <2>1, Empty0 DEF Chained, Deltas, Based, Newer
<1>2. CASE UNCHANGED <<stdout, cache>> /\ stream'.base = stream.base /\ Newer'
  BY <1>0, <1>2 DEF Chained, Deltas, Based, LastBefore, FullAt
<1>3. CASE UNCHANGED <<stdout, cache, stream>>
  BY <1>0, <1>2, <1>3 DEF Newer
<1>4. CASE Admits \/ Fails \/ Rests \/ WriterTakes \/ WriterWrites \/ Attach \/ Detach \/ Ack \/ GuestStops
  BY <1>3, <1>4 DEF Admits, Fails, Fail, Rests, WriterTakes, WriterWrites, Attach, Detach, Ack, GuestStops,
     deliveryVars, workerVars
<1>5. ASSUME NEW o, Appended(o), ~IsEvent(o), UNCHANGED cache, stream'.base = stream.base, Newer'
      PROVE  Chained'
  <2>1. Deltas'
    BY <1>0, <1>5, DeltasAppended
  <2>2. Based'
    BY <1>0, <1>5, BasedAppended
  <2> QED BY <1>5, <2>1, <2>2 DEF Chained
<1>6. CASE ReadReply \/ ReadEvent
  <2>1. PICK o : o = Head(stdout)
    OBVIOUS
  <2>2. /\ stdout # <<>> /\ stdout' = Tail(stdout) /\ UNCHANGED stream
        /\ \/ UNCHANGED cache /\ ~IsEvent(o)
           \/ cache' = Cached(o) /\ IsEvent(o)
    BY <1>0, <1>6, <2>1, ReplyIs, EventIs DEF IsEvent
  <2>3. Deltas' /\ Based'
    BY <1>0, <2>1, <2>2, DeltasTail
  <2> QED BY <1>0, <2>2, <2>3 DEF Chained, Newer
<1>7. CASE Serving
  <2>1. PICK id : id = Head(stdin)
    OBVIOUS
  <2>2. \/ \E word : Plain(id, word)
        \/ Shows(id) \/ Ends(id) \/ Silences(id) \/ Streaming(id)
    BY <1>7, <2>1, ServingSays DEF Spoken
  <2>3. UNCHANGED cache
    BY <1>7, ServingIs DEF deliveryVars
  <2>4. stream' = NotObserved => stream'.base = stream.base /\ Newer'
    BY <1>0, NotObservedIs, NewerSilent
  <2>5. stream' = stream => stream'.base = stream.base /\ Newer'
    BY <1>0 DEF Newer
  <2>6. CASE \E word : Plain(id, word)
    BY <1>5, <2>3, <2>5, <2>6 DEF Plain, Appended, IsEvent
  <2>7. CASE Shows(id)
    BY <1>2, <1>5, <2>3, <2>4, <2>5, <2>7 DEF Shows, Appended, IsEvent
  <2>8. CASE Ends(id)
    BY <1>5, <2>3, <2>4, <2>8 DEF Ends, Appended, IsEvent
  <2>9. CASE Silences(id)
    BY <1>5, <2>3, <2>4, <2>9 DEF Silences, Appended, IsEvent
  <2>10. CASE Streaming(id)
    <3>1. Newer' /\ stream'.base = stream.base
      BY <1>0, <2>10, NewerObserving DEF Streaming, Observing
    <3> QED BY <1>5, <2>3, <2>10, <3>1 DEF Streaming, Appended, IsEvent
  <2> QED BY <2>2, <2>6, <2>7, <2>8, <2>9, <2>10
<1>8. CASE WorkerReleases
  <2>1. /\ stdout' = Append(stdout, held) /\ held # NoEvent /\ UNCHANGED <<cache, stream>>
    BY <1>8 DEF WorkerReleases, Says, Working, deliveryVars
  <2>2. IsReply(held, "observed")
    BY <1>0, <2>1 DEF Keeping
  <2>3. PICK o \in Outputs : o = held
    BY <1>0
  <2>4. Appended(o) /\ ~IsEvent(o)
    BY <2>1, <2>2, <2>3 DEF Appended, IsReply, IsEvent
  <2> QED BY <1>0, <1>5, <2>1, <2>4 DEF Newer
<1>9. CASE WorkerCaptures
  <2>1. /\ UNCHANGED <<cache, stdout>> /\ (Observing(stream.id) \/ Loses)
    BY <1>0, <1>9, CapturesIs DEF WorkerCaptures, Working, deliveryVars
  <2>2. Newer' /\ stream'.base = stream.base
    BY <1>0, <2>1, NewerObserving, NewerSilent DEF Observing, Loses
  <2> QED BY <1>2, <2>1, <2>2
<1>10. CASE WorkerSamples
  BY <1>10, SampledChained
<1>11. CASE WorkerErrs
  BY <1>11 DEF WorkerErrs, Sound
<1> QED BY <1>0, <1>1, <1>4, <1>6, <1>7, <1>8, <1>9, <1>10, <1>11, NextIs
-----------------------------------------------------------------------------
(* Without a defective worker: the order of what is shown.                 *)

LEMMA InFlightTyped ==
  ASSUME WindowTypes, WorkerTypes
  PROVE  /\ InFlight \subseteq Guests /\ guest \in InFlight /\ machine \in InFlight
         /\ held.guest \in InFlight /\ stream.latest.guest \in InFlight /\ stream.base.guest \in InFlight
         /\ \A i \in DOMAIN stdout : stdout[i].guest \in InFlight
<1>1. \A i \in DOMAIN stdout : stdout[i] \in Outputs
  BY LenProperties, ElementOfSeq DEF WorkerTypes
<1>2. \A o \in Outputs : o.guest \in Guests
  BY OutputIs
<1>3. {guest, machine, held.guest, stream.latest.guest, stream.base.guest} \subseteq Guests
  BY <1>2, StreamIs DEF WindowTypes, WorkerTypes
<1> QED BY <1>1, <1>2, <1>3 DEF InFlight

LEMMA InFlightIs ==
  ASSUME stdout \in Seq(Outputs), NEW S,
         {guest', machine', held'.guest, stream'.latest.guest, stream'.base.guest} \subseteq S,
         \A i \in DOMAIN stdout : stdout[i].guest \in S,
         UNCHANGED stdout \/ \E o : Appended(o) /\ o.guest \in S
  PROVE  InFlight' \subseteq S
<1>1. \A i \in DOMAIN stdout' : stdout'[i].guest \in S
  <2>1. CASE \E o : Appended(o) /\ o.guest \in S
    <3>1. PICK o \in Outputs : stdout' = Append(stdout, o) /\ o.guest \in S
      BY <2>1 DEF Appended
    <3>2. /\ DOMAIN stdout = 1 .. Len(stdout) /\ DOMAIN stdout' = 1 .. Len(stdout) + 1 /\ Len(stdout) \in Nat
          /\ stdout'[Len(stdout) + 1] = o /\ \A i \in 1 .. Len(stdout) : stdout'[i] = stdout[i]
      BY <3>1, AppendIs
    <3>3. \A i \in 1 .. Len(stdout) + 1 : i = Len(stdout) + 1 \/ i \in 1 .. Len(stdout)
      BY <3>2
    <3> QED BY <3>1, <3>2, <3>3
  <2> QED BY <2>1
<1> QED BY <1>1 DEF InFlight

(* How the guest may move. *)
Stays == /\ machine'.session = machine.session /\ machine'.generation = machine.generation
         /\ machine'.sequence = machine.sequence /\ (machine'.session = 0 => machine' = NoGuest)
Advances == /\ machine'.session = machine.session /\ machine.session # 0
            /\ machine'.sequence = machine.sequence + 1
            /\ machine'.generation \in {machine.generation, machine.generation + 1}
Begins == /\ machine'.session \in executed' \ executed /\ machine'.session # 0
          /\ \A id \in executed : id < machine'.session
Moves == Stays \/ Advances \/ Begins \/ machine' = NoGuest

LEMMA BehindKept ==
  ASSUME WindowTypes, WorkerTypes, Behind, executed \subseteq executed', machine' \in Guests, Moves,
         InFlight' \subseteq InFlight \cup {NoGuest, machine'}
  PROVE  Behind'
<1>0. /\ machine \in InFlight /\ InFlight \subseteq Guests
      /\ NoGuest.session = 0 /\ NoGuest.sequence = 0 /\ NoGuest.generation = 0
  BY InFlightTyped, Empty0
<1>1. \A g \in Guests : g.session \in Nat /\ g.sequence \in Nat /\ g.generation \in Nat
  BY GuestIs
<1>2. IF machine'.session = 0 THEN machine' = NoGuest ELSE machine'.session \in executed'
  BY <1>0 DEF Moves, Stays, Advances, Begins, Behind
<1>3. \A g \in InFlight' : IF g.session = 0 THEN g = NoGuest ELSE g.session \in executed'
  BY <1>0, <1>2 DEF Behind
<1>4. ASSUME NEW g \in InFlight', g.session = machine'.session
      PROVE  g.sequence <= machine'.sequence /\ g.generation <= machine'.generation
  <2>1. CASE g = machine'
    BY <1>1, <2>1
  <2>2. CASE machine'.session = 0
    BY <1>0, <1>2, <1>3, <1>4, <2>2
  <2>3. CASE g \in InFlight /\ machine'.session # 0 /\ (Stays \/ Advances)
    <3>1. g.sequence <= machine.sequence /\ g.generation <= machine.generation
      BY <1>4, <2>3 DEF Stays, Advances, Behind
    <3>2. machine.sequence <= machine'.sequence /\ machine.generation <= machine'.generation
      BY <1>0, <1>1, <2>3 DEF Stays, Advances
    <3>3. g \in Guests /\ machine \in Guests
      BY <1>0, <2>3
    <3> QED BY <1>1, <3>1, <3>2, <3>3
  <2>4. CASE g \in InFlight /\ machine'.session # 0 /\ Begins
    BY <1>4, <2>4 DEF Begins, Behind
  <2> QED BY <1>0, <1>2, <1>4, <2>1, <2>2, <2>3, <2>4 DEF Moves
<1>5. ASSUME NEW a \in InFlight', NEW b \in InFlight', a.session = b.session, a.sequence <= b.sequence
      PROVE  a.generation <= b.generation
  <2>1. CASE a.session = 0
    BY <1>0, <1>3, <1>5, <2>1
  <2>2. CASE a.session # 0 /\ a \in InFlight /\ b \in InFlight
    BY <1>5, <2>2 DEF Behind
  <2>3. CASE a.session # 0 /\ b = machine'
    BY <1>4, <1>5, <2>3
  <2>4. CASE a.session # 0 /\ a = machine' /\ b \in InFlight
    <3>1. b \in Guests /\ machine \in Guests
      BY <1>0, <2>4
    <3>2. CASE Stays
      <4>1. b.session = machine.session /\ machine.sequence <= b.sequence
        BY <1>5, <2>4, <3>2 DEF Stays
      <4>2. machine.generation <= b.generation
        BY <1>0, <2>4, <4>1 DEF Behind
      <4> QED BY <2>4, <3>2, <4>2 DEF Stays
    <3>3. CASE Advances
      <4>1. b.sequence <= machine.sequence
        BY <1>5, <2>4, <3>3 DEF Advances, Behind
      <4> QED BY <1>1, <1>5, <2>4, <3>1, <3>3, <4>1 DEF Advances
    <3>4. CASE Begins
      BY <1>5, <2>4, <3>4 DEF Begins, Behind
    <3> QED BY <1>0, <2>4, <3>2, <3>3, <3>4 DEF Moves
  <2> QED BY <1>0, <1>5, <2>1, <2>2, <2>3, <2>4
<1> QED BY <1>3, <1>4, <1>5 DEF Behind

(* What a step of the worker adds to the pipe ends no session, or ends the *)
(* guest's.                                                                *)
Quiet == UNCHANGED stdout \/ \E o : Appended(o) /\ ~IsClosing(o)
Leaves ==
    /\ machine.session # 0 /\ machine' = NoGuest
    /\ \E o : Appended(o) /\ IsClosing(o) /\ o.guest = machine

LEMMA ServingMoves ==
  ASSUME Handling, WindowTypes, WorkerTypes, Behind, Serving
  PROVE  /\ InFlight' \subseteq InFlight \cup {NoGuest, machine'}
         /\ \/ (Stays \/ Advances \/ Begins) /\ Quiet
            \/ Leaves
<1>0. /\ stdout \in Seq(Outputs) /\ machine \in Guests /\ stream \in Streams /\ held \in Outputs
      /\ {guest, machine, held.guest, stream.latest.guest, stream.base.guest} \subseteq InFlight
      /\ \A i \in DOMAIN stdout : stdout[i].guest \in InFlight
      /\ machine.session = 0 => machine = NoGuest
  BY InFlightTyped DEF WorkerTypes, Behind
<1>1. PICK id : id = Head(stdin)
  OBVIOUS
<1>2. /\ id \in Nat \ {0} /\ id \notin executed /\ executed' = executed \cup {id} /\ UNCHANGED guest
      /\ \/ \E word : Plain(id, word)
         \/ Shows(id) \/ Ends(id) \/ Silences(id) \/ Streaming(id)
  BY <1>1, ServingSays, ServingIs DEF viewVars
<1>3. \A other \in executed : other < id
  <2>1. stdin # <<>> /\ stdin \in Seq(Nat)
    BY ServingIs DEF Handling, CallTypes
  <2>2. 1 \in DOMAIN stdin /\ id = stdin[1]
    BY <1>1, <2>1, TailIs
  <2> QED BY <2>2 DEF Handling, InOrder
<1> DEFINE S == InFlight \cup {NoGuest, machine'}
<1>4. /\ {guest, machine', held.guest, stream.latest.guest, stream.base.guest, machine} \subseteq S
      /\ NoGuest \in S /\ \A i \in DOMAIN stdout : stdout[i].guest \in S
  BY <1>0
<1> HIDE DEF S
<1>5. UNCHANGED machine => Stays
  BY <1>0 DEF Stays
<1>6. NotObserved.latest = NoEvent /\ NotObserved.base = stream.base /\ NoEvent.guest = NoGuest
  BY <1>0, NotObservedIs, Empty0
<1>7. ASSUME {held'.guest, stream'.latest.guest, stream'.base.guest} \subseteq S,
             UNCHANGED stdout \/ \E o : Appended(o) /\ o.guest \in S
      PROVE  InFlight' \subseteq S
  BY <1>0, <1>2, <1>4, <1>7, InFlightIs
<1>8. CASE \E word : Plain(id, word)
  BY <1>2, <1>4, <1>5, <1>7, <1>8 DEF Plain, Appended, Quiet, IsClosing, IsReply, S
<1>9. CASE Shows(id)
  <2>1. PICK o \in Outputs :
           /\ o.type = "reply" /\ o.id = id /\ o.kind = "observed" /\ o.guest = machine'
           /\ \/ stdout' = Append(stdout, o) /\ UNCHANGED held
              \/ held = NoEvent /\ held' = o /\ UNCHANGED stdout
           /\ \/ /\ machine'.session = machine.session /\ machine.session # 0
                 /\ machine'.sequence = machine.sequence + 1
                 /\ machine'.generation \in {machine.generation, machine.generation + 1}
              \/ machine'.session = id /\ machine'.generation = 0 /\ machine'.sequence = 1
           /\ stream' = stream \/ stream' = NotObserved
    BY <1>9 DEF Shows
  <2>2. InFlight' \subseteq S
    BY <1>4, <1>6, <1>7, <2>1 DEF Appended
  <2>3. Advances \/ Begins
    BY <1>2, <1>3, <2>1 DEF Advances, Begins
  <2>4. Quiet
    BY <2>1 DEF Quiet, Appended, IsClosing, IsReply
  <2> QED BY <2>2, <2>3, <2>4 DEF S
<1>10. CASE Ends(id)
  <2>1. PICK o \in Outputs :
           /\ o.type = "reply" /\ o.id = id /\ o.kind = "session closed" /\ o.guest = machine
           /\ stdout' = Append(stdout, o)
    BY <1>10 DEF Ends
  <2>2. machine.session # 0 /\ machine' = NoGuest /\ stream' = NotObserved /\ UNCHANGED held
    BY <1>10 DEF Ends
  <2>3. InFlight' \subseteq S
    BY <1>4, <1>6, <1>7, <2>1, <2>2 DEF Appended
  <2>4. Leaves
    BY <2>1, <2>2 DEF Leaves, Appended, IsClosing, IsReply
  <2> QED BY <2>3, <2>4 DEF S
<1>11. CASE Silences(id)
  <2>1. InFlight' \subseteq S
    BY <1>4, <1>6, <1>7, <1>11 DEF Silences, Appended
  <2>2. Stays /\ Quiet
    BY <1>5, <1>11 DEF Silences, Quiet, Appended, IsClosing, IsReply
  <2> QED BY <2>1, <2>2 DEF S
<1>12. CASE Streaming(id)
  <2>1. InFlight' \subseteq S
    BY <1>4, <1>7, <1>12 DEF Streaming, Observing, Appended
  <2>2. Advances
    BY <1>0, <1>12, ObservedIs DEF Streaming, Observing, Advances
  <2>3. Quiet
    BY <1>12 DEF Streaming, Quiet, Appended, IsClosing, IsReply
  <2> QED BY <2>1, <2>2, <2>3 DEF S
<1> QED BY <1>2, <1>8, <1>9, <1>10, <1>11, <1>12

LEMMA WorkerMoves ==
  ASSUME Handling, Spoken, Behind,
         Serving \/ WorkerReleases \/ WorkerCaptures \/ WorkerSamples \/ GuestStops
  PROVE  /\ InFlight' \subseteq InFlight \cup {NoGuest, machine'}
         /\ \/ (Stays \/ Advances \/ Begins) /\ Quiet
            \/ Leaves
<1>0. /\ stdout \in Seq(Outputs) /\ machine \in Guests /\ stream \in Streams /\ held \in Outputs
      /\ {guest, machine, held.guest, stream.latest.guest, stream.base.guest} \subseteq InFlight
      /\ \A i \in DOMAIN stdout : stdout[i].guest \in InFlight
      /\ machine.session = 0 => machine = NoGuest
      /\ NoEvent.guest = NoGuest /\ Keeping /\ WindowTypes /\ WorkerTypes
  BY InFlightTyped, Empty0 DEF Spoken, WorkerTypes, Said, Keeping, Behind
<1> DEFINE S == InFlight \cup {NoGuest, machine'}
<1>1. /\ {guest, machine', held.guest, stream.latest.guest, stream.base.guest, machine} \subseteq S
      /\ NoGuest \in S /\ \A i \in DOMAIN stdout : stdout[i].guest \in S
  BY <1>0
<1> HIDE DEF S
<1>2. UNCHANGED machine => Stays
  BY <1>0 DEF Stays
<1>3. ASSUME {held'.guest, stream'.latest.guest, stream'.base.guest} \subseteq S, UNCHANGED guest,
             UNCHANGED stdout \/ \E o : Appended(o) /\ o.guest \in S
      PROVE  InFlight' \subseteq S
  BY <1>0, <1>1, <1>3, InFlightIs
<1>4. CASE WorkerReleases \/ WorkerCaptures \/ WorkerSamples \/ GuestStops
  <2>0. UNCHANGED guest
    BY <1>4 DEF WorkerReleases, WorkerCaptures, WorkerSamples, GuestStops, Working, viewVars
  <2>1. CASE WorkerReleases
    <3>1. /\ stdout' = Append(stdout, held) /\ held' = NoEvent /\ held # NoEvent
          /\ UNCHANGED <<machine, stream>>
      BY <2>1 DEF WorkerReleases, Says
    <3>2. PICK o \in Outputs : o = held /\ IsReply(o, "observed")
      BY <1>0, <3>1 DEF Keeping
    <3>3. InFlight' \subseteq S
      BY <1>0, <1>1, <1>3, <2>0, <3>1, <3>2 DEF Appended
    <3>4. Stays /\ Quiet
      BY <1>2, <3>1, <3>2 DEF Quiet, Appended, IsClosing, IsReply
    <3> QED BY <3>3, <3>4 DEF S
  <2>2. CASE WorkerCaptures
    <3>1. UNCHANGED <<stdout, held>> /\ (Observing(stream.id) \/ Loses)
      BY <1>0, <2>2, CapturesIs
    <3>2. InFlight' \subseteq S
      BY <1>1, <1>3, <2>0, <3>1 DEF Observing, Loses
    <3>3. Stays \/ Advances
      BY <1>0, <1>2, <3>1, ObservedIs DEF Observing, Loses, Advances
    <3> QED BY <3>1, <3>2, <3>3 DEF S, Quiet
  <2>3. CASE WorkerSamples
    <3>1. /\ UNCHANGED <<machine, held>> /\ stream'.latest = NoEvent /\ stream.latest # NoEvent
          /\ stream'.base = IF stream.latest.kind = "ended" THEN NoEvent ELSE stream.latest
      BY <1>0, <2>3, SamplesIs
    <3>2. PICK o \in Outputs : stdout' = Append(stdout, o) /\ (o = stream.latest \/ Changes(o, stream.latest))
      BY <1>0, <2>3, SamplesIs
    <3>3. o.type = "event" /\ o.guest = stream.latest.guest
      BY <1>0, <3>1, <3>2 DEF Keeping, IsEvent, Changes
    <3>4. InFlight' \subseteq S
      BY <1>0, <1>1, <1>3, <2>0, <3>1, <3>2, <3>3 DEF Appended
    <3>5. Stays /\ Quiet
      BY <1>2, <3>1, <3>2, <3>3 DEF Quiet, Appended, IsClosing, IsReply
    <3> QED BY <3>4, <3>5 DEF S
  <2>4. CASE GuestStops
    <3>1. UNCHANGED <<stdout, held, stream>> /\ machine.session # 0
      BY <1>0, <2>4, Empty0 DEF GuestStops
    <3>2. InFlight' \subseteq S
      BY <1>1, <1>3, <2>0, <3>1
    <3>3. Stays
      BY <1>0, <2>4, <3>1, StopsIs DEF Stays
    <3> QED BY <3>1, <3>2, <3>3 DEF S, Quiet
  <2> QED BY <1>4, <2>1, <2>2, <2>3, <2>4
<1> QED BY <1>0, <1>4, ServingMoves

LEMMA EndingKept ==
  ASSUME WindowTypes, WorkerTypes, Behind, Ending, executed \subseteq executed', machine' \in Guests,
         \A id \in executed : id \in Nat, UNCHANGED <<guest, closedSession>>,
         InFlight' \subseteq InFlight \cup {NoGuest, machine'},
         \/ (Stays \/ Advances \/ Begins) /\ Quiet
         \/ Leaves
  PROVE  Ending'
<1>0. /\ machine \in InFlight /\ InFlight \subseteq Guests /\ stdout \in Seq(Outputs) /\ guest \in Guests
      /\ NoGuest.session = 0 /\ closedSession \in Nat /\ \A i \in DOMAIN stdout : stdout[i].guest \in InFlight
  BY InFlightTyped, Empty0 DEF WorkerTypes, WindowTypes
<1>1. \A g \in Guests : g.session \in Nat
  BY GuestIs
<1>2. closedSession' # 0 => closedSession' \in executed'
  BY DEF Ending
<1>3. guest' = NoGuest \/ closedSession' < guest'.session
  BY DEF Ending
<1>4. UNCHANGED stdout \/ \E o : Appended(o)
  BY DEF Quiet, Leaves
<1>5. /\ \A i \in DOMAIN stdout : i \in DOMAIN stdout' /\ stdout'[i] = stdout[i]
      /\ \A o : Appended(o) => /\ \E i \in DOMAIN stdout' : stdout'[i] = o
                               /\ \A i \in DOMAIN stdout' : i \in DOMAIN stdout \/ stdout'[i] = o
  <2>1. CASE UNCHANGED stdout
    <3>1. ~\E o : Appended(o)
      BY <1>0, <2>1, AppendIs DEF Appended
    <3> QED BY <2>1, <3>1
  <2>2. CASE \E o : Appended(o)
    <3>1. PICK o \in Outputs : stdout' = Append(stdout, o)
      BY <2>2 DEF Appended
    <3>2. /\ DOMAIN stdout = 1 .. Len(stdout) /\ DOMAIN stdout' = 1 .. Len(stdout) + 1 /\ Len(stdout) \in Nat
          /\ stdout'[Len(stdout) + 1] = o /\ \A i \in 1 .. Len(stdout) : stdout'[i] = stdout[i]
      BY <1>0, <3>1, AppendIs
    <3>3. ASSUME NEW e, Appended(e) PROVE stdout'[Len(stdout) + 1] = e
      BY <1>0, <3>3, AppendIs DEF Appended
    <3>4. \A i \in 1 .. Len(stdout) + 1 : i = Len(stdout) + 1 \/ i \in 1 .. Len(stdout)
      BY <3>2
    <3>5. Len(stdout) + 1 \in 1 .. Len(stdout) + 1 /\ \A i \in 1 .. Len(stdout) : i \in 1 .. Len(stdout) + 1
      BY <3>2
    <3> QED BY <3>2, <3>3, <3>4, <3>5
  <2> QED BY <1>4, <2>1, <2>2
<1>6. ASSUME Quiet, NEW i \in DOMAIN stdout', IsClosing(stdout'[i])
      PROVE  i \in DOMAIN stdout /\ Closing(i) /\ stdout'[i] = stdout[i]
  BY <1>5, <1>6 DEF Quiet, Closing
<1>7. ASSUME NEW i \in DOMAIN stdout, Closing(i)
      PROVE  i \in DOMAIN stdout' /\ IsClosing(stdout'[i]) /\ stdout'[i] = stdout[i]
  BY <1>5, <1>7 DEF Closing
<1>8. CASE (Stays \/ Advances) /\ Quiet /\ machine.session # 0
  <2>1. machine'.session = machine.session
    BY <1>8 DEF Stays, Advances
  <2>2. /\ closedSession < machine.session /\ \A g \in InFlight : g.session <= machine.session
        /\ \A i \in DOMAIN stdout : Closing(i) => stdout[i].guest.session < machine.session
    BY <1>8 DEF Ending
  <2>3. \A g \in InFlight' : g.session <= machine'.session
    BY <1>0, <1>1, <2>1, <2>2
  <2>4. \A i \in DOMAIN stdout' : IsClosing(stdout'[i]) => stdout'[i].guest.session < machine'.session
    BY <1>6, <1>8, <2>1, <2>2
  <2> QED BY <1>2, <1>3, <1>8, <2>1, <2>2, <2>3, <2>4 DEF Ending, Closing
<1>9. CASE Begins /\ Quiet
  <2>1. machine'.session # 0 /\ \A id \in executed : id < machine'.session
    BY <1>9 DEF Begins
  <2>2. closedSession < machine'.session
    BY <1>0, <1>1, <2>1 DEF Ending
  <2>3. \A g \in InFlight : g.session < machine'.session
    BY <1>0, <1>1, <2>1 DEF Behind
  <2>4. \A g \in InFlight' : g.session <= machine'.session
    BY <1>0, <1>1, <2>3
  <2>5. \A i \in DOMAIN stdout' : IsClosing(stdout'[i]) => stdout'[i].guest.session < machine'.session
    BY <1>0, <1>6, <1>9, <2>3
  <2> QED BY <1>2, <1>3, <2>1, <2>2, <2>4, <2>5 DEF Ending, Closing
<1>10. CASE machine.session = 0 /\ ~Begins
  <2>1. machine' = NoGuest
    BY <1>10 DEF Stays, Advances, Leaves
  <2>2. ASSUME NEW g \in InFlight
        PROVE  g.session <= closedSession \/ \E i \in DOMAIN stdout' :
                  IsClosing(stdout'[i]) /\ g.session <= stdout'[i].guest.session
    <3>1. CASE g.session <= closedSession
      BY <3>1
    <3>2. CASE \E i \in DOMAIN stdout : Closing(i) /\ g.session <= stdout[i].guest.session
      BY <1>7, <3>2
    <3> QED BY <1>10, <3>1, <3>2 DEF Ending
  <2>3. NoGuest.session <= closedSession
    BY <1>0
  <2> QED BY <1>0, <1>2, <1>3, <2>1, <2>2, <2>3 DEF Ending, Closing
<1>11. CASE Leaves
  <2>1. PICK o : Appended(o) /\ IsClosing(o) /\ o.guest = machine
    BY <1>11 DEF Leaves
  <2>2. PICK i \in DOMAIN stdout' : stdout'[i] = o
    BY <1>5, <2>1
  <2>3. \A g \in InFlight : g.session <= machine.session
    BY <1>11 DEF Leaves, Ending
  <2>4. machine' = NoGuest
    BY <1>11 DEF Leaves
  <2>5. NoGuest.session <= closedSession
    BY <1>0
  <2> QED BY <1>0, <1>2, <1>3, <2>1, <2>2, <2>3, <2>4, <2>5 DEF Ending, Closing
<1> QED BY <1>8, <1>9, <1>10, <1>11

(* Reading a message shows it, drops it, or takes note of a closed session. *)
LEMMA OrderedRead ==
  ASSUME Handling, Spoken, Ordered, ReadReply \/ ReadEvent
  PROVE  Ordered'
<1>0. /\ stdout \in Seq(Outputs) /\ guest \in Guests /\ closedSession \in Nat /\ machine \in Guests
      /\ machine \in InFlight /\ InFlight \subseteq Guests /\ guest \in InFlight
      /\ \A i \in DOMAIN stdout : stdout[i].guest \in InFlight
      /\ NoGuest.session = 0 /\ WindowTypes /\ WorkerTypes
      /\ \A g \in Guests : g.session \in Nat
  BY InFlightTyped, Empty0, GuestIs DEF Spoken, WorkerTypes, WindowTypes
<1>1. PICK o : o = Head(stdout)
  OBVIOUS
<1>2. /\ stdout # <<>> /\ stdout' = Tail(stdout) /\ UNCHANGED <<machine, stream, held, executed>>
  BY <1>0, <1>1, ReplyIs, EventIs
<1>3. /\ DOMAIN stdout = 1 .. Len(stdout) /\ DOMAIN stdout' = 1 .. Len(stdout) - 1 /\ o = stdout[1]
      /\ Len(stdout) \in Nat \ {0} /\ \A i \in 1 .. Len(stdout) - 1 : stdout'[i] = stdout[i + 1]
  BY <1>0, <1>1, <1>2, TailIs
<1>4. /\ 1 \in DOMAIN stdout
      /\ \A i \in DOMAIN stdout' : i + 1 \in DOMAIN stdout /\ stdout'[i] = stdout[i + 1]
      /\ \A i \in DOMAIN stdout : i # 1 => \E j \in DOMAIN stdout' : stdout'[j] = stdout[i]
  <2>1. 1 \in DOMAIN stdout
    BY <1>3
  <2>2. \A i \in DOMAIN stdout' : i + 1 \in DOMAIN stdout /\ stdout'[i] = stdout[i + 1]
    BY <1>3
  <2>3. ASSUME NEW i \in DOMAIN stdout, i # 1 PROVE \E j \in DOMAIN stdout' : stdout'[j] = stdout[i]
    <3>1. i - 1 \in DOMAIN stdout' /\ (i - 1) + 1 = i
      BY <1>3, <2>3
    <3> QED BY <2>2, <3>1
  <2> QED BY <2>1, <2>2, <2>3
<1>5. o.guest \in InFlight /\ o.guest.session \in Nat
  BY <1>0, <1>3, <1>4
<1>6. guest' \in {guest, o.guest, NoGuest}
  BY <1>0, <1>1, ReplyIs, EventIs DEF Sees
<1>7. InFlight' \subseteq InFlight \cup {NoGuest}
  <2>1. \A i \in DOMAIN stdout' : stdout'[i].guest \in InFlight
    BY <1>0, <1>4
  <2>2. UNCHANGED <<machine, held, stream>>
    BY <1>2
  <2> QED BY <1>5, <1>6, <2>1, <2>2 DEF InFlight
<1>8. Behind'
  <2>1. Stays
    BY <1>0, <1>2 DEF Stays, Ordered, Behind
  <2>2. InFlight' \subseteq InFlight \cup {NoGuest, machine'}
    BY <1>7
  <2> QED BY <1>0, <1>2, <2>1, <2>2, BehindKept DEF Ordered, Moves
<1>9. IF Closing(1)
      THEN /\ closedSession' = IF closedSession > o.guest.session THEN closedSession ELSE o.guest.session
           /\ guest' = NoGuest
      ELSE closedSession' = closedSession /\ (guest' # guest => o.guest.session > closedSession /\ guest' = o.guest)
  <2>1. CASE ReadReply
    <3>1. ASSUME Sees(o.guest), guest' # guest PROVE o.guest.session > closedSession /\ guest' = o.guest
      BY <1>0, <1>5, <3>1 DEF Sees, Stale
    <3>2. o.type = "reply"
      BY <1>0, <1>1, <2>1, ReplyIs
    <3> QED BY <1>0, <1>1, <1>3, <2>1, <3>1, <3>2, ReplyIs DEF Closing, IsClosing, IsReply
  <2>2. CASE ReadEvent
    <3>1. ASSUME Sees(o.guest), guest' # guest PROVE o.guest.session > closedSession /\ guest' = o.guest
      BY <1>0, <1>5, <3>1 DEF Sees, Stale
    <3>2. o.type = "event" /\ UNCHANGED closedSession /\ (Sees(o.guest) \/ UNCHANGED guest)
      BY <1>0, <1>1, <2>2, EventIs
    <3> QED BY <1>3, <3>1, <3>2 DEF Closing, IsClosing, IsReply
  <2> QED BY <2>1, <2>2
<1>10. closedSession <= closedSession' /\ closedSession' \in Nat
       /\ (Closing(1) => o.guest.session <= closedSession')
  BY <1>0, <1>5, <1>9
<1>11. closedSession' # 0 => closedSession' \in executed'
  <2>1. o.guest.session # 0 => o.guest.session \in executed
    BY <1>5 DEF Ordered, Behind
  <2> QED BY <1>2, <1>9, <2>1 DEF Ordered, Ending
<1>12. guest' = NoGuest \/ closedSession' < guest'.session
  BY <1>0, <1>5, <1>9 DEF Ordered, Ending
<1>13. ASSUME machine.session # 0
       PROVE  /\ closedSession' < machine.session /\ \A g \in InFlight' : g.session <= machine.session
              /\ \A i \in DOMAIN stdout' :
                    IsClosing(stdout'[i]) => stdout'[i].guest.session < machine.session
  <2>1. /\ closedSession < machine.session /\ \A g \in InFlight : g.session <= machine.session
        /\ \A i \in DOMAIN stdout : Closing(i) => stdout[i].guest.session < machine.session
    BY <1>13 DEF Ordered, Ending
  <2>2. closedSession' < machine.session
    BY <1>3, <1>4, <1>9, <2>1
  <2>3. \A g \in InFlight' : g.session <= machine.session
    BY <1>0, <1>7, <2>1
  <2>4. \A i \in DOMAIN stdout' : IsClosing(stdout'[i]) => stdout'[i].guest.session < machine.session
    BY <1>4, <2>1 DEF Closing
  <2> QED BY <2>2, <2>3, <2>4
<1>14. ASSUME machine.session = 0, NEW g \in InFlight
       PROVE  g.session <= closedSession' \/ \E i \in DOMAIN stdout' :
                IsClosing(stdout'[i]) /\ g.session <= stdout'[i].guest.session
  <2>0. g.session \in Nat
    BY <1>0
  <2>1. CASE g.session <= closedSession
    <3>1. g.session <= closedSession'
      BY <1>0, <1>10, <2>0, <2>1
    <3> QED BY <3>1
  <2>2. CASE \E i \in DOMAIN stdout : Closing(i) /\ g.session <= stdout[i].guest.session
    <3>1. PICK i \in DOMAIN stdout : Closing(i) /\ g.session <= stdout[i].guest.session
      BY <2>2
    <3>2. CASE i = 1
      <4>1. Closing(1) /\ g.session <= o.guest.session
        BY <1>3, <3>1, <3>2
      <4>2. g.session <= closedSession'
        BY <1>5, <1>10, <2>0, <4>1
      <4> QED BY <4>2
    <3>3. CASE i # 1
      BY <1>4, <3>1, <3>3 DEF Closing
    <3> QED BY <3>2, <3>3
  <2> QED BY <1>14, <2>1, <2>2 DEF Ordered, Ending
<1>15. NoGuest.session <= closedSession'
  BY <1>0, <1>10
<1>16. Ending'
  BY <1>2, <1>7, <1>11, <1>12, <1>13, <1>14, <1>15 DEF Ending, Closing
<1> QED BY <1>8, <1>16 DEF Ordered

LEMMA OrderedNext ==
  ASSUME Sound, Handling, Spoken, Ordered, [Next]_vars
  PROVE  Ordered'
<1>0. view \in Nat /\ WindowTypes /\ WorkerTypes /\ (\A id \in executed : id \in Nat)
  BY IdsIs DEF Spoken, WindowTypes, Handling, CallTypes
<1>1. CASE Spawn
  <2>1. /\ guest' = NoGuest /\ closedSession' = 0 /\ stdout' = <<>> /\ machine' = NoGuest
        /\ stream' = NoStream /\ held' = NoEvent
    BY <1>1, SpawnEmpties
  <2>2. DOMAIN stdout' = {}
    BY <2>1
  <2>3. InFlight' = {NoGuest}
    BY <2>1, <2>2, Empty0 DEF InFlight
  <2>4. Behind'
    BY <2>1, <2>3, Empty0 DEF Behind
  <2>5. Ending'
    BY <2>1, <2>2, <2>3, Empty0 DEF Ending
  <2> QED BY <2>4, <2>5 DEF Ordered
<1>2. CASE Admits \/ Fails \/ Rests \/ WriterTakes \/ WriterWrites \/ Attach \/ Detach \/ Ack
  <2>1. UNCHANGED <<guest, closedSession, stdout, machine, stream, held, executed>>
    BY <1>2 DEF Admits, Fails, Fail, Rests, WriterTakes, WriterWrites, Attach, Detach, Ack, viewVars, workerVars
  <2>2. InFlight' = InFlight
    BY <2>1 DEF InFlight
  <2>3. Behind'
    BY <2>1, <2>2 DEF Ordered, Behind
  <2>4. Ending'
    BY <2>1, <2>2 DEF Ordered, Ending, Closing
  <2> QED BY <2>3, <2>4 DEF Ordered
<1>3. CASE ReadReply \/ ReadEvent
  BY <1>3, OrderedRead
<1>4. CASE Serving \/ WorkerReleases \/ WorkerCaptures \/ WorkerSamples \/ GuestStops
  <2>1. machine' \in Guests /\ UNCHANGED <<guest, closedSession>>
    BY <1>0, <1>4, WorkerIs
  <2>2. executed \subseteq executed'
    BY <1>4, ServingIs DEF WorkerReleases, WorkerCaptures, WorkerSamples, GuestStops
  <2>3. Behind /\ Ending
    BY DEF Ordered
  <2>4. /\ InFlight' \subseteq InFlight \cup {NoGuest, machine'}
        /\ \/ (Stays \/ Advances \/ Begins) /\ Quiet
           \/ Leaves
    BY <1>4, <2>3, WorkerMoves
  <2>5. Behind'
    BY <1>0, <2>1, <2>2, <2>3, <2>4, BehindKept DEF Moves, Leaves
  <2>6. Ending'
    BY <1>0, <2>1, <2>2, <2>3, <2>4, EndingKept
  <2> QED BY <2>5, <2>6 DEF Ordered
<1>5. CASE WorkerErrs
  BY <1>5 DEF WorkerErrs, Sound
<1> QED BY <1>0, <1>1, <1>2, <1>3, <1>4, <1>5, NextIs
-----------------------------------------------------------------------------
(* Without a defective worker: what is shown follows the worker.           *)

LEMMA ShownAppended ==
  ASSUME stdout \in Seq(Outputs), NEW o, Appended(o), ~IsClosing(o),
         SameKey(machine', machine), UNCHANGED guest, NEW j \in 0 .. Len(stdout), ShownAt(j)
  PROVE  ShownAt(j)' /\ j \in 0 .. Len(stdout')
<1> DEFINE l == Len(stdout)
<1>1. /\ DOMAIN stdout = 1 .. l /\ DOMAIN stdout' = 1 .. l + 1 /\ l \in Nat /\ Len(stdout') = l + 1
      /\ stdout'[l + 1] = o /\ \A i \in 1 .. l : stdout'[i] = stdout[i]
  BY AppendIs DEF Appended
<1>2. j \in 0 .. l
  OBVIOUS
<1> HIDE DEF l
<1>3. \A i \in 1 .. l + 1 : i = l + 1 \/ i \in 1 .. l
  BY <1>1
<1>4. j \in 0 .. Len(stdout') /\ (j # 0 => j \in 1 .. l)
  BY <1>1, <1>2
<1>5. \A i \in DOMAIN stdout' : IsClosing(stdout'[i]) => i < j
  BY <1>1, <1>3 DEF ShownAt, Closing
<1>6. IF j = 0 THEN SameKey(guest', machine')
      ELSE /\ IsReply(stdout'[j], "observed") \/ (IsEvent(stdout'[j]) /\ stdout'[j].kind # "ended")
           /\ SameKey(stdout'[j].guest, machine')
  BY <1>1, <1>4 DEF ShownAt, Carries, SameKey
<1> QED BY <1>4, <1>5, <1>6 DEF ShownAt, Closing, Carries

LEMMA ShownSame ==
  ASSUME UNCHANGED <<stdout, guest>>, SameKey(machine', machine), NEW j, ShownAt(j)
  PROVE  ShownAt(j)'
BY DEF ShownAt, Closing, Carries, SameKey

LEMMA ShownNew ==
  ASSUME stdout \in Seq(Outputs), NEW o, Appended(o), IsReply(o, "observed"), o.guest = machine'
  PROVE  \E j \in 0 .. Len(stdout') : ShownAt(j)'
<1>1. PICK j : j = Len(stdout) + 1
  OBVIOUS
<1>2. /\ DOMAIN stdout' = 1 .. j /\ j \in Nat \ {0} /\ stdout'[j] = o /\ Len(stdout') = j
  BY <1>1, AppendIs DEF Appended
<1>3. j \in 0 .. Len(stdout') /\ \A i \in DOMAIN stdout' : i = j \/ i < j
  BY <1>2
<1>4. ShownAt(j)'
  BY <1>2, <1>3 DEF ShownAt, Closing, IsClosing, Carries, SameKey, IsReply
<1> QED BY <1>3, <1>4

(* What is read of the guest's session does not take its key from the window. *)
LEMMA KeyRead ==
  ASSUME WindowTypes, WorkerTypes, Ordered, machine.session # 0, NEW seen \in InFlight
  PROVE  /\ SameKey(guest, machine) /\ ~Stale(seen) => SameKey(seen, machine)
         /\ SameKey(seen, machine) /\ Stale(seen) => SameKey(guest, machine)
<1>1. /\ guest \in InFlight /\ machine \in InFlight /\ InFlight \subseteq Guests /\ closedSession \in Nat
  BY InFlightTyped DEF WindowTypes
<1>2. \A g \in InFlight : g.session \in Nat /\ g.sequence \in Nat /\ g.generation \in Nat
  BY <1>1, GuestIs
<1>3. /\ closedSession < machine.session /\ \A g \in InFlight : g.session <= machine.session
  BY DEF Ordered, Ending
<1>4. /\ \A g \in InFlight : g.session = machine.session => g.generation <= machine.generation
      /\ \A a, b \in InFlight : a.session = b.session /\ a.sequence <= b.sequence =>
          a.generation <= b.generation
  BY DEF Ordered, Behind
<1>5. ASSUME SameKey(guest, machine), ~Stale(seen) PROVE SameKey(seen, machine)
  <2>1. seen.session = machine.session /\ ~(guest.sequence >= seen.sequence)
    BY <1>1, <1>2, <1>3, <1>5 DEF SameKey, Stale
  <2>2. guest.generation <= seen.generation /\ seen.generation <= machine.generation
    BY <1>1, <1>2, <1>4, <1>5, <2>1 DEF SameKey
  <2> QED BY <1>1, <1>2, <1>5, <2>1, <2>2 DEF SameKey
<1>6. ASSUME SameKey(seen, machine), Stale(seen) PROVE SameKey(guest, machine)
  <2>1. guest.session = machine.session /\ guest.sequence >= seen.sequence
    BY <1>1, <1>2, <1>3, <1>6 DEF SameKey, Stale
  <2>2. seen.generation <= guest.generation /\ guest.generation <= machine.generation
    BY <1>1, <1>2, <1>4, <1>6, <2>1 DEF SameKey
  <2> QED BY <1>1, <1>2, <1>6, <2>1, <2>2 DEF SameKey
<1> QED BY <1>5, <1>6

LEMMA ShownTail ==
  ASSUME Spoken, Ordered, machine.session # 0, ReadReply \/ ReadEvent, NEW j \in 0 .. Len(stdout), ShownAt(j)
  PROVE  \E q \in 0 .. Len(stdout') : q = (IF j = 0 THEN 0 ELSE j - 1) /\ ShownAt(q)'
<1>0. /\ stdout \in Seq(Outputs) /\ WindowTypes /\ WorkerTypes
  BY DEF Spoken, WorkerTypes
<1>1. PICK o : o = Head(stdout)
  OBVIOUS
<1>2. /\ stdout # <<>> /\ stdout' = Tail(stdout) /\ UNCHANGED machine
  BY <1>0, <1>1, ReplyIs, EventIs
<1>3. /\ DOMAIN stdout = 1 .. Len(stdout) /\ DOMAIN stdout' = 1 .. Len(stdout) - 1 /\ o = stdout[1]
      /\ Len(stdout) \in Nat \ {0} /\ \A i \in 1 .. Len(stdout) - 1 : stdout'[i] = stdout[i + 1]
      /\ Len(stdout') = Len(stdout) - 1 /\ 1 \in DOMAIN stdout
  BY <1>0, <1>1, <1>2, TailIs
<1>4. \A i \in DOMAIN stdout' : i \in Nat /\ i + 1 \in DOMAIN stdout /\ stdout'[i] = stdout[i + 1]
  BY <1>3
<1>5. o.guest \in InFlight
  BY <1>0, <1>3, InFlightTyped
<1>6. PICK q : q = (IF j = 0 THEN 0 ELSE j - 1)
  OBVIOUS
<1>7. q \in 0 .. Len(stdout') /\ q \in Nat
  BY <1>3, <1>6
<1>8. \A i \in DOMAIN stdout' : IsClosing(stdout'[i]) => i < q
  <2> SUFFICES ASSUME NEW i \in DOMAIN stdout', IsClosing(stdout'[i]) PROVE i < q
    OBVIOUS
  <2>1. i + 1 < j
    BY <1>4 DEF ShownAt, Closing
  <2>2. i \in Nat /\ j \in Nat
    BY <1>4
  <2> QED BY <1>6, <2>1, <2>2
<1>9. CASE j > 1
  <2>1. q \in DOMAIN stdout' /\ q # 0 /\ stdout'[q] = stdout[j]
    <3>1. q = j - 1 /\ j \in 1 .. Len(stdout)
      BY <1>6, <1>9
    <3>2. q \in DOMAIN stdout' /\ q # 0 /\ q + 1 = j
      BY <1>3, <1>9, <3>1
    <3> QED BY <1>4, <3>2
  <2>2. Carries(j)
    BY <1>9 DEF ShownAt
  <2>3. ShownAt(q)'
    BY <1>2, <1>8, <2>1, <2>2 DEF ShownAt, Closing, Carries
  <2> QED BY <1>6, <1>7, <2>3
<1>10. CASE j \in {0, 1}
  <2>1. q = 0 /\ ~Closing(1)
    BY <1>3, <1>6, <1>10 DEF ShownAt
  <2>2. /\ guest' = guest \/ (~Stale(o.guest) /\ guest' = o.guest)
        /\ Carries(1) => Sees(o.guest)
    <3>1. CASE ReadReply
      BY <1>0, <1>1, <1>3, <2>1, <3>1, ReplyIs DEF Closing, IsClosing, IsReply, Carries, IsEvent, Sees
    <3>2. CASE ReadEvent
      BY <1>0, <1>1, <1>3, <3>2, EventIs DEF IsReply, Carries, IsEvent, Sees
    <3> QED BY <3>1, <3>2
  <2>3. SameKey(guest', machine)
    <3>1. CASE j = 0
      BY <1>0, <1>5, <2>2, <3>1, KeyRead DEF ShownAt
    <3>2. CASE j = 1
      <4>1. Carries(1) /\ SameKey(o.guest, machine)
        BY <1>3, <3>2 DEF ShownAt, Carries
      <4> QED BY <1>0, <1>5, <2>2, <4>1, KeyRead DEF Sees
    <3> QED BY <1>10, <3>1, <3>2
  <2>4. ShownAt(q)'
    BY <1>2, <1>8, <2>1, <2>3 DEF ShownAt, Closing
  <2> QED BY <1>6, <1>7, <2>4
<1> QED BY <1>3, <1>9, <1>10

LEMMA FollowedAppended ==
  ASSUME stdout \in Seq(Outputs), NEW o, Appended(o), ~IsClosing(o), SameKey(machine', machine),
         UNCHANGED guest, stream'.id \in {0, stream.id}, stream'.id # 0 /\ Tuned => Tuned', Followed,
         stream'.id # 0 => ~IsReply(o, "subscribed") /\ ~IsReply(o, "unsubscribed")
  PROVE  Followed'
<1> DEFINE l == Len(stdout)
<1>1. /\ DOMAIN stdout = 1 .. l /\ DOMAIN stdout' = 1 .. l + 1 /\ l \in Nat /\ Len(stdout') = l + 1
      /\ stdout'[l + 1] = o /\ \A i \in 1 .. l : stdout'[i] = stdout[i]
  BY AppendIs DEF Appended
<1>2. ASSUME NEW j \in 0 .. l, ShownAt(j) PROVE ShownAt(j)' /\ j \in 0 .. Len(stdout')
  BY <1>2, ShownAppended
<1>4. machine.session # 0 => \E j \in 0 .. l : ShownAt(j)
  BY DEF Followed
<1>5. stream.id # 0 =>
        /\ machine.session # 0
        /\ \E i \in 0 .. l : SubscribedAt(i) /\ \E j \in 0 .. i : ShownAt(j)
        /\ \A k \in DOMAIN stdout : IsReply(stdout[k], "unsubscribed") => stdout[k].base # stream.id
  BY DEF Followed
<1> HIDE DEF l
<1>6. machine'.session = machine.session
  BY DEF SameKey
<1>7. machine'.session # 0 => \E j \in 0 .. Len(stdout') : ShownAt(j)'
  BY <1>2, <1>4, <1>6
<1>8. \A i \in 1 .. l + 1 : i = l + 1 \/ i \in 1 .. l
  BY <1>1
<1>9. ASSUME stream'.id # 0
      PROVE  \E i \in 0 .. Len(stdout') : SubscribedAt(i)' /\ \E j \in 0 .. i : ShownAt(j)'
  <2>1. PICK i \in 0 .. l : SubscribedAt(i) /\ \E j \in 0 .. i : ShownAt(j)
    BY <1>5, <1>9
  <2>2. PICK j \in 0 .. i : ShownAt(j)
    BY <2>1
  <2>3. j \in 0 .. l /\ i \in 0 .. Len(stdout') /\ (i # 0 => i \in 1 .. l) /\ i \in Nat
    BY <1>1
  <2>4. \A k \in DOMAIN stdout' : i < k => ~IsReply(stdout'[k], "subscribed")
    BY <1>1, <1>8, <1>9, <2>1 DEF SubscribedAt
  <2>5. IF i = 0 THEN Tuned' ELSE IsReply(stdout'[i], "subscribed") /\ stdout'[i].id = stream'.id
    BY <1>1, <1>9, <2>1, <2>3 DEF SubscribedAt
  <2>6. SubscribedAt(i)'
    BY <2>4, <2>5 DEF SubscribedAt
  <2> QED BY <1>2, <2>2, <2>3, <2>6
<1>10. stream'.id # 0 =>
         /\ machine'.session # 0
         /\ \A k \in DOMAIN stdout' : IsReply(stdout'[k], "unsubscribed") => stdout'[k].base # stream'.id
  BY <1>1, <1>5, <1>6, <1>8
<1> QED BY <1>7, <1>9, <1>10 DEF Followed

LEMMA FollowedSame ==
  ASSUME UNCHANGED <<stdout, guest>>, SameKey(machine', machine), stream'.id \in {0, stream.id},
         stream'.id # 0 /\ Tuned => Tuned', Followed
  PROVE  Followed'
<1>1. ASSUME NEW j, ShownAt(j) PROVE ShownAt(j)'
  BY <1>1, ShownSame
<1>2. machine'.session = machine.session
  BY DEF SameKey
<1>3. machine'.session # 0 => \E j \in 0 .. Len(stdout') : ShownAt(j)'
  BY <1>1, <1>2 DEF Followed
<1>4. ASSUME stream'.id # 0, NEW i, SubscribedAt(i) PROVE SubscribedAt(i)'
  BY <1>4 DEF SubscribedAt
<1>5. stream'.id # 0 => \E i \in 0 .. Len(stdout') : SubscribedAt(i)' /\ \E j \in 0 .. i : ShownAt(j)'
  BY <1>1, <1>4 DEF Followed
<1>6. stream'.id # 0 =>
        /\ machine'.session # 0
        /\ \A k \in DOMAIN stdout' : IsReply(stdout'[k], "unsubscribed") => stdout'[k].base # stream'.id
  BY <1>2 DEF Followed
<1> QED BY <1>3, <1>5, <1>6 DEF Followed

(* What the window does leaves the stream its own, or makes it another's. *)
LEMMA FollowedWindow ==
  ASSUME Handling, Spoken, Owned, Followed,
         Admits \/ Fails \/ Rests \/ WriterTakes \/ WriterWrites \/ Attach \/ Detach \/ Ack
  PROVE  Followed'
<1>0. /\ view \in Nat /\ delivery \in Credits /\ (stream.id # 0 => stream.id \in Ids)
      /\ \A id \in Ids : calls[id].view \in Nat
  BY IdsIs DEF Spoken, WindowTypes, Said, Handling, CallTypes, Accounted, CallRecords
<1>1. UNCHANGED <<stdout, guest, machine, stream>>
  BY DEF Admits, Fails, Fail, Rests, WriterTakes, WriterWrites, Attach, Detach, Ack, viewVars, workerVars
<1>2. SameKey(machine', machine) /\ stream'.id \in {0, stream.id}
  BY <1>1 DEF SameKey
<1>3. ASSUME stream.id # 0, Tuned PROVE Tuned'
  <2>1. CASE Admits
    <3>1. PICK kind \in AllKinds \cup {"hello", "shutdown"}, lease \in Nat : Admit(kind, lease)
      BY <2>1 DEF Admits
    <3>2. PICK n : n = Len(calls) + 1
      OBVIOUS
    <3>3. calls'[stream.id] = calls[stream.id]
      BY <1>0, <1>3, <3>1, <3>2, AdmitIs DEF Handling
    <3> QED BY <1>1, <1>3, <2>1, <3>3 DEF Admits, Tuned, viewVars, deliveryVars
  <2>2. CASE Fails \/ Detach
    <3>1. delivery' = Detached
      BY <2>2 DEF Fails, Fail, Detach
    <3> QED BY <3>1, Empty0 DEF Tuned
  <2>3. CASE Rests \/ WriterTakes \/ WriterWrites
    <3>1. UNCHANGED <<calls, view, subscription, delivery>>
      BY <2>3 DEF Rests, WriterTakes, WriterWrites, callVars, viewVars, deliveryVars
    <3> QED BY <1>1, <1>3, <3>1 DEF Tuned
  <2>4. CASE Attach
    <3>1. UNCHANGED calls /\ view' = view + 1
      BY <2>4 DEF Attach, callVars
    <3>2. calls[stream.id].view \in Nat /\ calls[stream.id].view <= view
      BY <1>0, <1>3 DEF Owned
    <3>3. calls[stream.id].view # view + 1
      BY <1>0, <3>2
    <3> QED BY <1>1, <3>1, <3>3 DEF Tuned
  <2>5. CASE Ack
    <3>1. UNCHANGED <<calls, view, subscription>>
      BY <2>5 DEF Ack, callVars, viewVars
    <3>2. delivery.attached
      BY <1>0, <2>5, AckIs DEF Owned
    <3> QED BY <1>1, <1>3, <3>1, <3>2 DEF Tuned
  <2> QED BY <2>1, <2>2, <2>3, <2>4, <2>5
<1> QED BY <1>1, <1>2, <1>3, FollowedSame

(* What is read of the stream's session keeps the subscription, and the    *)
(* reply to the subscription makes it the window's.                        *)
LEMMA TunedRead ==
  ASSUME Spoken, Ordered, Followed, stream.id # 0, ReadReply \/ ReadEvent,
         NEW i \in {0, 1}, SubscribedAt(i), NEW j \in 0 .. i, ShownAt(j)
  PROVE  Tuned'
<1>0. /\ stdout \in Seq(Outputs) /\ WindowTypes /\ WorkerTypes /\ machine.session # 0
      /\ \A k \in DOMAIN stdout : IsReply(stdout[k], "unsubscribed") => stdout[k].base # stream.id
  BY DEF Spoken, WorkerTypes, Followed
<1>1. PICK o : o = Head(stdout)
  OBVIOUS
<1>2. /\ stdout # <<>> /\ UNCHANGED <<stream, view, calls>>
      /\ ReadReply => UNCHANGED delivery
  BY <1>0, <1>1, ReplyIs, EventIs DEF Settle, callVars
<1>3. 1 \in DOMAIN stdout /\ o = stdout[1]
  BY <1>0, <1>1, <1>2, TailIs
<1>4. /\ o.guest \in InFlight
      /\ SameKey(guest, machine) /\ ~Stale(o.guest) => SameKey(o.guest, machine)
  BY <1>0, <1>3, InFlightTyped, KeyRead
<1> SUFFICES ASSUME calls[stream.id].view = view, delivery'.attached
             PROVE  subscription' = stream.id
  BY <1>2 DEF Tuned
<1>5. CASE i = 0
  <2>1. j = 0
    BY <1>5
  <2>2. SameKey(guest, machine) /\ ~IsClosing(o)
    BY <1>3, <2>1 DEF ShownAt, Closing
  <2>3. Kept(o.guest) = subscription
    BY <1>4, <2>2 DEF Kept, SameKey
  <2>4. ~IsReply(o, "subscribed")
    BY <1>3, <1>5 DEF SubscribedAt
  <2>5. IsReply(o, "unsubscribed") => o.base # stream.id
    BY <1>0, <1>3
  <2>6. CASE ReadReply
    <3>1. Tuned /\ delivery.attached
      BY <1>2, <1>5, <2>6 DEF SubscribedAt
    <3>2. subscription = stream.id
      BY <3>1 DEF Tuned
    <3>3. o.type = "reply"
      BY <1>0, <1>1, <2>6, ReplyIs
    <3>4. \/ subscription' = Kept(o.guest)
          \/ subscription' = IF Subscribed(o) THEN o.id ELSE IF Unsubscribed(o) THEN 0 ELSE subscription
      BY <1>0, <1>1, <2>2, <2>6, <3>3, ReplyIs DEF IsClosing, IsReply
    <3>5. ~Subscribed(o) /\ ~Unsubscribed(o)
      BY <2>4, <2>5, <3>2, <3>3 DEF Subscribed, Unsubscribed, IsReply
    <3> QED BY <2>3, <3>2, <3>4, <3>5
  <2>7. CASE ReadEvent
    <3>1. PICK kept : /\ kept = IF o.kind = "ended" THEN subscription ELSE Kept(o.guest)
                      /\ \/ delivery.attached /\ subscription' = kept
                         \/ delivery' = Detached
                         \/ subscription' = kept /\ UNCHANGED delivery
      BY <1>0, <1>1, <2>7, EventIs
    <3>2. delivery.attached /\ subscription' = subscription
      BY <2>3, <3>1, Empty0
    <3>3. Tuned
      BY <1>5 DEF SubscribedAt
    <3> QED BY <3>2, <3>3 DEF Tuned
  <2> QED BY <2>6, <2>7
<1>6. CASE i = 1
  <2>1. IsReply(o, "subscribed") /\ o.id = stream.id
    BY <1>3, <1>6 DEF SubscribedAt
  <2>2. ReadReply
    BY <1>0, <1>1, <2>1, EventIs DEF IsReply
  <2>3. o.kind = "subscribed"
    BY <2>1 DEF IsReply
  <2>4. subscription' = IF Subscribed(o) THEN o.id ELSE IF Unsubscribed(o) THEN 0 ELSE subscription
    BY <1>0, <1>1, <2>2, <2>3, ReplyIs
  <2>5. Subscribed(o)
    BY <2>1, <2>3 DEF Subscribed
  <2> QED BY <2>1, <2>4, <2>5
<1> QED BY <1>5, <1>6

LEMMA FollowedRead ==
  ASSUME Spoken, Ordered, Followed, ReadReply \/ ReadEvent
  PROVE  Followed'
<1>0. /\ stdout \in Seq(Outputs) /\ WindowTypes /\ WorkerTypes
  BY DEF Spoken, WorkerTypes
<1>1. PICK o : o = Head(stdout)
  OBVIOUS
<1>2. /\ stdout # <<>> /\ stdout' = Tail(stdout) /\ UNCHANGED <<machine, stream>>
  BY <1>0, <1>1, ReplyIs, EventIs
<1>3. /\ DOMAIN stdout = 1 .. Len(stdout) /\ DOMAIN stdout' = 1 .. Len(stdout) - 1 /\ o = stdout[1]
      /\ Len(stdout) \in Nat \ {0} /\ \A k \in 1 .. Len(stdout) - 1 : stdout'[k] = stdout[k + 1]
      /\ Len(stdout') = Len(stdout) - 1
  BY <1>0, <1>1, <1>2, TailIs
<1>4. \A k \in DOMAIN stdout' : k \in Nat \ {0} /\ k + 1 \in DOMAIN stdout /\ stdout'[k] = stdout[k + 1]
  BY <1>3
<1>5. ASSUME machine.session # 0
      PROVE  \E q \in 0 .. Len(stdout') : ShownAt(q)'
  <2>1. PICK j \in 0 .. Len(stdout) : ShownAt(j)
    BY <1>5 DEF Followed
  <2> QED BY <1>5, <2>1, ShownTail
<1>6. ASSUME stream.id # 0
      PROVE  \E i \in 0 .. Len(stdout') : SubscribedAt(i)' /\ \E j \in 0 .. i : ShownAt(j)'
  <2>1. machine.session # 0
    BY <1>6 DEF Followed
  <2>2. PICK i \in 0 .. Len(stdout) : SubscribedAt(i) /\ \E j \in 0 .. i : ShownAt(j)
    BY <1>6 DEF Followed
  <2>3. PICK j \in 0 .. i : ShownAt(j)
    BY <2>2
  <2>4. j \in 0 .. Len(stdout) /\ i \in Nat /\ j \in Nat /\ j <= i
    BY <1>3
  <2>5. PICK q \in 0 .. Len(stdout') : q = (IF j = 0 THEN 0 ELSE j - 1) /\ ShownAt(q)'
    BY <2>1, <2>3, <2>4, ShownTail
  <2>6. CASE i \in {0, 1}
    <3>1. Tuned'
      BY <1>6, <2>2, <2>3, <2>6, TunedRead
    <3>2. ASSUME NEW k \in DOMAIN stdout' PROVE ~IsReply(stdout'[k], "subscribed")
      <4>1. i < k + 1
        BY <1>4, <2>6
      <4> QED BY <1>4, <2>2, <4>1 DEF SubscribedAt
    <3>3. SubscribedAt(0)'
      BY <3>1, <3>2 DEF SubscribedAt
    <3>4. q = 0 /\ 0 \in 0 .. Len(stdout') /\ 0 \in 0 .. 0
      BY <1>3, <2>4, <2>5, <2>6
    <3> QED BY <2>5, <3>3, <3>4
  <2>7. CASE i > 1
    <3>1. PICK p \in DOMAIN stdout' : p = i - 1
      BY <1>3, <2>4, <2>7
    <3>2. p # 0 /\ p + 1 = i /\ p \in 0 .. Len(stdout') /\ q \in 0 .. p
      BY <1>3, <1>4, <2>4, <2>5, <2>7, <3>1
    <3>3. IsReply(stdout[i], "subscribed") /\ stdout[i].id = stream.id
      BY <2>2, <2>7 DEF SubscribedAt
    <3>4. IsReply(stdout'[p], "subscribed") /\ stdout'[p].id = stream'.id
      BY <1>2, <1>4, <3>2, <3>3
    <3>5. ASSUME NEW k \in DOMAIN stdout', p < k PROVE ~IsReply(stdout'[k], "subscribed")
      <4>0. k \in Nat
        BY <1>4
      <4>1. i < k + 1
        BY <3>2, <3>5, <4>0
      <4> QED BY <1>4, <2>2, <4>1 DEF SubscribedAt
    <3>6. SubscribedAt(p)'
      BY <3>2, <3>4, <3>5 DEF SubscribedAt
    <3> QED BY <2>5, <3>2, <3>6
  <2> QED BY <2>4, <2>6, <2>7
<1>7. stream.id # 0 =>
        /\ machine.session # 0
        /\ \A k \in DOMAIN stdout' : IsReply(stdout'[k], "unsubscribed") => stdout'[k].base # stream.id
  BY <1>4 DEF Followed
<1> QED BY <1>2, <1>5, <1>6, <1>7 DEF Followed

LEMMA FollowedServed ==
  ASSUME Handling, Spoken, Followed, Serving
  PROVE  Followed'
<1>0. /\ stdout \in Seq(Outputs) /\ machine \in Guests /\ stream \in Streams /\ held \in Outputs /\ WorkerTypes
      /\ UNCHANGED <<calls, view, guest, subscription, delivery>>
  BY ServingIs DEF Spoken, WorkerTypes, viewVars, deliveryVars
<1>1. PICK id : id = Head(stdin)
  OBVIOUS
<1>2. /\ id \in Nat \ {0} /\ id \notin executed
      /\ \/ \E word : Plain(id, word)
         \/ Shows(id) \/ Ends(id) \/ Silences(id) \/ Streaming(id)
  BY <1>0, <1>1, ServingSays
<1>3. NotObserved.id = 0
  BY <1>0, NotObservedIs
<1>4. stream'.id = stream.id => (Tuned => Tuned')
  BY <1>0 DEF Tuned
<1>5. ASSUME NEW o, Appended(o), ~IsClosing(o), SameKey(machine', machine), stream'.id \in {0, stream.id},
             stream'.id # 0 => ~IsReply(o, "subscribed") /\ ~IsReply(o, "unsubscribed")
      PROVE  Followed'
  BY <1>0, <1>4, <1>5, FollowedAppended
<1>6. CASE \E word : Plain(id, word)
  <2>1. PICK o \in Outputs, word \in {"hello", "assemble", "error", "closed"} :
           /\ o.type = "reply" /\ o.kind = word /\ stdout' = Append(stdout, o)
           /\ UNCHANGED <<machine, stream, held>>
    BY <1>6 DEF Plain
  <2>2. Appended(o) /\ ~IsClosing(o) /\ SameKey(machine', machine)
        /\ ~IsReply(o, "subscribed") /\ ~IsReply(o, "unsubscribed")
    BY <2>1 DEF Appended, IsClosing, IsReply, SameKey
  <2> QED BY <1>5, <2>1, <2>2
<1>7. CASE Shows(id)
  <2>1. PICK o \in Outputs :
           /\ o.type = "reply" /\ o.kind = "observed" /\ o.guest = machine'
           /\ \/ stdout' = Append(stdout, o)
              \/ UNCHANGED stdout /\ SameKey(machine', machine)
           /\ stream' = IF SameKey(machine', machine) THEN stream ELSE NotObserved
    BY <1>7 DEF Shows
  <2>2. ~IsClosing(o) /\ IsReply(o, "observed") /\ ~IsReply(o, "subscribed") /\ ~IsReply(o, "unsubscribed")
    BY <2>1 DEF IsClosing, IsReply
  <2>3. CASE UNCHANGED stdout /\ SameKey(machine', machine)
    <3>1. stream' = stream
      BY <2>1, <2>3
    <3> QED BY <1>0, <1>4, <2>3, <3>1, FollowedSame
  <2>4. CASE stdout' = Append(stdout, o) /\ SameKey(machine', machine)
    <3>1. stream' = stream /\ Appended(o)
      BY <2>1, <2>4 DEF Appended
    <3> QED BY <1>5, <2>2, <2>4, <3>1
  <2>5. CASE stdout' = Append(stdout, o) /\ ~SameKey(machine', machine)
    <3>1. stream'.id = 0 /\ Appended(o)
      BY <1>3, <2>1, <2>5 DEF Appended
    <3>2. \E j \in 0 .. Len(stdout') : ShownAt(j)'
      BY <1>0, <2>1, <2>2, <3>1, ShownNew
    <3> QED BY <3>1, <3>2 DEF Followed
  <2> QED BY <2>1, <2>3, <2>4, <2>5
<1>8. CASE Ends(id)
  <2>1. machine' = NoGuest /\ stream'.id = 0
    BY <1>3, <1>8 DEF Ends
  <2>2. machine'.session = 0
    BY <2>1, Empty0
  <2> QED BY <2>1, <2>2 DEF Followed
<1>9. CASE Silences(id)
  <2>1. PICK o \in Outputs : o.type = "reply" /\ o.kind = "unsubscribed" /\ stdout' = Append(stdout, o)
    BY <1>9 DEF Silences
  <2>2. stream'.id = 0 /\ UNCHANGED machine
    BY <1>3, <1>9 DEF Silences
  <2>3. Appended(o) /\ ~IsClosing(o) /\ SameKey(machine', machine)
    BY <2>1, <2>2 DEF Appended, IsClosing, IsReply, SameKey
  <2> QED BY <1>5, <2>2, <2>3
<1>10. CASE Streaming(id)
  <2>1. PICK o \in Outputs : o.type = "reply" /\ o.kind = "subscribed" /\ o.id = id /\ stdout' = Append(stdout, o)
    BY <1>10 DEF Streaming
  <2>2. Appended(o) /\ ~IsClosing(o) /\ IsReply(o, "subscribed") /\ ~IsReply(o, "unsubscribed")
    BY <2>1 DEF Appended, IsClosing, IsReply
  <2>3. stream'.id = id /\ machine.session # 0 /\ SameKey(machine', machine) /\ machine'.session = machine.session
    BY <1>0, <1>10, ObservedIs DEF Streaming, Observing
  <2>4. PICK l : l = Len(stdout) + 1
    OBVIOUS
  <2>5. /\ DOMAIN stdout' = 1 .. l /\ l \in Nat \ {0} /\ stdout'[l] = o /\ Len(stdout') = l
        /\ DOMAIN stdout = 1 .. l - 1 /\ \A k \in 1 .. l - 1 : stdout'[k] = stdout[k]
        /\ Len(stdout) = l - 1
    BY <1>0, <2>1, <2>4, AppendIs
  <2>6. PICK j \in 0 .. Len(stdout) : ShownAt(j)
    BY <2>3 DEF Followed
  <2>7. ShownAt(j)' /\ j \in 0 .. Len(stdout')
    BY <1>0, <2>2, <2>3, <2>6, ShownAppended
  <2>8. \A k \in DOMAIN stdout' : ~(l < k)
    BY <2>5
  <2>9. SubscribedAt(l)'
    BY <2>1, <2>2, <2>3, <2>5, <2>8 DEF SubscribedAt
  <2>10. ASSUME NEW k \in DOMAIN stdout', IsReply(stdout'[k], "unsubscribed") PROVE stdout'[k].base # stream'.id
    <3>1. CASE k = l
      BY <2>2, <2>5, <2>10, <3>1
    <3>2. CASE k # l
      <4>1. k \in DOMAIN stdout /\ stdout'[k] = stdout[k]
        BY <2>5, <3>2
      <4> QED BY <1>2, <2>3, <2>10, <4>1 DEF Spoken, Said, SaidOf
    <3> QED BY <3>1, <3>2
  <2>11. l \in 0 .. Len(stdout') /\ j \in 0 .. l
    BY <2>5, <2>7
  <2> QED BY <2>3, <2>7, <2>9, <2>10, <2>11 DEF Followed
<1> QED BY <1>2, <1>6, <1>7, <1>8, <1>9, <1>10

LEMMA FollowedNext ==
  ASSUME Sound, Handling, Spoken, Owned, Ordered, Followed, [Next]_vars
  PROVE  Followed'
<1>0. /\ view \in Nat /\ stdout \in Seq(Outputs) /\ machine \in Guests /\ stream \in Streams /\ held \in Outputs
      /\ WorkerTypes /\ Keeping
  BY DEF Spoken, WindowTypes, WorkerTypes, Said, Keeping
<1>1. CASE Spawn
  <2>1. machine'.session = 0 /\ stream'.id = 0
    BY <1>1, SpawnEmpties, Empty0
  <2> QED BY <2>1 DEF Followed
<1>2. CASE WorkerReleases \/ WorkerCaptures \/ WorkerSamples \/ GuestStops
  <2>0. UNCHANGED <<calls, view, guest, subscription, delivery>>
    BY <1>0, <1>2, WorkerIs DEF deliveryVars
  <2>1. stream'.id = stream.id => (Tuned => Tuned')
    BY <2>0 DEF Tuned
  <2>2. CASE WorkerReleases
    <3>1. stdout' = Append(stdout, held) /\ held # NoEvent /\ UNCHANGED <<machine, stream>>
      BY <2>2 DEF WorkerReleases, Says
    <3>2. PICK o \in Outputs : o = held /\ IsReply(o, "observed")
      BY <1>0, <3>1 DEF Keeping
    <3>3. Appended(o) /\ ~IsClosing(o) /\ SameKey(machine', machine)
          /\ ~IsReply(o, "subscribed") /\ ~IsReply(o, "unsubscribed")
      BY <3>1, <3>2 DEF Appended, IsClosing, IsReply, SameKey
    <3> QED BY <1>0, <2>0, <2>1, <3>1, <3>3, FollowedAppended
  <2>3. CASE WorkerCaptures
    <3>1. UNCHANGED stdout /\ (Observing(stream.id) \/ Loses)
      BY <1>0, <2>3, CapturesIs
    <3>2. SameKey(machine', machine) /\ stream'.id \in {0, stream.id}
      BY <1>0, <3>1, ObservedIs DEF Observing, Loses, SameKey
    <3> QED BY <2>0, <2>1, <3>1, <3>2, FollowedSame
  <2>4. CASE WorkerSamples
    <3>1. UNCHANGED machine /\ stream'.id = stream.id /\ stream.latest # NoEvent
      BY <1>0, <2>4, SamplesIs
    <3>2. PICK o \in Outputs : stdout' = Append(stdout, o) /\ (o = stream.latest \/ Changes(o, stream.latest))
      BY <1>0, <2>4, SamplesIs
    <3>3. o.type = "event"
      BY <1>0, <3>1, <3>2 DEF Keeping, IsEvent, Changes
    <3>4. Appended(o) /\ ~IsClosing(o) /\ SameKey(machine', machine)
          /\ ~IsReply(o, "subscribed") /\ ~IsReply(o, "unsubscribed")
      BY <3>1, <3>2, <3>3 DEF Appended, IsClosing, IsReply, SameKey
    <3> QED BY <1>0, <2>0, <2>1, <3>1, <3>4, FollowedAppended
  <2>5. CASE GuestStops
    <3>1. UNCHANGED <<stdout, stream>> /\ SameKey(machine', machine)
      BY <1>0, <2>5, StopsIs DEF GuestStops, SameKey
    <3> QED BY <2>0, <2>1, <3>1, FollowedSame
  <2> QED BY <1>2, <2>2, <2>3, <2>4, <2>5
<1>3. CASE WorkerErrs
  BY <1>3 DEF WorkerErrs, Sound
<1> QED BY <1>0, <1>1, <1>2, <1>3, NextIs, FollowedWindow, FollowedRead, FollowedServed
-----------------------------------------------------------------------------
(* Without a defective worker: the supervisor stays in step with it.       *)

LEMMA SyncedInit == Init => Synced
<1> SUFFICES ASSUME Init PROVE Synced
  OBVIOUS
<1>1. /\ calls = <<>> /\ queue = <<>> /\ stdin = <<>> /\ stdout = <<>> /\ writing = 0 /\ failure = "none"
      /\ guest = NoGuest /\ closedSession = 0 /\ machine = NoGuest /\ stream = NoStream /\ held = NoEvent
  BY DEF Init
<1>2. DOMAIN stdout = {} /\ DOMAIN queue = {} /\ DOMAIN stdin = {}
  BY <1>1
<1>3. Awaited
  BY <1>1, <1>2 DEF Awaited, Waiting, Answering
<1>4. Chained
  BY <1>1, <1>2, Empty0 DEF Chained, Deltas, Based, Newer
<1>5. InFlight = {NoGuest}
  BY <1>1, <1>2, Empty0 DEF InFlight
<1>6. Behind
  BY <1>1, <1>5, Empty0 DEF Behind
<1>7. Ending
  BY <1>1, <1>2, <1>5, Empty0 DEF Ending
<1>8. Followed
  BY <1>1, Empty0 DEF Followed
<1> QED BY <1>3, <1>4, <1>6, <1>7, <1>8 DEF Synced, Ordered

LEMMA SyncedNext == Sound /\ Told /\ Synced /\ [Next]_vars => Synced'
<1> SUFFICES ASSUME Sound, Told, Synced, [Next]_vars PROVE Synced'
  OBVIOUS
<1>1. Handling /\ Spoken /\ Owned
  BY DEF Told, Speaking, Spoken
<1> QED BY <1>1, AwaitedNext, ChainedNext, OrderedNext, FollowedNext DEF Synced

LEMMA StepKept == Told /\ Synced => InStep
<1> SUFFICES ASSUME Told, Synced PROVE InStep
  OBVIOUS
<1>1. failure # "protocol" /\ WindowTypes /\ WorkerTypes /\ Ordered /\ Followed
  BY DEF Told, Speaking, Synced, Awaited
<1>2. ASSUME stdout = <<>>
      PROVE  /\ SameKey(guest, machine)
             /\ stream.id # 0 => Tuned
  <2>1. DOMAIN stdout = {} /\ Len(stdout) = 0
    BY <1>2
  <2>2. SameKey(guest, machine)
    <3>1. CASE machine.session # 0
      <4>1. PICK j \in 0 .. Len(stdout) : ShownAt(j)
        BY <1>1, <3>1 DEF Followed
      <4>2. j = 0
        BY <2>1, <4>1
      <4> QED BY <4>1, <4>2 DEF ShownAt
    <3>2. CASE machine.session = 0
      <4>1. guest \in InFlight /\ machine \in InFlight /\ guest \in Guests /\ closedSession \in Nat
        BY <1>1, InFlightTyped DEF WindowTypes
      <4>2. guest.session <= closedSession
        BY <1>1, <2>1, <3>2, <4>1 DEF Ordered, Ending
      <4>3. guest.session \in Nat
        BY <4>1, GuestIs
      <4>4. guest = NoGuest
        BY <1>1, <4>1, <4>2, <4>3 DEF Ordered, Ending
      <4>5. machine = NoGuest
        BY <1>1, <3>2, <4>1 DEF Ordered, Behind
      <4> QED BY <4>4, <4>5 DEF SameKey
    <3> QED BY <3>1, <3>2
  <2>3. ASSUME stream.id # 0 PROVE Tuned
    <3>1. PICK i \in 0 .. Len(stdout) : SubscribedAt(i)
      BY <1>1, <2>3 DEF Followed
    <3>2. i = 0
      BY <2>1, <3>1
    <3> QED BY <3>1, <3>2 DEF SubscribedAt
  <2> QED BY <2>2, <2>3
<1> QED BY <1>1, <1>2 DEF InStep, Tuned

(***************************************************************************)
(* With a worker that says only what it does, and within its limits, the   *)
(* supervisor never fails its protocol, and with the pipes empty it shows  *)
(* the session the worker has, and delivers the stream the attached window *)
(* asked for (src-tauri/src/supervisor.rs State::observe, read;            *)
(* supervisor/observations.rs Cache::apply).  A reply is awaited when it   *)
(* is read, a delta extends the event written before it, and an            *)
(* observation of a session is behind the guest and ahead of its closing,  *)
(* whatever overtook it.                                                   *)
(***************************************************************************)
THEOREM SupervisorInStep ==
  ASSUME Sound
  PROVE  Spec => []InStep
<1>1. Init => Told /\ Synced
  BY ToldInit, SyncedInit
<1>2. Told /\ Synced /\ [Next]_vars => (Told /\ Synced)'
  BY ToldNext, SyncedNext
<1>3. Told /\ Synced => InStep
  BY StepKept
<1> QED BY <1>1, <1>2, <1>3, PTL DEF Spec
=============================================================================
