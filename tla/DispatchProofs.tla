----------------------------- MODULE DispatchProofs -----------------------------
(***************************************************************************)
(* Proofs about the worker, for every capacity, number of requests, set of *)
(* documents, commands and failures.                                       *)
(***************************************************************************)
EXTENDS DispatchProperties, Counting, TLAPS

USE DispatchAssumption, LanesAssumption, PendingAssumption, OwnerAssumption

Positive == Nat \ {0}

(***************************************************************************)
(* Types.  A reply names its request and is no event; a sample names its   *)
(* subscription.  A call of a handler sends a reply, with the reservation  *)
(* of the active build when there is one ("busy"), or puts a sample.       *)
(***************************************************************************)
Keys == Nat \X Nat
Views ==
    [key : Keys, sequence : Nat, status : Statuses \cup {"none"}, config : Configs, memory : BOOLEAN]
ReplyKinds ==
    {"none", "hello", "protocol", "superseded", "error", "cancelled", "assembly_cancelled",
     "subscribed", "unsubscribed", "observed", "session_closed", "decoded", "trace", "closed",
     "assembled", "resource_limit"}
MessageKinds == ReplyKinds \cup EventKinds \cup {"capture"}
Messages == [id : Nat, kind : MessageKinds, view : Views, base : Nat]
ReplyMessages == {m \in Messages : m.id # 0 /\ ~IsEvent(m)}
SampleMessages == {m \in Messages : m.id # 0 /\ m.kind \in {"capture", "ended"}}
CallRecords == [call : {"send", "observe", "sample"}, message : Messages, reserve : BOOLEAN]
Calls ==
    {c \in CallRecords :
        /\ c.call = "send" => c.message \in ReplyMessages
        /\ c.call = "observe" => c.message \in SampleMessages \cup {NoMessage}}

SendCalls(busy) ==
    {c \in Calls : /\ c.call = "send"
                   /\ c.message \in ReplyMessages /\ c.message.kind # "assembled"
                   /\ IsBulk(c.message) => c.reserve = busy}
ObserveCalls ==
    {c \in Calls : c.call = "observe" /\ c.message \in SampleMessages \cup {NoMessage}}
PlannedCalls(busy) == SendCalls(busy) \cup ObserveCalls \cup {Sample}

QueuedEvents ==
    [type : {"request"}, id : Nat, kind : AllKinds]
      \cup [type : {"closed", "failed", "writable"}, id : {0}, kind : {"none"}]
      \cup [type : {"build"}, id : Positive, kind : {"assembled", "error"}]
Closings ==
    [reason : {"none", "rejected", "end"}, id : {0}] \cup [reason : {"shutdown"}, id : Positive]
Subscriptions ==
    {NoSubscription} \cup [id : Positive, key : Keys, memory : BOOLEAN, running : BOOLEAN]
Builds == [id : Positive, document : Documents]

LaneTypes ==
    /\ control \in Seq(ReplyMessages) /\ bulk \in Seq(ReplyMessages)
    /\ final \in ReplyMessages \cup {NoMessage}
    /\ observation \in SampleMessages \cup {NoMessage}
    /\ closed \in BOOLEAN /\ failed \in BOOLEAN

WriterTypes ==
    /\ writer \in {"receive", "announce", "write", "failing", "done"}
    /\ writing \in (IF writer \in {"announce", "write"} THEN ReplyMessages \cup SampleMessages
                                                        ELSE {NoMessage})
    /\ wire \in Seq(Messages)
    /\ baseline \in SampleMessages \cup {NoMessage}

OwnerTypes ==
    /\ session \in Nat /\ generation \in Nat /\ sequence \in Nat
    /\ status \in Statuses \cup {"none"} /\ config \in Configs

QueueTypes ==
    /\ events \in Seq(QueuedEvents)
    /\ input \in {"open", "done"} /\ sent \in Nat
    /\ jobs \in Seq(Positive) /\ compiling \in Nat

LoopTypes ==
    /\ stage \in {"receive", "due", "schedule"} /\ todo \in Seq(Calls)
    /\ negotiated \in BOOLEAN /\ last \in Nat
    /\ closing \in Closings /\ subscription \in Subscriptions
    /\ outcome \in {"serving", "failed", "complete", "rejected"}

BuildTypes ==
    /\ pending \in Seq(Builds)
    /\ active \in {NoBuild} \cup [id : Positive, cancelled : BOOLEAN]

TypeOK == LaneTypes /\ WriterTypes /\ OwnerTypes /\ QueueTypes /\ LoopTypes /\ BuildTypes

-----------------------------------------------------------------------------
(* Counting replies in sequences of messages and of calls.                 *)

LEMMA CountTyped == \A c \in BOOLEAN : Count(c) \in {0, 1}
BY DEF Count

RepliesFor(id) == {m \in Messages : IsReplyTo(m, id)}

LEMMA RepliesAsOccurrences ==
  ASSUME NEW s \in Seq(Messages), NEW id
  PROVE  RepliesIn(s, id) = Occurrences(s, RepliesFor(id))
<1>1. \A i \in DOMAIN s : s[i] \in Messages
  BY LenProperties, ElementOfSeq
<1>2. {i \in DOMAIN s : IsReplyTo(s[i], id)} = {i \in DOMAIN s : s[i] \in RepliesFor(id)}
  BY <1>1 DEF RepliesFor
<1> QED BY <1>2 DEF RepliesIn, Occurrences

LEMMA RepliesInAppend ==
  ASSUME NEW s \in Seq(Messages), NEW m \in Messages, NEW id
  PROVE  RepliesIn(Append(s, m), id) = RepliesIn(s, id) + Count(IsReplyTo(m, id))
<1> DEFINE t == Append(s, m)
<1>1. t \in Seq(Messages)
  BY AppendProperties
<1>2. Counted(m, RepliesFor(id), Occurrences(s, RepliesFor(id)), Occurrences(t, RepliesFor(id)))
  BY OccurrencesAppend
<1>3. Occurrences(s, RepliesFor(id)) \in Nat
  BY OccurrencesConcat
<1> HIDE DEF t
<1>4. /\ RepliesIn(s, id) = Occurrences(s, RepliesFor(id))
      /\ RepliesIn(t, id) = Occurrences(t, RepliesFor(id))
  BY <1>1, RepliesAsOccurrences
<1>5. m \in RepliesFor(id) <=> IsReplyTo(m, id)
  BY DEF RepliesFor
<1>6. RepliesIn(t, id) = RepliesIn(s, id) + Count(IsReplyTo(m, id))
  BY <1>2, <1>3, <1>4, <1>5 DEF Counted, Count
<1> QED BY <1>6 DEF t

LEMMA RepliesInTail ==
  ASSUME NEW s \in Seq(Messages), s # <<>>, NEW id
  PROVE  RepliesIn(s, id) = RepliesIn(Tail(s), id) + Count(IsReplyTo(Head(s), id))
<1> DEFINE t == Tail(s)
           m == Head(s)
<1>1. t \in Seq(Messages) /\ m \in Messages
  BY HeadTailProperties
<1>2. Counted(m, RepliesFor(id), Occurrences(t, RepliesFor(id)), Occurrences(s, RepliesFor(id)))
  BY OccurrencesTail
<1> HIDE DEF t, m
<1>3. Occurrences(t, RepliesFor(id)) \in Nat
  BY <1>1, OccurrencesConcat
<1>4. /\ RepliesIn(s, id) = Occurrences(s, RepliesFor(id))
      /\ RepliesIn(t, id) = Occurrences(t, RepliesFor(id))
  BY <1>1, RepliesAsOccurrences
<1>5. m \in RepliesFor(id) <=> IsReplyTo(m, id)
  BY <1>1 DEF RepliesFor
<1>6. RepliesIn(s, id) = RepliesIn(t, id) + Count(IsReplyTo(m, id))
  BY <1>2, <1>3, <1>4, <1>5 DEF Counted, Count
<1> QED BY <1>6 DEF t, m

LEMMA RepliesInTyped ==
  ASSUME NEW s \in Seq(Messages), NEW id
  PROVE  RepliesIn(s, id) \in Nat
<1>1. Occurrences(s, RepliesFor(id)) \in Nat
  BY OccurrencesConcat
<1> QED BY <1>1, RepliesAsOccurrences

LEMMA RepliesInEmpty == \A id : RepliesIn(<<>>, id) = 0
<1> TAKE id
<1>1. {i \in DOMAIN <<>> : IsReplyTo(<<>>[i], id)} = {}
  OBVIOUS
<1> QED BY <1>1, FS_EmptySet DEF RepliesIn

Sends(c, id) == c.call = "send" /\ IsReplyTo(c.message, id)
SendsFor(id) == {c \in Calls : Sends(c, id)}

LEMMA CallsAsOccurrences ==
  ASSUME NEW s \in Seq(Calls), NEW id
  PROVE  CallsTo(s, id) = Occurrences(s, SendsFor(id))
<1>1. \A i \in DOMAIN s : s[i] \in Calls
  BY LenProperties, ElementOfSeq
<1>2. {i \in DOMAIN s : s[i].call = "send" /\ IsReplyTo(s[i].message, id)}
        = {i \in DOMAIN s : s[i] \in SendsFor(id)}
  BY <1>1 DEF SendsFor, Sends
<1> QED BY <1>2 DEF CallsTo, Occurrences

LEMMA CallsToConcat ==
  ASSUME NEW s \in Seq(Calls), NEW t \in Seq(Calls), NEW id
  PROVE  CallsTo(s \o t, id) = CallsTo(s, id) + CallsTo(t, id)
<1> DEFINE u == s \o t
<1>1. u \in Seq(Calls)
  BY ConcatProperties
<1>2. Occurrences(u, SendsFor(id)) = Occurrences(s, SendsFor(id)) + Occurrences(t, SendsFor(id))
  BY OccurrencesConcat
<1> HIDE DEF u
<1>3. CallsTo(u, id) = CallsTo(s, id) + CallsTo(t, id)
  BY <1>1, <1>2, CallsAsOccurrences
<1> QED BY <1>3 DEF u

LEMMA CallsToOne ==
  ASSUME NEW c \in Calls, NEW id
  PROVE  <<c>> \in Seq(Calls) /\ CallsTo(<<c>>, id) = Count(Sends(c, id))
<1> DEFINE s == <<c>>
<1>1. s \in Seq(Calls)
  OBVIOUS
<1>2. /\ c \in SendsFor(id) => Occurrences(s, SendsFor(id)) = 1
      /\ c \notin SendsFor(id) => Occurrences(s, SendsFor(id)) = 0
  BY OccurrencesSmall
<1> HIDE DEF s
<1>3. CallsTo(s, id) = Count(Sends(c, id))
  BY <1>1, <1>2, CallsAsOccurrences DEF SendsFor, Count
<1> QED BY <1>1, <1>3 DEF s

LEMMA CallsToTail ==
  ASSUME NEW s \in Seq(Calls), s # <<>>, NEW id
  PROVE  CallsTo(s, id) = CallsTo(Tail(s), id) + Count(Sends(Head(s), id))
<1> DEFINE t == Tail(s)
           c == Head(s)
<1>1. t \in Seq(Calls) /\ c \in Calls
  BY HeadTailProperties
<1>2. Counted(c, SendsFor(id), Occurrences(t, SendsFor(id)), Occurrences(s, SendsFor(id)))
  BY OccurrencesTail
<1> HIDE DEF t, c
<1>3. Occurrences(t, SendsFor(id)) \in Nat
  BY <1>1, OccurrencesConcat
<1>4. /\ CallsTo(s, id) = Occurrences(s, SendsFor(id))
      /\ CallsTo(t, id) = Occurrences(t, SendsFor(id))
  BY <1>1, CallsAsOccurrences
<1>5. c \in SendsFor(id) <=> Sends(c, id)
  BY <1>1 DEF SendsFor
<1>6. CallsTo(s, id) = CallsTo(t, id) + Count(Sends(c, id))
  BY <1>2, <1>3, <1>4, <1>5 DEF Counted, Count
<1> QED BY <1>6 DEF t, c

LEMMA CallsToTyped ==
  ASSUME NEW s \in Seq(Calls), NEW id
  PROVE  CallsTo(s, id) \in Nat
<1>1. Occurrences(s, SendsFor(id)) \in Nat
  BY OccurrencesConcat
<1> QED BY <1>1, CallsAsOccurrences

LEMMA CallsToEmpty == \A id : CallsTo(<<>>, id) = 0
<1> TAKE id
<1>1. {i \in DOMAIN <<>> : <<>>[i].call = "send" /\ IsReplyTo(<<>>[i].message, id)} = {}
  OBVIOUS
<1> QED BY <1>1, FS_EmptySet DEF CallsTo

(* The builds of a request among those that wait. *)
Waiting(s, id) == Cardinality({i \in DOMAIN s : s[i].id = id})
BuildsFor(id) == {b \in Builds : b.id = id}

LEMMA WaitingAsOccurrences ==
  ASSUME NEW s \in Seq(Builds), NEW id
  PROVE  Waiting(s, id) = Occurrences(s, BuildsFor(id)) /\ Waiting(s, id) \in Nat
<1>1. \A i \in DOMAIN s : s[i] \in Builds
  BY LenProperties, ElementOfSeq
<1>2. {i \in DOMAIN s : s[i].id = id} = {i \in DOMAIN s : s[i] \in BuildsFor(id)}
  BY <1>1 DEF BuildsFor
<1>3. Waiting(s, id) = Occurrences(s, BuildsFor(id))
  BY <1>2 DEF Waiting, Occurrences
<1> QED BY <1>3, OccurrencesConcat

LEMMA WaitingAppend ==
  ASSUME NEW s \in Seq(Builds), NEW b \in Builds, NEW id
  PROVE  Waiting(Append(s, b), id) = Waiting(s, id) + Count(b.id = id)
<1> DEFINE t == Append(s, b)
<1>1. t \in Seq(Builds)
  BY AppendProperties
<1>2. Counted(b, BuildsFor(id), Occurrences(s, BuildsFor(id)), Occurrences(t, BuildsFor(id)))
  BY OccurrencesAppend
<1> HIDE DEF t
<1>3. Waiting(t, id) = Waiting(s, id) + Count(b.id = id)
  BY <1>1, <1>2, WaitingAsOccurrences DEF Counted, Count, BuildsFor
<1> QED BY <1>3 DEF t

LEMMA WaitingTail ==
  ASSUME NEW s \in Seq(Builds), s # <<>>, NEW id
  PROVE  Waiting(s, id) = Waiting(Tail(s), id) + Count(Head(s).id = id)
<1> DEFINE t == Tail(s)
           b == Head(s)
<1>1. t \in Seq(Builds) /\ b \in Builds
  BY HeadTailProperties
<1>2. Counted(b, BuildsFor(id), Occurrences(t, BuildsFor(id)), Occurrences(s, BuildsFor(id)))
  BY OccurrencesTail
<1> HIDE DEF t, b
<1>3. Waiting(s, id) = Waiting(t, id) + Count(b.id = id)
  BY <1>1, <1>2, WaitingAsOccurrences DEF Counted, Count, BuildsFor
<1> QED BY <1>3 DEF t, b

LEMMA WaitingRemoveAt ==
  ASSUME NEW s \in Seq(Builds), NEW i \in 1 .. Len(s), NEW id
  PROVE  Waiting(s, id) = Waiting(RemoveAt(s, i), id) + Count(s[i].id = id)
<1> DEFINE t == RemoveAt(s, i)
           b == s[i]
<1>1. t \in Seq(Builds) /\ b \in Builds
  BY RemoveAtTyped, ElementOfSeq
<1>2. Counted(b, BuildsFor(id), Occurrences(t, BuildsFor(id)), Occurrences(s, BuildsFor(id)))
  BY OccurrencesRemoveAt
<1> HIDE DEF t, b
<1>3. Waiting(s, id) = Waiting(t, id) + Count(b.id = id)
  BY <1>1, <1>2, WaitingAsOccurrences DEF Counted, Count, BuildsFor
<1> QED BY <1>3 DEF t, b

-----------------------------------------------------------------------------
(* What a handler plans: its calls, and the request they reply to if any.  *)

Plan(calls, busy, id) ==
    /\ calls \in Seq(PlannedCalls(busy))
    /\ \A n \in Positive : CallsTo(calls, n) = Count(n = id)

LEMMA MessageTyped ==
  ASSUME NEW id \in Positive, NEW kind \in MessageKinds, NEW view \in Views
  PROVE  /\ Message(id, kind, view) \in Messages
         /\ kind \in ReplyKinds => Message(id, kind, view) \in ReplyMessages
         /\ kind \in {"capture", "ended"} => Message(id, kind, view) \in SampleMessages
         /\ Message(id, kind, view).id = id /\ Message(id, kind, view).kind = kind
         /\ Message(id, kind, view).view = view
<1> DEFINE m == Message(id, kind, view)
<1>1. m \in Messages /\ m.id = id /\ m.kind = kind /\ m.view = view
  BY DEF Message, Messages, Positive
<1>2. kind \in ReplyKinds => ~IsEvent(m)
  BY <1>1 DEF IsEvent, ReplyKinds, EventKinds
<1> HIDE DEF m
<1>3. /\ kind \in ReplyKinds => m \in ReplyMessages
      /\ kind \in {"capture", "ended"} => m \in SampleMessages
  BY <1>1, <1>2 DEF ReplyMessages, SampleMessages, Positive
<1> QED BY <1>1, <1>3 DEF m

LEMMA NoMessageTyped == NoView \in Views /\ NoMessage \in Messages
<1>1. NoKey \in Keys
  BY DEF NoKey, Keys
<1>2. NoView \in Views
  BY <1>1 DEF NoView, Views
<1> QED BY <1>2 DEF NoMessage, Reply, Message, Messages, MessageKinds, ReplyKinds

(* The calls reply to two requests. *)
PlanTwo(calls, busy, i, j) ==
    /\ calls \in Seq(PlannedCalls(busy))
    /\ \A n \in Positive : CallsTo(calls, n) = Count(n = i) + Count(n = j)

LEMMA PlannedAreCalls == \A busy : PlannedCalls(busy) \subseteq Calls
<1> TAKE busy
<1>1. Sample \in Calls
  BY NoMessageTyped DEF Sample, Calls, CallRecords
<1>2. SendCalls(busy) \subseteq Calls /\ ObserveCalls \subseteq Calls
  BY DEF SendCalls, ObserveCalls
<1> QED BY <1>1, <1>2 DEF PlannedCalls

LEMMA PlanNone == \A busy : Plan(<<>>, busy, 0)
BY CallsToEmpty DEF Plan, Positive, Count

LEMMA PlanOne ==
  ASSUME NEW busy, NEW c \in PlannedCalls(busy), NEW id \in Nat,
         \A n \in Positive : Sends(c, n) <=> n = id
  PROVE  Plan(<<c>>, busy, id)
<1>1. c \in Calls
  BY PlannedAreCalls
<1>2. \A n \in Positive : CallsTo(<<c>>, n) = Count(n = id)
  BY <1>1, CallsToOne DEF Count
<1>3. <<c>> \in Seq(PlannedCalls(busy))
  OBVIOUS
<1> QED BY <1>2, <1>3 DEF Plan

LEMMA PlanSend ==
  ASSUME NEW busy \in BOOLEAN, NEW reserve \in BOOLEAN, NEW m \in ReplyMessages,
         m.kind # "assembled", IsBulk(m) => reserve = busy
  PROVE  Plan(<<Send(m, reserve)>>, busy, m.id)
<1> DEFINE c == Send(m, reserve)
<1>1. c.call = "send" /\ c.message = m /\ c.reserve = reserve
      /\ c = [call |-> "send", message |-> m, reserve |-> reserve]
  BY DEF Send
<1>2. m \in Messages /\ m.id \in Nat
  BY DEF ReplyMessages, Messages
<1>3. c \in Calls
  BY <1>1, <1>2 DEF Calls, CallRecords
<1>4. c \in PlannedCalls(busy)
  BY <1>1, <1>3 DEF PlannedCalls, SendCalls
<1>5. \A n \in Positive : Sends(c, n) <=> n = m.id
  BY <1>1 DEF Sends, IsReplyTo, ReplyMessages
<1> HIDE DEF c
<1>6. Plan(<<c>>, busy, m.id)
  BY <1>2, <1>4, <1>5, PlanOne
<1> QED BY <1>6 DEF c

LEMMA PlanPut ==
  ASSUME NEW busy, NEW sample \in SampleMessages \cup {NoMessage}
  PROVE  Plan(<<Put(sample)>>, busy, 0)
<1> DEFINE c == Put(sample)
<1>1. c.call = "observe" /\ c.message = sample
      /\ c = [call |-> "observe", message |-> sample, reserve |-> FALSE]
  BY DEF Put
<1>2. c \in Calls
  BY <1>1, NoMessageTyped DEF Calls, CallRecords, SampleMessages
<1>3. c \in PlannedCalls(busy)
  BY <1>1, <1>2 DEF PlannedCalls, ObserveCalls
<1>4. \A n \in Positive : Sends(c, n) <=> n = 0
  BY <1>1 DEF Sends, Positive
<1> HIDE DEF c
<1>5. Plan(<<c>>, busy, 0)
  BY <1>3, <1>4, PlanOne
<1> QED BY <1>5 DEF c

LEMMA PlanSample == \A busy : Plan(<<Sample>>, busy, 0)
<1> TAKE busy
<1>1. Sample \in PlannedCalls(busy)
  BY DEF PlannedCalls
<1>2. \A n \in Positive : Sends(Sample, n) <=> n = 0
  BY DEF Sends, Sample, Positive
<1> QED BY <1>1, <1>2, PlanOne

LEMMA PlanConcat ==
  ASSUME NEW busy, NEW s, NEW t, NEW i \in Nat, NEW j \in Nat,
         Plan(s, busy, i), Plan(t, busy, j)
  PROVE  /\ PlanTwo(s \o t, busy, i, j)
         /\ i = 0 => Plan(s \o t, busy, j)
         /\ j = 0 => Plan(s \o t, busy, i)
<1> DEFINE u == s \o t
<1>1. s \in Seq(PlannedCalls(busy)) /\ t \in Seq(PlannedCalls(busy))
  BY DEF Plan
<1>2. s \in Seq(Calls) /\ t \in Seq(Calls)
  BY <1>1, PlannedAreCalls, SeqMonotonic
<1>3. u \in Seq(PlannedCalls(busy))
  BY <1>1, ConcatProperties
<1>4. \A n \in Positive : CallsTo(u, n) = CallsTo(s, n) + CallsTo(t, n)
  BY <1>2, CallsToConcat
<1> HIDE DEF u
<1>5. \A n \in Positive : CallsTo(u, n) = Count(n = i) + Count(n = j)
  BY <1>4 DEF Plan
<1>6. i = 0 => Plan(u, busy, j)
  BY <1>3, <1>5 DEF Plan, Count, Positive
<1>7. j = 0 => Plan(u, busy, i)
  BY <1>3, <1>5 DEF Plan, Count, Positive
<1> QED BY <1>3, <1>5, <1>6, <1>7 DEF u, PlanTwo

LEMMA PlanBefore ==
  ASSUME NEW busy, NEW s, NEW t, NEW id \in Nat, Plan(s, busy, 0), Plan(t, busy, id)
  PROVE  Plan(s \o t, busy, id)
BY PlanConcat

LEMMA PlanAfter ==
  ASSUME NEW busy, NEW s, NEW t, NEW id \in Nat, Plan(s, busy, id), Plan(t, busy, 0)
  PROVE  Plan(s \o t, busy, id)
BY PlanConcat

(* The answers and samples the handlers use. *)
LEMMA PlanAnswer ==
  ASSUME NEW busy \in BOOLEAN, NEW id \in Positive,
         NEW kind \in ReplyKinds \ {"assembled", "decoded", "observed"}
  PROVE  Plan(Answer(id, kind), busy, id)
<1> DEFINE m == Reply(id, kind)
<1>1. m \in ReplyMessages /\ m.id = id /\ m.kind = kind
  BY NoMessageTyped, MessageTyped DEF Reply, MessageKinds
<1>2. ~IsBulk(m)
  BY <1>1 DEF IsBulk
<1> HIDE DEF m
<1>3. Plan(<<Send(m, FALSE)>>, busy, id)
  BY <1>1, <1>2, PlanSend
<1> QED BY <1>3 DEF Answer, m

LEMMA PlanStop == \A busy : Plan(StopObserving, busy, 0)
BY PlanPut DEF StopObserving

-----------------------------------------------------------------------------
(* The execution owner keeps its types, and shows typed views.             *)

LEMMA ApplyTyped ==
  ASSUME OwnerTypes, NEW command, Apply(command)
  PROVE  generation' \in Nat /\ status' \in Statuses \cup {"none"} /\ config' \in Configs
<1>1. ASSUME NEW event \in Events, Control(event)
      PROVE  generation' \in Nat /\ status' \in Statuses
  BY <1>1 DEF Control, Target, Events, Statuses, OwnerTypes
<1>2. "start" \in Events /\ "pause" \in Events /\ "terminate" \in Events /\ "reset" \in Events
      /\ "crash" \in Events
  BY DEF Events
<1>3. {"running", "paused", "terminated", "crashed"} \subseteq Statuses
  BY DEF Statuses
<1> QED BY <1>1, <1>2, <1>3 DEF Apply, OwnerTypes

LEMMA ObservedTyped ==
  ASSUME OwnerTypes, NEW command, NEW memory, Observed(command, memory)
  PROVE  OwnerTypes'
BY ApplyTyped DEF Observed, OwnerTypes

LEMMA UnobservedTyped ==
  ASSUME OwnerTypes, NEW command, Unobserved(command)
  PROVE  OwnerTypes'
BY ApplyTyped DEF Unobserved, OwnerTypes

LEMMA OwnerStepsTyped ==
  /\ Unload => OwnerTypes'
  /\ \A id \in Nat : Load(id) => OwnerTypes'
  /\ OwnerTypes /\ Advance => OwnerTypes'
  /\ OwnerTypes /\ UNCHANGED ownerVars => OwnerTypes'
<1>1. Unload => OwnerTypes'
  BY DEF Unload, OwnerTypes
<1>2. \A id \in Nat : Load(id) => OwnerTypes'
  BY DEF Load, OwnerTypes, Statuses
<1>3. OwnerTypes /\ Advance => OwnerTypes'
  BY DEF Advance, OwnerTypes, Statuses
<1>4. OwnerTypes /\ UNCHANGED ownerVars => OwnerTypes'
  BY DEF ownerVars, OwnerTypes
<1> QED BY <1>1, <1>2, <1>3, <1>4

LEMMA ViewTyped ==
  ASSUME OwnerTypes, NEW memory \in BOOLEAN
  PROVE  View(memory) \in Views /\ Key \in Keys
<1>1. Key \in Keys
  BY DEF Key, Keys, OwnerTypes
<1> QED BY <1>1 DEF View, Views, OwnerTypes

LEMMA ViewTypedNext ==
  ASSUME OwnerTypes', NEW memory \in BOOLEAN
  PROVE  View(memory)' \in Views /\ Key' \in Keys
<1>1. Key' \in Keys
  BY DEF Key, Keys, OwnerTypes
<1> QED BY <1>1 DEF View, Views, OwnerTypes

-----------------------------------------------------------------------------
(***************************************************************************)
(* Handlers.  Most commands are accepted and answered at once; what they   *)
(* do to the guest does not matter to the count of replies.                *)
(***************************************************************************)
Accepts ==
    /\ Receive("request") /\ ~OutOfOrder
    /\ last' = Request.id
    /\ stage' = "due" /\ UNCHANGED <<outcome, lanes>>

AnswersNow ==
    /\ Accepts
    /\ Plan(todo', Busy, last')
    /\ closing' \in Closings /\ closing'.id = 0
    /\ negotiated' \in BOOLEAN /\ subscription' \in Subscriptions /\ OwnerTypes'
    /\ UNCHANGED buildsVars

LEMMA ReceiveTyped ==
  ASSUME TypeOK, NEW type, Receive(type)
  PROVE  /\ Request \in QueuedEvents /\ Request = events[1] /\ Request.type = type
         /\ Request.id \in Nat
         /\ events \in Seq(QueuedEvents) /\ events # <<>> /\ 1 \in DOMAIN events
         /\ events' = Tail(events) /\ events' \in Seq(QueuedEvents)
         /\ Len(events) \in Nat /\ Len(events') = Len(events) - 1
         /\ \A i \in 1 .. Len(events') : events'[i] = events[i + 1]
<1>1. events \in Seq(QueuedEvents) /\ events # <<>> /\ Request.type = type
      /\ events' = Tail(events)
  BY DEF TypeOK, QueueTypes, Receive, Request
<1>2. /\ Head(events) \in QueuedEvents /\ Head(events) = events[1] /\ 1 \in DOMAIN events
  BY <1>1, HeadBeforeTail
<1>3. Request.id \in Nat
  BY <1>2 DEF Request, QueuedEvents, Positive
<1> QED BY <1>1, <1>2, <1>3, HeadTailProperties, LenProperties DEF Request

LEMMA AcceptsTyped ==
  ASSUME TypeOK, Accepts
  PROVE  /\ Request.id \in Positive /\ last' = Request.id /\ last < last'
         /\ closing = NotClosing /\ NotClosing.id = 0 /\ NotClosing \in Closings
         /\ Busy \in BOOLEAN
<1>1. Request \in QueuedEvents /\ last \in Nat
  BY ReceiveTyped DEF Accepts, TypeOK, LoopTypes
<1>2. Request.id \in Nat
  BY ReceiveTyped DEF Accepts
<1> QED BY <1>1, <1>2 DEF Accepts, OutOfOrder, Positive, NotClosing, Closings, Busy

LEMMA PerformedPlan ==
  ASSUME NEW reply \in ReplyMessages, reply.kind # "assembled", NEW refresh \in BOOLEAN,
         TypeOK, Performed(reply, refresh)
  PROVE  /\ Plan(todo', Busy, reply.id)
         /\ subscription' \in {subscription, NoSubscription}
         /\ stage' = "due" /\ UNCHANGED <<outcome, lanes>>
<1> DEFINE a == IF Ends(reply) THEN StopObserving ELSE <<>>
           b == <<Send(reply, Busy)>>
           c == IF refresh /\ reply.kind # "error" THEN <<Sample>> ELSE <<>>
<1>1. Plan(a, Busy, 0) /\ Plan(c, Busy, 0)
  BY PlanNone, PlanStop, PlanSample
<1>2. Busy \in BOOLEAN /\ reply.id \in Nat
  BY DEF Busy, ReplyMessages, Messages
<1>3. Plan(b, Busy, reply.id)
  BY <1>2, PlanSend
<1>4. todo' = (a \o b) \o c
  BY DEF Performed, Handled
<1> HIDE DEF a, b, c
<1>5. Plan(a \o b, Busy, reply.id)
  BY <1>1, <1>2, <1>3, PlanBefore
<1>6. Plan((a \o b) \o c, Busy, reply.id)
  BY <1>1, <1>2, <1>5, PlanAfter
<1> QED BY <1>4, <1>6 DEF Performed, Handled

LEMMA HandshakeAnswers ==
  ASSUME TypeOK, Handshake
  PROVE  AnswersNow
<1>1. Accepts
  BY DEF Handshake, Accepts, Handled
<1>2. Plan(todo', Busy, last')
  <2>1. Request.id \in Positive /\ last' = Request.id /\ Busy \in BOOLEAN
    BY <1>1, AcceptsTyped
  <2>2. \A kind \in {"hello", "protocol"} : Plan(Answer(Request.id, kind), Busy, Request.id)
    BY <2>1, PlanAnswer DEF ReplyKinds
  <2> QED BY <2>1, <2>2 DEF Handshake, Handled
<1>3. closing' \in Closings /\ closing'.id = 0
  BY <1>1, AcceptsTyped DEF Handshake, Closings
<1>4. negotiated' \in BOOLEAN /\ subscription' \in Subscriptions /\ UNCHANGED ownerVars
      /\ UNCHANGED buildsVars
  BY DEF Handshake, TypeOK, LoopTypes
<1> QED BY <1>1, <1>2, <1>3, <1>4, OwnerStepsTyped DEF AnswersNow, TypeOK

(* A negotiated command that is handled is accepted. *)
LEMMA CommandAccepts ==
  ASSUME TypeOK, NEW kind, Command(kind), stage' = "due", UNCHANGED <<outcome, lanes>>
  PROVE  /\ Accepts /\ Request.id \in Positive /\ last' = Request.id /\ Busy \in BOOLEAN
         /\ negotiated' \in BOOLEAN
         /\ UNCHANGED closing => closing' \in Closings /\ closing'.id = 0
<1>1. Accepts
  BY DEF Command, Accepts
<1> QED BY <1>1, AcceptsTyped DEF Command, TypeOK, LoopTypes

LEMMA SubscribeAnswers ==
  ASSUME TypeOK, Subscribe
  PROVE  AnswersNow
<1>0. stage' = "due" /\ UNCHANGED <<outcome, lanes, closing, buildsVars>> /\ Command("subscribe")
  BY DEF Subscribe, Handled
<1>1. Accepts /\ Request.id \in Positive /\ last' = Request.id /\ Busy \in BOOLEAN
      /\ negotiated' \in BOOLEAN /\ closing' \in Closings /\ closing'.id = 0
  BY <1>0, CommandAccepts
<1>2. ASSUME NEW memory \in BOOLEAN, Observed("observe", memory),
             subscription' = [id |-> Request.id, key |-> Key, memory |-> memory,
                              running |-> status = "running"],
             Handled(StopObserving \o Answer(Request.id, "subscribed")
                       \o <<Put(Message(Request.id, "capture", View(memory)'))>>)
      PROVE  AnswersNow
  <2>1. OwnerTypes'
    BY <1>2, ObservedTyped DEF TypeOK
  <2>2. View(memory)' \in Views /\ Key \in Keys
    BY <2>1, ViewTypedNext, ViewTyped DEF TypeOK
  <2> DEFINE m == Message(Request.id, "capture", View(memory)')
             a == StopObserving
             b == Answer(Request.id, "subscribed")
             c == <<Put(m)>>
  <2>3. m \in SampleMessages
    BY <1>1, <2>2, MessageTyped DEF MessageKinds
  <2>4. Plan(a, Busy, 0) /\ Plan(b, Busy, Request.id) /\ Plan(c, Busy, 0)
    <3>1. Plan(c, Busy, 0)
      BY <2>3, PlanPut
    <3>2. Plan(b, Busy, Request.id)
      BY <1>1, PlanAnswer DEF ReplyKinds
    <3> QED BY <3>1, <3>2, PlanStop
  <2>5. todo' = (a \o b) \o c
    BY <1>2 DEF Handled
  <2> HIDE DEF m, a, b, c
  <2>6. Plan(a \o b, Busy, Request.id)
    BY <1>1, <2>4, PlanBefore DEF Positive
  <2>7. Plan((a \o b) \o c, Busy, Request.id)
    BY <1>1, <2>4, <2>6, PlanAfter DEF Positive
  <2>8. subscription' \in Subscriptions
    BY <1>1, <1>2, <2>2 DEF Subscriptions
  <2> QED BY <1>0, <1>1, <2>1, <2>5, <2>7, <2>8 DEF AnswersNow
<1>3. ASSUME Handled(Answer(Request.id, "error")), UNCHANGED <<subscription, ownerVars>>
      PROVE  AnswersNow
  <2>1. Plan(todo', Busy, Request.id)
    BY <1>1, <1>3, PlanAnswer DEF ReplyKinds, Handled
  <2>2. OwnerTypes' /\ subscription' \in Subscriptions
    BY <1>3, OwnerStepsTyped DEF TypeOK, LoopTypes
  <2> QED BY <1>0, <1>1, <2>1, <2>2 DEF AnswersNow
<1> QED BY <1>2, <1>3 DEF Subscribe

LEMMA UnsubscribeAnswers ==
  ASSUME TypeOK, Unsubscribe
  PROVE  AnswersNow
<1>0. stage' = "due" /\ UNCHANGED <<outcome, lanes, closing, buildsVars, ownerVars>>
      /\ Command("unsubscribe")
  BY DEF Unsubscribe, Handled
<1>1. Accepts /\ Request.id \in Positive /\ last' = Request.id /\ Busy \in BOOLEAN
      /\ negotiated' \in BOOLEAN /\ closing' \in Closings /\ closing'.id = 0
  BY <1>0, CommandAccepts
<1>2. OwnerTypes'
  BY <1>0, OwnerStepsTyped DEF TypeOK
<1>3. subscription' \in Subscriptions
  BY DEF Unsubscribe, Subscriptions, TypeOK, LoopTypes
<1>4. CASE subscription' = NoSubscription
           /\ Handled(StopObserving \o <<Send([Reply(Request.id, "unsubscribed")
                                                 EXCEPT !.base = subscription.id], FALSE)>>)
  <2> DEFINE m == [Reply(Request.id, "unsubscribed") EXCEPT !.base = subscription.id]
             b == <<Send(m, FALSE)>>
             a == StopObserving
  <2>1. subscription.id \in Nat
    BY DEF TypeOK, LoopTypes, Subscriptions, NoSubscription, Positive
  <2>2. Reply(Request.id, "unsubscribed") \in ReplyMessages
    BY <1>1, NoMessageTyped, MessageTyped DEF Reply, MessageKinds, ReplyKinds
  <2>3. m \in ReplyMessages /\ m.id = Request.id /\ m.kind = "unsubscribed"
    BY <2>1, <2>2 DEF ReplyMessages, Messages, IsEvent, Reply, Message
  <2>4. ~IsBulk(m)
    BY <2>3 DEF IsBulk
  <2> HIDE DEF m
  <2>5. Plan(a, Busy, 0) /\ Plan(b, Busy, Request.id)
    BY <1>1, <2>3, <2>4, PlanStop, PlanSend
  <2>6. todo' = a \o b
    BY <1>4 DEF Handled, m
  <2> HIDE DEF a, b
  <2>7. Plan(todo', Busy, Request.id)
    BY <1>1, <2>5, <2>6, PlanBefore DEF Positive
  <2> QED BY <1>0, <1>1, <1>2, <1>3, <2>7 DEF AnswersNow
<1>5. CASE Handled(Answer(Request.id, "error"))
  <2>1. Plan(todo', Busy, Request.id)
    BY <1>1, <1>5, PlanAnswer DEF ReplyKinds, Handled
  <2> QED BY <1>0, <1>1, <1>2, <1>3, <2>1 DEF AnswersNow
<1> QED BY <1>4, <1>5 DEF Unsubscribe

(* A command that is performed and answered. *)
LEMMA PerformedAnswers ==
  ASSUME TypeOK, NEW kind, Command(kind), UNCHANGED <<closing, buildsVars>>,
         NEW reply, NEW refresh \in BOOLEAN, Performed(reply, refresh), OwnerTypes',
         NEW answer \in ReplyKinds \ {"assembled"}, NEW view \in Views,
         reply = Message(Request.id, answer, view)
  PROVE  AnswersNow
<1>1. stage' = "due" /\ UNCHANGED <<outcome, lanes>>
  BY DEF Performed, Handled
<1>2. Accepts /\ Request.id \in Positive /\ last' = Request.id
      /\ negotiated' \in BOOLEAN /\ closing' \in Closings /\ closing'.id = 0
  BY <1>1, CommandAccepts
<1>3. reply \in ReplyMessages /\ reply.id = Request.id /\ reply.kind = answer
  BY <1>2, MessageTyped DEF MessageKinds
<1>4. Plan(todo', Busy, Request.id) /\ subscription' \in {subscription, NoSubscription}
  BY <1>3, PerformedPlan
<1>5. subscription' \in Subscriptions
  BY <1>4 DEF TypeOK, LoopTypes, Subscriptions
<1> QED BY <1>2, <1>4, <1>5 DEF AnswersNow

LEMMA LoadAnswers ==
  ASSUME TypeOK, LoadImage
  PROVE  AnswersNow
<1>0. Command("load") /\ UNCHANGED <<closing, buildsVars>>
  BY DEF LoadImage
<1>1. ASSUME Load(Request.id),
             Performed(Message(Request.id, "observed", View(FALSE)'), FALSE)
      PROVE  AnswersNow
  <2>1. Request.id \in Nat
    BY <1>0, ReceiveTyped DEF Command, QueuedEvents
  <2>2. OwnerTypes'
    BY <1>1, <2>1, OwnerStepsTyped
  <2>3. View(FALSE)' \in Views
    BY <2>2, ViewTypedNext
  <2> QED BY <1>0, <1>1, <2>2, <2>3, PerformedAnswers DEF ReplyKinds
<1>2. ASSUME Performed(Reply(Request.id, "error"), FALSE), UNCHANGED ownerVars
      PROVE  AnswersNow
  BY <1>0, <1>2, OwnerStepsTyped, NoMessageTyped, PerformedAnswers DEF ReplyKinds, Reply, TypeOK
<1> QED BY <1>1, <1>2 DEF LoadImage

LEMMA ExecuteAnswers ==
  ASSUME TypeOK, Execute
  PROVE  AnswersNow
<1>1. PICK command \in Controls \cup {"observe"} :
        /\ Command(command)
        /\ \/ \E memory \in (IF command = "observe" THEN BOOLEAN ELSE {FALSE}) :
                /\ Observed(command, memory)
                /\ Performed(Message(Request.id, "observed", View(memory)'),
                             command # "observe")
           \/ /\ UNCHANGED ownerVars \/ Unobserved(command)
              /\ Performed(Reply(Request.id, "error"), command # "observe")
  BY DEF Execute
<1>2. UNCHANGED <<closing, buildsVars>>
  BY DEF Execute
<1>3. ASSUME NEW memory \in BOOLEAN, Observed(command, memory),
             Performed(Message(Request.id, "observed", View(memory)'), command # "observe")
      PROVE  AnswersNow
  <2>1. OwnerTypes'
    BY <1>3, ObservedTyped DEF TypeOK
  <2>2. View(memory)' \in Views
    BY <2>1, ViewTypedNext
  <2> QED BY <1>1, <1>2, <1>3, <2>1, <2>2, PerformedAnswers DEF ReplyKinds
<1>4. ASSUME UNCHANGED ownerVars \/ Unobserved(command),
             Performed(Reply(Request.id, "error"), command # "observe")
      PROVE  AnswersNow
  <2>1. OwnerTypes'
    BY <1>4, UnobservedTyped, OwnerStepsTyped DEF TypeOK
  <2> QED BY <1>1, <1>2, <1>4, <2>1, NoMessageTyped, PerformedAnswers DEF ReplyKinds, Reply
<1> QED BY <1>1, <1>3, <1>4

LEMMA CloseAnswers ==
  ASSUME TypeOK, CloseSession
  PROVE  AnswersNow
<1>0. Command("close") /\ UNCHANGED <<closing, buildsVars>>
  BY DEF CloseSession
<1>1. ASSUME Unload,
             Performed(Message(Request.id, "session_closed", [NoView EXCEPT !.key = Key]), TRUE)
      PROVE  AnswersNow
  <2>1. OwnerTypes'
    BY <1>1, OwnerStepsTyped
  <2>2. [NoView EXCEPT !.key = Key] \in Views
    BY NoMessageTyped, ViewTyped DEF TypeOK, Views
  <2> QED BY <1>0, <1>1, <2>1, <2>2, PerformedAnswers DEF ReplyKinds
<1>2. ASSUME Performed(Reply(Request.id, "error"), TRUE), UNCHANGED ownerVars
      PROVE  AnswersNow
  BY <1>0, <1>2, OwnerStepsTyped, NoMessageTyped, PerformedAnswers DEF ReplyKinds, Reply, TypeOK
<1> QED BY <1>1, <1>2 DEF CloseSession

LEMMA InspectAnswers ==
  ASSUME TypeOK, Inspect
  PROVE  AnswersNow
<1>1. PICK kind \in {"hello", "decode", "read_trace"}, answer \in {"error", "decoded", "trace"} :
        Command(kind) /\ Performed(Reply(Request.id, answer), FALSE)
  BY DEF Inspect
<1>2. UNCHANGED <<closing, buildsVars>> /\ OwnerTypes'
  BY OwnerStepsTyped DEF Inspect, TypeOK
<1> QED BY <1>1, <1>2, NoMessageTyped, PerformedAnswers DEF ReplyKinds, Reply

(* The commands that are accepted and answered at once. *)
LEMMA HandlersAnswer ==
  ASSUME TypeOK,
         Handshake \/ Subscribe \/ Unsubscribe \/ LoadImage \/ Execute \/ CloseSession \/ Inspect
  PROVE  AnswersNow
BY HandshakeAnswers, SubscribeAnswers, UnsubscribeAnswers, LoadAnswers, ExecuteAnswers,
   CloseAnswers, InspectAnswers

-----------------------------------------------------------------------------
(* Every handler takes the oldest event, and either plans its calls or     *)
(* fails the dispatcher; the threads and the lanes are not touched.        *)
Fails ==
    /\ outcome' = "failed" /\ closed' = TRUE
    /\ UNCHANGED <<stage, todo, negotiated, last, closing, subscription, buildsVars, ownerVars>>

Untouched ==
    UNCHANGED <<readerVars, assemblyVars, writerVars, control, bulk, final, observation, failed>>

LEMMA HandlerFrame ==
  ASSUME Handler
  PROVE  /\ Serving /\ \E type \in {"request", "closed", "failed", "build", "writable"} : Receive(type)
         /\ Untouched
         /\ (stage' = "due" /\ UNCHANGED <<closed, outcome>>) \/ Fails
<1> USE DEF Handled, Untouched, Receive, lanes, Fails, Fail, CloseOutbox, loopVars
<1>1. CASE RefuseRequest
  BY <1>1 DEF RefuseRequest
<1>2. CASE Handshake
  BY <1>2 DEF Handshake
<1>3. CASE Assemble
  BY <1>3 DEF Assemble, Command
<1>4. CASE CancelAssembly
  BY <1>4 DEF CancelAssembly, Command
<1>5. CASE Subscribe
  BY <1>5 DEF Subscribe, Command
<1>6. CASE Unsubscribe
  BY <1>6 DEF Unsubscribe, Command
<1>7. CASE LoadImage
  BY <1>7 DEF LoadImage, Command, Performed
<1>8. CASE Execute
  BY <1>8 DEF Execute, Command, Performed
<1>9. CASE CloseSession
  BY <1>9 DEF CloseSession, Command, Performed
<1>10. CASE Inspect
  BY <1>10 DEF Inspect, Command, Performed
<1>11. CASE Shutdown
  BY <1>11 DEF Shutdown, Command
<1>12. CASE InputClosed
  BY <1>12 DEF InputClosed
<1>13. CASE BuildFinished
  BY <1>13 DEF BuildFinished
<1>14. CASE Writable
  BY <1>14 DEF Writable
<1>15. CASE ThreadFailed
  BY <1>15 DEF ThreadFailed
<1> QED BY <1>1, <1>2, <1>3, <1>4, <1>5, <1>6, <1>7, <1>8, <1>9, <1>10, <1>11, <1>12, <1>13,
           <1>14, <1>15 DEF Handler

(* The handlers that are not answers at once. *)
BuildHandler == Assemble \/ CancelAssembly \/ BuildFinished
EndHandler == Shutdown \/ InputClosed \/ Writable

LEMMA HandlerCases ==
  ASSUME TypeOK, Handler
  PROVE  AnswersNow \/ BuildHandler \/ EndHandler \/ Fails
<1>1. RefuseRequest \/ ThreadFailed => Fails
  BY DEF RefuseRequest, ThreadFailed, Fail, CloseOutbox, Fails
<1> QED BY <1>1, HandlersAnswer DEF Handler, BuildHandler, EndHandler

-----------------------------------------------------------------------------
(* The types are invariant.                                                *)

(* The other steps: what each leaves alone. *)
Caller == SendReply \/ PutSample \/ RefreshSample \/ SampleDue
Scheduler == StartBuild \/ Conclude \/ Continue

LEMMA CallerFrame ==
  ASSUME Caller
  PROVE  /\ Serving /\ UNCHANGED <<readerVars, events, loopVars, assemblyVars, writerVars, buildsVars>>
         /\ UNCHANGED <<final, closed, failed>>
<1> USE DEF Caller, Calling, lanes
<1>1. CASE SendReply
  BY <1>1 DEF SendReply, SendBulk, SendControl
<1>2. CASE PutSample
  BY <1>2 DEF PutSample, Observe
<1>3. CASE RefreshSample
  BY <1>3 DEF RefreshSample
<1>4. CASE SampleDue
  BY <1>4 DEF SampleDue
<1> QED BY <1>1, <1>2, <1>3, <1>4

LEMMA SchedulerFrame ==
  ASSUME Scheduler
  PROVE  /\ Serving /\ todo = <<>> /\ stage' = "receive"
         /\ UNCHANGED <<readerVars, events, todo, negotiated, last, closing, subscription,
                        compiling, writerVars, ownerVars>>
         /\ UNCHANGED <<control, bulk, observation, failed>>
<1> USE DEF Scheduler, Scheduling, lanes
<1>1. CASE StartBuild
  BY <1>1 DEF StartBuild
<1>2. CASE Conclude
  BY <1>2 DEF Conclude, SendFinal, CloseOutbox
<1>3. CASE Continue
  BY <1>3 DEF Continue
<1> QED BY <1>1, <1>2, <1>3

LEMMA OutputLostFrame ==
  ASSUME OutputLost
  PROVE  Serving /\ failed /\ Fails /\ Untouched /\ UNCHANGED events
BY DEF OutputLost, Fail, CloseOutbox, Fails, Untouched

LEMMA ReaderFrame ==
  ASSUME ReadRequest \/ ReadEnd
  PROVE  /\ Serving /\ input = "open"
         /\ UNCHANGED <<stage, todo, loopVars, subscription, assemblyVars, writerVars, buildsVars,
                        lanes, ownerVars>>
BY DEF ReadRequest, ReadEnd

LEMMA AssemblyFrame ==
  ASSUME Assembly
  PROVE  /\ Serving
         /\ UNCHANGED <<readerVars, stage, todo, loopVars, subscription, writerVars, buildsVars,
                        lanes, ownerVars>>
BY DEF Assembly, CompileTake, CompileDone

LEMMA WriterFrame ==
  ASSUME Writer
  PROVE  /\ UNCHANGED <<readerVars, stage, todo, loopVars, subscription, assemblyVars,
                        buildsVars, ownerVars>>
         /\ UNCHANGED closed
<1> USE DEF WriterStep, lanes
<1>1. CASE WriterReceive
  BY <1>1 DEF WriterReceive, ReceiveControl, ReceiveBulk, ReceiveSample, ReceiveFinal
<1>2. CASE WriterAnnounce
  BY <1>2 DEF WriterAnnounce
<1>3. CASE WriterWrite
  BY <1>3 DEF WriterWrite
<1>4. CASE WriterFinish
  BY <1>4 DEF WriterFinish
<1>5. CASE WriterFails
  BY <1>5 DEF WriterFails, LoseOutbox
<1>6. CASE WriterReports
  BY <1>6 DEF WriterReports
<1> QED BY <1>1, <1>2, <1>3, <1>4, <1>5, <1>6 DEF Writer

(* The steps of the worker. *)
LEMMA Steps ==
  ASSUME [Next]_vars
  PROVE  \/ ReadRequest \/ ReadEnd \/ Handler \/ Caller \/ Scheduler \/ OutputLost
         \/ Assembly \/ GuestAdvance \/ Writer \/ UNCHANGED vars
BY DEF Next, Dispatcher, Caller, Scheduler

LEMMA EmptyTyped == \A S : <<>> \in Seq(S)
BY EmptySeq

LEMMA TypesInit == Init => TypeOK
<1> SUFFICES ASSUME Init PROVE TypeOK
  OBVIOUS
<1> USE EmptyTyped DEF Init
<1>1. LaneTypes
  BY DEF OutboxInit, LaneTypes
<1>2. WriterTypes
  BY DEF EncoderInit, WriterTypes
<1>3. OwnerTypes
  BY DEF OwnerInit, OwnerTypes
<1>4. QueueTypes
  BY DEF QueueTypes
<1>5. LoopTypes
  BY DEF LoopTypes, Closings, NotClosing, Subscriptions
<1>6. BuildTypes
  BY DEF BuildTypes, BuildsInit
<1> QED BY <1>1, <1>2, <1>3, <1>4, <1>5, <1>6 DEF TypeOK

(* The head of a lane is a reply. *)
LEMMA LaneHead ==
  ASSUME NEW lane \in Seq(ReplyMessages), lane # <<>>
  PROVE  Head(lane) \in ReplyMessages /\ Tail(lane) \in Seq(ReplyMessages)
BY HeadTailProperties

LEMMA CallsHead ==
  ASSUME TypeOK, todo # <<>>
  PROVE  Head(todo) \in Calls /\ Tail(todo) \in Seq(Calls) /\ Head(todo) = todo[1]
         /\ 1 \in DOMAIN todo
<1>1. todo \in Seq(Calls)
  BY DEF TypeOK, LoopTypes
<1> QED BY <1>1, HeadTailProperties, HeadBeforeTail

LEMMA SendTyped ==
  ASSUME TypeOK, Calling("send")
  PROVE  Head(todo).message \in ReplyMessages /\ Head(todo).reserve \in BOOLEAN
<1>1. Head(todo) \in Calls /\ Head(todo).call = "send"
  BY CallsHead DEF Calling
<1> QED BY <1>1 DEF Calls, CallRecords

LEMMA LanesTyped ==
  ASSUME TypeOK, [Next]_vars
  PROVE  LaneTypes'
<1>0. LaneTypes
  BY DEF TypeOK
<1>1. CASE UNCHANGED lanes
  BY <1>0, <1>1 DEF LaneTypes, lanes
<1>2. CASE UNCHANGED <<control, bulk, final, observation, failed>> /\ closed' = TRUE
  BY <1>0, <1>2 DEF LaneTypes
<1>3. CASE Handler
  BY <1>1, <1>2, <1>3, HandlerFrame DEF Untouched, Fails, lanes
<1>4. CASE SendReply
  <2> DEFINE m == Head(todo).message
  <2>1. m \in ReplyMessages
    BY <1>4, SendTyped DEF SendReply
  <2>2. CASE SendBulk(m, Head(todo).reserve)
    <3>1. bulk' \in Seq(ReplyMessages)
      BY <1>0, <2>1, <2>2, AppendProperties DEF SendBulk, LaneTypes
    <3> QED BY <1>0, <2>2, <3>1 DEF SendBulk, LaneTypes
  <2>3. CASE SendControl(m, Head(todo).reserve)
    <3>1. Reply(m.id, "resource_limit") \in ReplyMessages
      <4>1. m.id \in Positive
        BY <2>1 DEF ReplyMessages, Messages, Positive
      <4> QED BY <4>1, NoMessageTyped, MessageTyped DEF Reply, MessageKinds, ReplyKinds
    <3>2. control' \in Seq(ReplyMessages)
      BY <1>0, <2>1, <2>3, <3>1, AppendProperties DEF SendControl, LaneTypes
    <3> QED BY <1>0, <2>3, <3>2 DEF SendControl, LaneTypes
  <2> QED BY <1>4, <2>2, <2>3 DEF SendReply
<1>5. CASE PutSample
  <2>1. Head(todo) \in Calls /\ Head(todo).call = "observe"
    BY <1>5, CallsHead DEF PutSample, Calling
  <2>2. observation' \in SampleMessages \cup {NoMessage}
    BY <1>5, <2>1 DEF PutSample, Observe, Calls
  <2> QED BY <1>0, <1>5, <2>2 DEF PutSample, Observe, LaneTypes
<1>6. CASE RefreshSample \/ SampleDue
  BY <1>1, <1>6 DEF RefreshSample, SampleDue
<1>7. CASE Conclude
  <2>1. closing.id \in Positive \/ closing.reason # "shutdown"
    BY DEF TypeOK, LoopTypes, Closings
  <2>2. closing.reason = "shutdown" => Reply(closing.id, "closed") \in ReplyMessages
    BY <2>1, NoMessageTyped, MessageTyped DEF Reply, MessageKinds, ReplyKinds
  <2> QED BY <1>0, <1>7, <2>2 DEF Conclude, SendFinal, CloseOutbox, LaneTypes
<1>8. CASE StartBuild \/ Continue
  BY <1>1, <1>8 DEF StartBuild, Continue
<1>9. CASE OutputLost
  BY <1>2, <1>9, OutputLostFrame DEF Untouched, Fails
<1>10. CASE ReadRequest \/ ReadEnd \/ Assembly \/ GuestAdvance
  BY <1>1, <1>10, ReaderFrame, AssemblyFrame DEF GuestAdvance
<1>11. CASE WriterReceive
  BY <1>0, <1>11, LaneHead
     DEF WriterReceive, ReceiveControl, ReceiveBulk, ReceiveSample, ReceiveFinal, LaneTypes
<1>12. CASE WriterFails
  BY <1>0, <1>12, EmptyTyped DEF WriterFails, LoseOutbox, LaneTypes
<1>13. CASE WriterAnnounce \/ WriterWrite \/ WriterFinish \/ WriterReports
  BY <1>1, <1>13 DEF WriterAnnounce, WriterWrite, WriterFinish, WriterReports
<1>14. CASE UNCHANGED vars
  BY <1>1, <1>14 DEF vars, lanes
<1> QED BY <1>3, <1>4, <1>5, <1>6, <1>7, <1>8, <1>9, <1>10, <1>11, <1>12, <1>13, <1>14, Steps
        DEF Caller, Scheduler, Writer

LEMMA WriterTyped ==
  ASSUME TypeOK, [Next]_vars
  PROVE  WriterTypes'
<1>0. WriterTypes /\ LaneTypes
  BY DEF TypeOK
<1>1. CASE UNCHANGED writerVars
  BY <1>0, <1>1 DEF WriterTypes, writerVars
<1>2. CASE ~Writer
  <2>1. UNCHANGED writerVars
    BY <1>2, Steps, HandlerFrame, CallerFrame, SchedulerFrame, OutputLostFrame, ReaderFrame,
       AssemblyFrame DEF Untouched, GuestAdvance, vars
  <2> QED BY <1>1, <2>1
<1>3. CASE WriterReceive
  <2>1. writing' \in ReplyMessages \cup SampleMessages
    BY <1>0, <1>3, LaneHead
       DEF WriterReceive, ReceiveControl, ReceiveBulk, ReceiveSample, ReceiveFinal, LaneTypes
  <2> QED BY <1>0, <1>3, <2>1 DEF WriterReceive, WriterTypes
<1>4. CASE WriterAnnounce
  BY <1>0, <1>4 DEF WriterAnnounce, WriterTypes
<1>5. CASE WriterWrite
  <2>1. writing \in ReplyMessages \cup SampleMessages
    BY <1>0, <1>5 DEF WriterWrite, WriterTypes
  <2>2. baseline.view.sequence \in Nat
    BY <1>0, NoMessageTyped DEF WriterTypes, SampleMessages, Messages, Views
  <2>3. Encoded(writing) \in Messages
    BY <2>1, <2>2 DEF Encoded, ReplyMessages, SampleMessages, Messages, MessageKinds, EventKinds
  <2>4. wire' \in Seq(Messages)
    BY <1>0, <1>5, <2>3, AppendProperties DEF WriterWrite, WriterTypes
  <2>5. baseline' \in SampleMessages \cup {NoMessage}
    BY <1>0, <1>5, <2>1 DEF WriterWrite, Baseline, ReplyMessages, IsEvent, WriterTypes
  <2> QED BY <1>0, <1>5, <2>4, <2>5 DEF WriterWrite, WriterTypes
<1>6. CASE WriterFinish \/ WriterFails \/ WriterReports
  BY <1>0, <1>6 DEF WriterFinish, WriterFails, WriterReports, WriterTypes
<1> QED BY <1>2, <1>3, <1>4, <1>5, <1>6 DEF Writer

(* A capture for the subscription leaves typed state and puts one sample. *)
LEMMA CaptureTyped ==
  ASSUME TypeOK, subscription # NoSubscription, NEW rest \in Seq(Calls), Capture(rest)
  PROVE  /\ OwnerTypes' /\ subscription' \in Subscriptions
         /\ \E sample \in SampleMessages : todo' = <<Put(sample)>> \o rest
<1>1. /\ subscription.id \in Positive /\ subscription.key \in Keys
      /\ subscription.memory \in BOOLEAN
      /\ subscription \in [id : Positive, key : Keys, memory : BOOLEAN, running : BOOLEAN]
  BY DEF TypeOK, LoopTypes, Subscriptions
<1>2. ASSUME Observed("observe", subscription.memory),
             subscription' = [subscription EXCEPT !.running = status = "running"],
             todo' = <<Put(Message(subscription.id, "capture", View(subscription.memory)'))>> \o rest
      PROVE  /\ OwnerTypes' /\ subscription' \in Subscriptions
             /\ \E sample \in SampleMessages : todo' = <<Put(sample)>> \o rest
  <2>1. OwnerTypes'
    BY <1>2, ObservedTyped DEF TypeOK
  <2>2. View(subscription.memory)' \in Views
    <3>1. \A memory \in BOOLEAN :
             [key |-> Key', sequence |-> sequence', status |-> status', config |-> config',
              memory |-> memory] \in Views
      BY <2>1, ViewTypedNext DEF View
    <3>2. subscription' = [subscription EXCEPT !.running = status = "running"]
      BY <1>2
    <3>3. subscription'.memory = subscription.memory
      BY <1>1, <3>2
    <3> QED BY <1>1, <3>1, <3>3 DEF View
  <2>3. Message(subscription.id, "capture", View(subscription.memory)') \in SampleMessages
    BY <1>1, <2>2, MessageTyped DEF MessageKinds
  <2>4. subscription' \in Subscriptions
    BY <1>1, <1>2 DEF Subscriptions
  <2> QED BY <1>2, <2>1, <2>3, <2>4
<1>3. ASSUME subscription' = NoSubscription, UNCHANGED ownerVars,
             todo' = <<Put(Reply(subscription.id, "ended"))>> \o rest
      PROVE  /\ OwnerTypes' /\ subscription' \in Subscriptions
             /\ \E sample \in SampleMessages : todo' = <<Put(sample)>> \o rest
  <2>1. Reply(subscription.id, "ended") \in SampleMessages
    BY <1>1, NoMessageTyped, MessageTyped DEF MessageKinds, EventKinds, Reply
  <2>2. OwnerTypes' /\ subscription' \in Subscriptions
    BY <1>3, OwnerStepsTyped DEF TypeOK, Subscriptions
  <2> QED BY <1>3, <2>1, <2>2
<1> QED BY <1>2, <1>3 DEF Capture

LEMMA OwnerTyped ==
  ASSUME TypeOK, [Next]_vars
  PROVE  OwnerTypes'
<1>0. OwnerTypes
  BY DEF TypeOK
<1>1. CASE UNCHANGED ownerVars
  BY <1>0, <1>1, OwnerStepsTyped
<1>2. CASE Handler
  <2>1. CASE AnswersNow
    BY <2>1 DEF AnswersNow
  <2>2. CASE BuildHandler
    BY <1>1, <2>2 DEF BuildHandler, Assemble, CancelAssembly, BuildFinished
  <2>3. CASE EndHandler
    BY <1>1, <2>3, OwnerStepsTyped DEF EndHandler, Shutdown, InputClosed, Writable
  <2>4. CASE Fails
    BY <1>1, <2>4 DEF Fails
  <2> QED BY <1>2, <2>1, <2>2, <2>3, <2>4, HandlerCases
<1>3. CASE SendReply \/ PutSample
  BY <1>1, <1>3 DEF SendReply, PutSample
<1>4. CASE RefreshSample
  <2>1. todo \in Seq(Calls) /\ todo # <<>>
    BY <1>4 DEF RefreshSample, Calling, TypeOK, LoopTypes
  <2>2. Tail(todo) \in Seq(Calls)
    BY <2>1, HeadTailProperties
  <2> QED BY <1>1, <1>4, <2>2, CaptureTyped DEF RefreshSample
<1>5. CASE SampleDue
  <2>1. subscription # NoSubscription
    BY <1>5 DEF SampleDue, NoSubscription
  <2> QED BY <1>5, <2>1, EmptyTyped, CaptureTyped DEF SampleDue
<1>6. CASE GuestAdvance
  BY <1>0, <1>6, OwnerStepsTyped DEF GuestAdvance
<1>7. CASE ReadRequest \/ ReadEnd \/ Scheduler \/ OutputLost \/ Assembly \/ Writer
  BY <1>1, <1>7, ReaderFrame, SchedulerFrame, OutputLostFrame, AssemblyFrame, WriterFrame DEF Fails
<1>8. CASE UNCHANGED vars
  BY <1>1, <1>8 DEF vars
<1> QED BY <1>2, <1>3, <1>4, <1>5, <1>6, <1>7, <1>8, Steps DEF Caller

(* The events the threads queue. *)
LEMMA QueuedTyped ==
  ASSUME TypeOK
  PROVE  /\ \A id \in Nat, kind \in Kinds :
              Append(events, Event("request", id, kind)) \in Seq(QueuedEvents)
         /\ \A type \in {"closed", "failed", "writable"} :
              Append(events, Event(type, 0, "none")) \in Seq(QueuedEvents)
         /\ \A id \in Positive, kind \in {"assembled", "error"} :
              Append(events, Event("build", id, kind)) \in Seq(QueuedEvents)
<1>1. \A e \in QueuedEvents : Append(events, e) \in Seq(QueuedEvents)
  BY AppendProperties DEF TypeOK, QueueTypes
<1>2. \A id \in Nat, kind \in Kinds : Event("request", id, kind) \in QueuedEvents
  BY DEF Event, QueuedEvents
<1>3. \A type \in {"closed", "failed", "writable"} : Event(type, 0, "none") \in QueuedEvents
  BY DEF Event, QueuedEvents
<1>4. \A id \in Positive, kind \in {"assembled", "error"} : Event("build", id, kind) \in QueuedEvents
  BY DEF Event, QueuedEvents
<1> QED BY <1>1, <1>2, <1>3, <1>4

LEMMA QueueTyped ==
  ASSUME TypeOK, [Next]_vars
  PROVE  QueueTypes'
<1>0. QueueTypes
  BY DEF TypeOK
<1>1. CASE UNCHANGED <<events, readerVars, assemblyVars>>
  BY <1>0, <1>1 DEF QueueTypes, readerVars, assemblyVars
<1>2. CASE ReadRequest
  <2>1. events' \in Seq(QueuedEvents) /\ sent' \in Nat
    BY <1>0, <1>2, QueuedTyped DEF ReadRequest, QueueTypes
  <2> QED BY <1>0, <1>2, <2>1 DEF ReadRequest, QueueTypes, assemblyVars
<1>3. CASE ReadEnd
  <2>1. events' \in Seq(QueuedEvents)
    BY <1>3, QueuedTyped DEF ReadEnd
  <2> QED BY <1>0, <1>3, <2>1 DEF ReadEnd, QueueTypes, assemblyVars
<1>4. CASE Handler
  <2>1. events' \in Seq(QueuedEvents)
    BY <1>4, HandlerFrame, ReceiveTyped
  <2> QED BY <1>0, <1>4, <2>1, HandlerFrame DEF Untouched, QueueTypes, readerVars, assemblyVars
<1>5. CASE StartBuild
  <2>1. active'.id \in Positive
    <3>1. pending \in Seq(Builds) /\ pending # <<>>
      BY <1>5 DEF StartBuild, TakeBuild, TypeOK, BuildTypes
    <3>2. Head(pending) \in Builds
      BY <3>1, HeadTailProperties
    <3> QED BY <1>5, <3>2 DEF StartBuild, TakeBuild, Builds
  <2>2. jobs' \in Seq(Positive)
    BY <1>0, <1>5, <2>1, AppendProperties DEF StartBuild, QueueTypes
  <2> QED BY <1>0, <1>5, <2>2 DEF StartBuild, Scheduling, QueueTypes, readerVars
<1>6. CASE Conclude \/ Continue
  BY <1>1, <1>6 DEF Conclude, Continue, Scheduling, assemblyVars
<1>7. CASE CompileTake
  <2>1. Head(jobs) \in Nat /\ jobs' \in Seq(Positive)
    BY <1>0, <1>7, HeadTailProperties DEF CompileTake, QueueTypes, Positive
  <2> QED BY <1>0, <1>7, <2>1 DEF CompileTake, QueueTypes, readerVars
<1>8. CASE CompileDone
  <2>1. events' \in Seq(QueuedEvents)
    BY <1>0, <1>8, QueuedTyped DEF CompileDone, QueueTypes, Positive
  <2> QED BY <1>0, <1>8, <2>1 DEF CompileDone, QueueTypes, readerVars
<1>9. CASE WriterAnnounce \/ WriterReports
  <2>1. events' \in Seq(QueuedEvents)
    BY <1>0, <1>9, QueuedTyped DEF WriterAnnounce, WriterReports, QueueTypes
  <2> QED BY <1>0, <1>9, <2>1, WriterFrame DEF Writer, QueueTypes, readerVars, assemblyVars
<1>10. CASE WriterReceive \/ WriterWrite \/ WriterFinish \/ WriterFails
  BY <1>1, <1>10 DEF WriterReceive, WriterWrite, WriterFinish, WriterFails, WriterStep
<1>11. CASE Caller \/ OutputLost \/ GuestAdvance
  BY <1>1, <1>11, CallerFrame, OutputLostFrame DEF Untouched, GuestAdvance
<1>12. CASE UNCHANGED vars
  BY <1>1, <1>12 DEF vars
<1> QED BY <1>2, <1>3, <1>4, <1>5, <1>6, <1>7, <1>8, <1>9, <1>10, <1>11, <1>12, Steps
        DEF Scheduler, Assembly, Writer

(* The builds a handler leaves. *)
LEMMA BuildsTyped ==
  ASSUME TypeOK, [Next]_vars
  PROVE  BuildTypes'
<1>0. pending \in Seq(Builds) /\ active \in {NoBuild} \cup [id : Positive, cancelled : BOOLEAN]
  BY DEF TypeOK, BuildTypes
<1>1. CASE UNCHANGED buildsVars
  BY <1>0, <1>1 DEF BuildTypes, buildsVars
<1>2. CASE Assemble
  <2>1. Accepts
    BY <1>2, CommandAccepts DEF Assemble, Handled
  <2>2. Request.id \in Positive
    BY <2>1, AcceptsTyped
  <2>3. ASSUME NEW document \in Documents, PushNew(Request.id, document)
        PROVE  BuildTypes'
    <3>1. [id |-> Request.id, document |-> document] \in Builds
      BY <2>2 DEF Builds
    <3>2. pending' \in Seq(Builds)
      BY <1>0, <2>3, <3>1, AppendProperties DEF PushNew
    <3> QED BY <1>0, <2>3, <3>2 DEF PushNew, BuildTypes
  <2>4. ASSUME NEW document \in Documents, NEW i \in OfDocument(document),
               PushReplacing(Request.id, document, i)
        PROVE  BuildTypes'
    <3>1. [id |-> Request.id, document |-> document] \in Builds
      BY <2>2 DEF Builds
    <3>2. i \in 1 .. Len(pending)
      BY <1>0, LenProperties DEF OfDocument
    <3>3. RemoveAt(pending, i) \in Seq(Builds)
      BY <1>0, <3>2, RemoveAtTyped
    <3>4. pending' \in Seq(Builds)
      BY <2>4, <3>1, <3>3, AppendProperties DEF PushReplacing
    <3> QED BY <1>0, <2>4, <3>4 DEF PushReplacing, BuildTypes
  <2> QED BY <1>1, <1>2, <2>3, <2>4 DEF Assemble
<1>3. CASE CancelAssembly
  <2>1. ASSUME NEW id, CancelActive(id)
        PROVE  BuildTypes'
    BY <1>0, <2>1 DEF CancelActive, Busy, BuildTypes
  <2>2. ASSUME NEW id, NEW i \in OfRequest(id), CancelPending(id, i)
        PROVE  BuildTypes'
    <3>1. i \in 1 .. Len(pending)
      BY <1>0, LenProperties DEF OfRequest
    <3>2. RemoveAt(pending, i) \in Seq(Builds)
      BY <1>0, <3>1, RemoveAtTyped
    <3> QED BY <1>0, <2>2, <3>2 DEF CancelPending, BuildTypes
  <2> QED BY <1>1, <1>3, <2>1, <2>2 DEF CancelAssembly
<1>4. CASE BuildFinished
  BY <1>0, <1>4 DEF BuildFinished, FinishBuild, BuildTypes
<1>5. CASE Handler
  <2>1. AnswersNow \/ EndHandler \/ Fails => UNCHANGED buildsVars
    BY DEF AnswersNow, EndHandler, Shutdown, InputClosed, Writable, Fails
  <2> QED BY <1>1, <1>2, <1>3, <1>4, <1>5, <2>1, HandlerCases DEF BuildHandler
<1>6. CASE StartBuild
  <2>1. Head(pending) \in Builds /\ Tail(pending) \in Seq(Builds)
    BY <1>0, <1>6, HeadTailProperties DEF StartBuild, TakeBuild
  <2> QED BY <1>6, <2>1 DEF StartBuild, TakeBuild, BuildTypes, Builds
<1>7. CASE Conclude \/ Continue
  BY <1>1, <1>7 DEF Conclude, Continue
<1>8. CASE ReadRequest \/ ReadEnd \/ Caller \/ OutputLost \/ Assembly \/ GuestAdvance \/ Writer
  BY <1>1, <1>8, ReaderFrame, CallerFrame, OutputLostFrame, AssemblyFrame, WriterFrame
     DEF Fails, GuestAdvance
<1>9. CASE UNCHANGED vars
  BY <1>1, <1>9 DEF vars
<1> QED BY <1>5, <1>6, <1>7, <1>8, <1>9, Steps DEF Scheduler

-----------------------------------------------------------------------------
(* What the handlers of builds plan.                                       *)

LEMMA BuildAt ==
  ASSUME TypeOK, NEW i \in 1 .. Len(pending)
  PROVE  pending[i] \in Builds /\ pending[i].id \in Positive
<1>1. pending[i] \in Builds
  BY ElementOfSeq DEF TypeOK, BuildTypes
<1> QED BY <1>1 DEF Builds

LEMMA AssembleCases ==
  ASSUME TypeOK, Assemble
  PROVE  /\ Accepts /\ UNCHANGED <<negotiated, closing, subscription, ownerVars>>
         /\ \/ \E document \in Documents : PushNew(last', document) /\ Plan(todo', Busy, 0)
            \/ \E document \in Documents : \E i \in OfDocument(document) :
                 PushReplacing(last', document, i) /\ Plan(todo', Busy, pending[i].id)
            \/ AnswersNow
<1>1. Accepts /\ Request.id \in Positive /\ last' = Request.id /\ Busy \in BOOLEAN
      /\ negotiated' \in BOOLEAN /\ closing' \in Closings /\ closing'.id = 0
  BY CommandAccepts DEF Assemble, Handled
<1>2. UNCHANGED <<negotiated, closing, subscription, ownerVars>>
  BY DEF Assemble, Command
<1>3. ASSUME NEW document \in Documents, PushNew(Request.id, document), Handled(<<>>)
      PROVE  PushNew(last', document) /\ Plan(todo', Busy, 0)
  BY <1>1, <1>3, PlanNone DEF Handled
<1>4. ASSUME NEW document \in Documents, NEW i \in OfDocument(document),
             PushReplacing(Request.id, document, i), Handled(Answer(pending[i].id, "superseded"))
      PROVE  PushReplacing(last', document, i) /\ Plan(todo', Busy, pending[i].id)
  <2>1. pending \in Seq(Builds)
    BY DEF TypeOK, BuildTypes
  <2>2. i \in 1 .. Len(pending)
    BY <2>1, LenProperties DEF OfDocument
  <2>3. pending[i].id \in Positive
    BY <2>2, BuildAt
  <2> QED BY <1>1, <1>4, <2>3, PlanAnswer DEF Handled, ReplyKinds
<1>5. ASSUME Handled(Answer(Request.id, "error")), UNCHANGED buildsVars
      PROVE  AnswersNow
  <2>1. Plan(todo', Busy, Request.id)
    BY <1>1, <1>5, PlanAnswer DEF Handled, ReplyKinds
  <2>2. OwnerTypes' /\ subscription' \in Subscriptions
    BY <1>2, OwnerStepsTyped DEF TypeOK, LoopTypes
  <2> QED BY <1>1, <1>5, <2>1, <2>2 DEF AnswersNow
<1> QED BY <1>1, <1>2, <1>3, <1>4, <1>5 DEF Assemble

LEMMA CancelCases ==
  ASSUME TypeOK, CancelAssembly
  PROVE  /\ Accepts /\ UNCHANGED <<negotiated, closing, subscription, ownerVars>>
         /\ \/ \E id \in Positive :
                 /\ CancelActive(id) \/ \E i \in OfRequest(id) : CancelPending(id, i)
                 /\ PlanTwo(todo', Busy, id, last')
            \/ AnswersNow
<1>1. Accepts /\ Request.id \in Positive /\ last' = Request.id /\ Busy \in BOOLEAN
      /\ negotiated' \in BOOLEAN /\ closing' \in Closings /\ closing'.id = 0
  BY CommandAccepts DEF CancelAssembly, Handled
<1>2. UNCHANGED <<negotiated, closing, subscription, ownerVars>>
  BY DEF CancelAssembly, Command
<1>3. ASSUME NEW id \in 0 .. last,
             CancelActive(id) \/ \E i \in OfRequest(id) : CancelPending(id, i),
             Handled(Answer(id, "cancelled") \o Answer(Request.id, "assembly_cancelled"))
      PROVE  id \in Positive /\ PlanTwo(todo', Busy, id, last')
  <2>1. id \in Positive
    <3>1. pending \in Seq(Builds) /\ active \in {NoBuild} \cup [id : Positive, cancelled : BOOLEAN]
      BY DEF TypeOK, BuildTypes
    <3>2. CancelActive(id) => id \in Positive
      BY <3>1 DEF CancelActive, Busy
    <3>3. ASSUME NEW i \in OfRequest(id) PROVE id \in Positive
      <4>1. i \in 1 .. Len(pending) /\ pending[i].id = id
        BY <3>1, LenProperties DEF OfRequest
      <4> QED BY <4>1, BuildAt
    <3> QED BY <1>3, <3>2, <3>3
  <2> DEFINE a == Answer(id, "cancelled")
             b == Answer(Request.id, "assembly_cancelled")
  <2>2. Plan(a, Busy, id) /\ Plan(b, Busy, Request.id)
    BY <1>1, <2>1, PlanAnswer DEF ReplyKinds
  <2>3. todo' = a \o b
    BY <1>3 DEF Handled
  <2> HIDE DEF a, b
  <2>4. id \in Nat /\ Request.id \in Nat
    BY <1>1, <2>1 DEF Positive
  <2>5. PlanTwo(a \o b, Busy, id, Request.id)
    BY <2>2, <2>4, PlanConcat
  <2> QED BY <1>1, <2>1, <2>3, <2>5
<1>4. ASSUME Handled(Answer(Request.id, "error")), UNCHANGED buildsVars
      PROVE  AnswersNow
  <2>1. Plan(todo', Busy, Request.id)
    BY <1>1, <1>4, PlanAnswer DEF Handled, ReplyKinds
  <2>2. OwnerTypes' /\ subscription' \in Subscriptions
    BY <1>2, OwnerStepsTyped DEF TypeOK, LoopTypes
  <2> QED BY <1>1, <1>4, <2>1, <2>2 DEF AnswersNow
<1> QED BY <1>1, <1>2, <1>3, <1>4 DEF CancelAssembly

(* The result of a build, unless it was cancelled, is its answer. *)
LEMMA FinishCases ==
  ASSUME TypeOK, BuildFinished
  PROVE  /\ Receive("build") /\ stage' = "due" /\ UNCHANGED <<outcome, lanes>>
         /\ UNCHANGED <<negotiated, last, closing, subscription, ownerVars>>
         /\ Busy /\ active.id = Request.id /\ Request.id \in Positive
         /\ active' = NoBuild /\ pending' = pending /\ ~Busy'
         /\ active.cancelled => todo' = <<>>
         /\ ~active.cancelled =>
              \E m \in ReplyMessages :
                 /\ todo' = <<Send(m, FALSE)>> /\ m.id = active.id
                 /\ m.kind \in {"assembled", "error"}
<1>1. Receive("build") /\ stage' = "due" /\ UNCHANGED <<outcome, lanes>>
      /\ UNCHANGED <<negotiated, last, closing, subscription, ownerVars>>
      /\ active.id = Request.id /\ active' = NoBuild /\ pending' = pending
  BY DEF BuildFinished, Handled, FinishBuild
<1>2. Request.id \in Positive /\ Request.kind \in {"assembled", "error"}
  BY <1>1, ReceiveTyped DEF QueuedEvents
<1>3. Busy /\ ~Busy'
  BY <1>1, <1>2 DEF Busy, NoBuild, Positive
<1>4. ASSUME ~active.cancelled
      PROVE  \E m \in ReplyMessages :
                 /\ todo' = <<Send(m, FALSE)>> /\ m.id = active.id
                 /\ m.kind \in {"assembled", "error"}
  <2>1. todo' = <<Send(Reply(Request.id, Request.kind), FALSE)>>
    BY <1>4 DEF BuildFinished, Handled, Answer
  <2>2. Reply(Request.id, Request.kind) \in ReplyMessages
        /\ Reply(Request.id, Request.kind).id = Request.id
        /\ Reply(Request.id, Request.kind).kind = Request.kind
    BY <1>2, NoMessageTyped, MessageTyped DEF Reply, MessageKinds, ReplyKinds
  <2> QED BY <1>1, <1>2, <2>1, <2>2
<1>5. active.cancelled => todo' = <<>>
  BY DEF BuildFinished, Handled
<1> QED BY <1>1, <1>2, <1>3, <1>4, <1>5

LEMMA EndCases ==
  ASSUME TypeOK, EndHandler
  PROVE  /\ stage' = "due" /\ UNCHANGED <<outcome, lanes, buildsVars>>
         /\ Plan(todo', Busy, 0) /\ subscription' \in Subscriptions
         /\ \/ /\ Accepts /\ closing' = [reason |-> "shutdown", id |-> last']
               /\ Request.kind = "shutdown" /\ UNCHANGED negotiated
            \/ /\ Receive("closed") /\ closing' = [reason |-> "end", id |-> 0]
               /\ UNCHANGED <<negotiated, last>>
            \/ Receive("writable") /\ UNCHANGED <<negotiated, last, closing>>
<1>1. CASE Shutdown
  <2>1. Accepts /\ last' = Request.id
    BY <1>1, CommandAccepts DEF Shutdown, Handled
  <2> QED BY <1>1, <2>1, PlanStop DEF Shutdown, Command, Handled, Subscriptions
<1>2. CASE InputClosed
  BY <1>2, PlanStop DEF InputClosed, Handled, Subscriptions
<1>3. CASE Writable
  BY <1>3, PlanNone DEF Writable, Handled, TypeOK, LoopTypes
<1> QED BY <1>1, <1>2, <1>3 DEF EndHandler

LEMMA PlannedTyped ==
  ASSUME NEW calls, NEW busy, calls \in Seq(PlannedCalls(busy))
  PROVE  calls \in Seq(Calls)
BY PlannedAreCalls, SeqMonotonic

LEMMA LoopTyped ==
  ASSUME TypeOK, [Next]_vars
  PROVE  LoopTypes'
<1>0. LoopTypes
  BY DEF TypeOK
<1>1. CASE UNCHANGED <<stage, todo, loopVars, subscription>>
  BY <1>0, <1>1 DEF LoopTypes, loopVars
<1>2. CASE Fails
  BY <1>0, <1>2 DEF Fails, LoopTypes
<1>3. CASE AnswersNow
  <2>1. todo' \in Seq(Calls)
    BY <1>3, PlannedTyped DEF AnswersNow, Plan
  <2>2. last' \in Nat
    BY <1>3, AcceptsTyped DEF AnswersNow, Positive
  <2> QED BY <1>0, <1>3, <2>1, <2>2 DEF AnswersNow, Accepts, LoopTypes
<1>4. CASE Assemble \/ CancelAssembly
  <2>1. Accepts /\ UNCHANGED <<negotiated, closing, subscription, ownerVars>>
    BY <1>4, AssembleCases, CancelCases
  <2>2. todo' \in Seq(Calls)
    <3>1. todo' \in Seq(PlannedCalls(Busy))
      BY <1>4, AssembleCases, CancelCases DEF Plan, PlanTwo, AnswersNow
    <3> QED BY <3>1, PlannedTyped
  <2>3. last' \in Nat
    BY <2>1, AcceptsTyped DEF Positive
  <2> QED BY <1>0, <2>1, <2>2, <2>3 DEF Accepts, LoopTypes
<1>5. CASE BuildFinished
  <2>1. todo' \in Seq(Calls)
    <3>1. CASE active.cancelled
      BY <1>5, <3>1, FinishCases, EmptyTyped
    <3>2. CASE ~active.cancelled
      <4>1. PICK m \in ReplyMessages : todo' = <<Send(m, FALSE)>>
        BY <1>5, <3>2, FinishCases
      <4>2. Send(m, FALSE) \in Calls
        BY DEF Send, Calls, CallRecords, ReplyMessages
      <4> QED BY <4>1, <4>2, CallsToOne
    <3> QED BY <3>1, <3>2
  <2> QED BY <1>0, <1>5, <2>1, FinishCases DEF LoopTypes
<1>6. CASE EndHandler
  <2>1. todo' \in Seq(Calls)
    BY <1>6, EndCases, PlannedTyped DEF Plan
  <2>2. last' \in Nat /\ closing' \in Closings
    <3>1. Accepts => last' \in Positive
      BY AcceptsTyped
    <3> QED BY <1>0, <1>6, <3>1, EndCases DEF LoopTypes, Closings, Positive
  <2> QED BY <1>0, <1>6, <2>1, <2>2, EndCases DEF LoopTypes, Accepts
<1>7. CASE Handler
  BY <1>2, <1>3, <1>4, <1>5, <1>6, <1>7, HandlerCases DEF BuildHandler
<1>8. CASE SendReply \/ PutSample
  <2>1. Tail(todo) \in Seq(Calls)
    BY <1>8, CallsHead DEF SendReply, PutSample, Calling
  <2> QED BY <1>0, <1>8, <2>1 DEF SendReply, PutSample, Calling, LoopTypes, loopVars
<1>9. CASE RefreshSample
  <2>1. Tail(todo) \in Seq(Calls)
    BY <1>9, CallsHead DEF RefreshSample, Calling
  <2>2. CASE subscription = NoSubscription
    BY <1>0, <1>9, <2>1, <2>2 DEF RefreshSample, Calling, LoopTypes, loopVars
  <2>3. CASE subscription # NoSubscription
    <3>1. Capture(Tail(todo))
      BY <1>9, <2>3 DEF RefreshSample
    <3>2. subscription' \in Subscriptions
      BY <2>1, <2>3, <3>1, CaptureTyped
    <3>3. PICK sample \in SampleMessages : todo' = <<Put(sample)>> \o Tail(todo)
      BY <2>1, <2>3, <3>1, CaptureTyped
    <3>4. <<Put(sample)>> \in Seq(Calls)
      BY PlanPut, PlannedTyped DEF Plan
    <3>5. todo' \in Seq(Calls)
      BY <2>1, <3>3, <3>4, ConcatProperties
    <3> QED BY <1>0, <1>9, <3>2, <3>5 DEF RefreshSample, Calling, LoopTypes, loopVars
  <2> QED BY <2>2, <2>3
<1>10. CASE SampleDue
  <2>1. subscription # NoSubscription
    BY <1>10 DEF SampleDue, NoSubscription
  <2>2. subscription' \in Subscriptions
    BY <1>10, <2>1, EmptyTyped, CaptureTyped DEF SampleDue
  <2>3. PICK sample \in SampleMessages : todo' = <<Put(sample)>> \o <<>>
    BY <1>10, <2>1, EmptyTyped, CaptureTyped DEF SampleDue
  <2>4. <<Put(sample)>> \in Seq(Calls)
    BY PlanPut, PlannedTyped DEF Plan
  <2>5. todo' \in Seq(Calls)
    BY <2>3, <2>4, EmptyTyped, ConcatProperties
  <2> QED BY <1>0, <1>10, <2>2, <2>5 DEF SampleDue, LoopTypes, loopVars
<1>11. CASE Scheduler
  <2>1. outcome' \in {"serving", "failed", "complete", "rejected"}
    BY <1>0, <1>11 DEF Scheduler, StartBuild, Conclude, Continue, LoopTypes
  <2> QED BY <1>0, <1>11, <2>1, SchedulerFrame DEF LoopTypes
<1>12. CASE OutputLost
  BY <1>2, <1>12, OutputLostFrame
<1>13. CASE ReadRequest \/ ReadEnd \/ Assembly \/ GuestAdvance \/ Writer
  BY <1>1, <1>13, ReaderFrame, AssemblyFrame, WriterFrame DEF GuestAdvance
<1>14. CASE UNCHANGED vars
  BY <1>1, <1>14 DEF vars
<1> QED BY <1>7, <1>8, <1>9, <1>10, <1>11, <1>12, <1>13, <1>14, Steps DEF Caller

(* TypeOK is inductive. *)
LEMMA TypesStep ==
  ASSUME TypeOK, [Next]_vars
  PROVE  TypeOK'
BY LanesTyped, WriterTyped, OwnerTyped, QueueTyped, BuildsTyped, LoopTyped DEF TypeOK

-----------------------------------------------------------------------------
(***************************************************************************)
(* The queue of requests.  The reader numbers requests without gaps, so a  *)
(* request newer than the last one accepted is the next one.               *)
(***************************************************************************)
Follows(q, i, l) ==
    \/ q[i].id <= l + 1
    \/ \E j \in DOMAIN q : j < i /\ q[j].type = "request" /\ q[j].id + 1 = q[i].id

Ordered(q, s, l) ==
    /\ l <= s
    /\ \A i \in DOMAIN q : q[i].type = "request" => q[i].id <= s /\ Follows(q, i, l)
    /\ s = l \/ \E i \in DOMAIN q : q[i].type = "request" /\ q[i].id = s

RequestsInOrder == Serving => Ordered(events, sent, last)

(* The reader stops after Shutdown and after the end of its input. *)
ShutdownRead ==
    \/ closing.reason = "shutdown"
    \/ \E i \in DOMAIN events : events[i].type = "request" /\ events[i].kind = "shutdown"
ClosedRead == \E i \in DOMAIN events : events[i].type = "closed"
InputEnds == (input = "open" => ~ShutdownRead /\ ~ClosedRead) /\ ~(ShutdownRead /\ ClosedRead)

LEMMA QueueAppend ==
  ASSUME NEW q \in Seq(QueuedEvents), NEW e \in QueuedEvents
  PROVE  LET r == Append(q, e)
         IN  /\ DOMAIN q = 1 .. Len(q) /\ Len(q) \in Nat
             /\ r \in Seq(QueuedEvents) /\ DOMAIN r = 1 .. Len(q) + 1
             /\ r[Len(q) + 1] = e /\ \A i \in 1 .. Len(q) : r[i] = q[i]
BY AppendProperties, LenProperties

LEMMA QueueIds ==
  ASSUME NEW q \in Seq(QueuedEvents), NEW i \in DOMAIN q
  PROVE  q[i] \in QueuedEvents /\ q[i].id \in Nat
<1>1. q[i] \in QueuedEvents
  BY LenProperties, ElementOfSeq
<1> QED BY <1>1 DEF QueuedEvents, Positive

LEMMA OrderedRequest ==
  ASSUME NEW q \in Seq(QueuedEvents), NEW s \in Nat, NEW l \in Nat, Ordered(q, s, l),
         NEW e \in QueuedEvents, e.type = "request", e.id \in {s, s + 1}
  PROVE  Ordered(Append(q, e), e.id, l)
<1> DEFINE r == Append(q, e)
<1>1. /\ DOMAIN q = 1 .. Len(q) /\ Len(q) \in Nat /\ DOMAIN r = 1 .. Len(q) + 1
      /\ r[Len(q) + 1] = e /\ \A i \in 1 .. Len(q) : r[i] = q[i]
  BY QueueAppend
<1> HIDE DEF r
<1>2. \A i \in DOMAIN q : q[i].id \in Nat
  BY QueueIds
<1>3. ASSUME NEW i \in DOMAIN q, q[i].type = "request"
      PROVE  r[i].id <= e.id /\ Follows(r, i, l)
  <2>1. q[i].id <= s /\ Follows(q, i, l) /\ r[i] = q[i]
    BY <1>1, <1>3 DEF Ordered
  <2>2. Follows(r, i, l)
    BY <1>1, <2>1 DEF Follows
  <2> QED BY <1>2, <2>1, <2>2
<1>4. Follows(r, Len(q) + 1, l)
  <2>1. CASE s = l
    BY <1>1, <2>1 DEF Follows
  <2>2. ASSUME NEW i \in DOMAIN q, q[i].type = "request", q[i].id = s
        PROVE  Follows(r, Len(q) + 1, l)
    <3>1. CASE e.id = s + 1
      BY <1>1, <2>2, <3>1 DEF Follows
    <3>2. CASE e.id = s
      <4>1. Follows(q, i, l)
        BY <2>2 DEF Ordered
      <4> QED BY <1>1, <2>2, <3>2, <4>1 DEF Follows
    <3> QED BY <3>1, <3>2
  <2> QED BY <2>1, <2>2 DEF Ordered
<1>5. Ordered(r, e.id, l)
  BY <1>1, <1>3, <1>4 DEF Ordered
<1> QED BY <1>5 DEF r

LEMMA OrderedOther ==
  ASSUME NEW q \in Seq(QueuedEvents), NEW s \in Nat, NEW l \in Nat, Ordered(q, s, l),
         NEW e \in QueuedEvents, e.type # "request"
  PROVE  Ordered(Append(q, e), s, l)
<1> DEFINE r == Append(q, e)
<1>1. /\ DOMAIN q = 1 .. Len(q) /\ Len(q) \in Nat /\ DOMAIN r = 1 .. Len(q) + 1
      /\ r[Len(q) + 1] = e /\ \A i \in 1 .. Len(q) : r[i] = q[i]
  BY QueueAppend
<1> HIDE DEF r
<1>2. \A i \in DOMAIN r : r[i].type = "request" => i \in DOMAIN q /\ r[i] = q[i]
  BY <1>1
<1>3. \A i \in DOMAIN q : i \in DOMAIN r /\ r[i] = q[i]
  BY <1>1
<1>4. ASSUME NEW i \in DOMAIN q, Follows(q, i, l) PROVE Follows(r, i, l)
  BY <1>3, <1>4 DEF Follows
<1>5. Ordered(r, s, l)
  BY <1>2, <1>3, <1>4 DEF Ordered
<1> QED BY <1>5 DEF r

(* The oldest event is taken: a request that is accepted, or another event. *)
LEMMA OrderedTail ==
  ASSUME NEW q \in Seq(QueuedEvents), q # <<>>, NEW s \in Nat, NEW l \in Nat, Ordered(q, s, l)
  PROVE  /\ Head(q).type # "request" => Ordered(Tail(q), s, l)
         /\ Head(q).type = "request" /\ l < Head(q).id =>
              Head(q).id = l + 1 /\ Ordered(Tail(q), s, Head(q).id)
<1> DEFINE r == Tail(q)
           h == Head(q)
<1>1. /\ r \in Seq(QueuedEvents) /\ h = q[1] /\ 1 \in DOMAIN q
      /\ DOMAIN q = 1 .. Len(q) /\ Len(q) \in Nat /\ DOMAIN r = 1 .. Len(q) - 1
      /\ \A i \in 1 .. Len(q) - 1 : r[i] = q[i + 1]
  BY HeadTailProperties, HeadBeforeTail, LenProperties
<1> HIDE DEF r, h
<1>2. \A i \in DOMAIN q : q[i].id \in Nat
  BY QueueIds
<1>3. \A i \in DOMAIN r : i + 1 \in DOMAIN q /\ r[i] = q[i + 1]
  BY <1>1
<1>4. \A j \in DOMAIN q : j = 1 \/ (j - 1 \in DOMAIN r /\ q[j] = r[j - 1])
  BY <1>1
<1>5. ASSUME h.type # "request"
      PROVE  Ordered(r, s, l)
  <2>1. ASSUME NEW i \in DOMAIN r, r[i].type = "request" PROVE r[i].id <= s /\ Follows(r, i, l)
    <3>1. r[i].id <= s /\ Follows(q, i + 1, l)
      BY <1>3, <2>1 DEF Ordered
    <3>2. ASSUME NEW j \in DOMAIN q, j < i + 1, q[j].type = "request", q[j].id + 1 = q[i + 1].id
          PROVE  Follows(r, i, l)
      <4>1. j - 1 \in DOMAIN r /\ q[j] = r[j - 1] /\ j - 1 < i
        BY <1>1, <1>4, <1>5, <3>2
      <4> QED BY <1>3, <3>2, <4>1 DEF Follows
    <3>3. r[i].id <= l + 1 => Follows(r, i, l)
      BY DEF Follows
    <3> QED BY <1>3, <3>1, <3>2, <3>3 DEF Follows
  <2>2. s = l \/ \E i \in DOMAIN r : r[i].type = "request" /\ r[i].id = s
    BY <1>1, <1>4, <1>5 DEF Ordered
  <2> QED BY <2>1, <2>2 DEF Ordered
<1>6. ASSUME h.type = "request", l < h.id
      PROVE  h.id = l + 1 /\ Ordered(r, s, h.id)
  <2>1. h.id = l + 1 /\ h.id <= s
    <3>1. 1 \in DOMAIN q /\ h = q[1] /\ \A j \in DOMAIN q : ~(j < 1)
      BY <1>1
    <3>2. h.id <= s /\ Follows(q, 1, l)
      BY <1>6, <3>1 DEF Ordered
    <3>3. h.id <= l + 1
      BY <3>1, <3>2 DEF Follows
    <3>4. h.id \in Nat
      BY <1>2, <3>1
    <3> QED BY <1>6, <3>2, <3>3, <3>4
  <2>2. ASSUME NEW i \in DOMAIN r, r[i].type = "request" PROVE r[i].id <= s /\ Follows(r, i, h.id)
    <3>1. r[i].id <= s /\ Follows(q, i + 1, l) /\ r[i].id \in Nat
      BY <1>2, <1>3, <2>2 DEF Ordered
    <3>2. ASSUME NEW j \in DOMAIN q, j < i + 1, q[j].type = "request", q[j].id + 1 = q[i + 1].id
          PROVE  Follows(r, i, h.id)
      <4>1. CASE j = 1
        BY <1>1, <1>3, <3>1, <3>2, <4>1, <2>1 DEF Follows
      <4>2. CASE j # 1
        <5>1. j - 1 \in DOMAIN r /\ q[j] = r[j - 1] /\ j - 1 < i
          BY <1>1, <1>4, <3>2, <4>2
        <5> QED BY <1>3, <3>2, <5>1 DEF Follows
      <4> QED BY <4>1, <4>2
    <3>3. r[i].id <= l + 1 => Follows(r, i, h.id)
      BY <2>1, <3>1 DEF Follows
    <3> QED BY <1>3, <3>1, <3>2, <3>3 DEF Follows
  <2>3. s = h.id \/ \E i \in DOMAIN r : r[i].type = "request" /\ r[i].id = s
    BY <1>1, <1>4, <2>1 DEF Ordered
  <2> QED BY <2>1, <2>2, <2>3 DEF Ordered
<1> QED BY <1>5, <1>6 DEF r, h

(* A handler accepts a request, takes another event, or fails the dispatcher. *)
LEMMA HandlerTakes ==
  ASSUME TypeOK, Handler
  PROVE  \/ Accepts
         \/ \E type \in {"closed", "build", "writable"} : Receive(type) /\ UNCHANGED last
         \/ Fails
<1>1. CASE AnswersNow
  BY <1>1 DEF AnswersNow
<1>2. CASE Assemble \/ CancelAssembly
  BY <1>2, AssembleCases, CancelCases
<1>3. CASE BuildFinished
  BY <1>3, FinishCases
<1>4. CASE EndHandler
  BY <1>4, EndCases
<1> QED BY <1>1, <1>2, <1>3, <1>4, HandlerCases DEF BuildHandler

LEMMA HandlerTakesOther ==
  ASSUME TypeOK, Handler, ~BuildFinished, ~Fails
  PROVE  \E type \in {"request", "closed", "writable"} : Receive(type)
<1>1. CASE AnswersNow
  BY <1>1 DEF AnswersNow, Accepts
<1>2. CASE Assemble \/ CancelAssembly
  BY <1>2, AssembleCases, CancelCases DEF Accepts
<1>3. CASE EndHandler
  BY <1>3, EndCases DEF Accepts
<1> QED BY <1>1, <1>2, <1>3, HandlerCases DEF BuildHandler

(* Threads other than the reader add no requests. *)
LEMMA OtherEvents ==
  ASSUME TypeOK, Assembly \/ Writer
  PROVE  \/ UNCHANGED events
         \/ \E e \in QueuedEvents : /\ e.type \in {"build", "failed", "writable"}
                                    /\ events' = Append(events, e)
<1>1. \A type \in {"failed", "writable"} :
         Event(type, 0, "none") \in QueuedEvents /\ Event(type, 0, "none").type = type
  BY DEF Event, QueuedEvents
<1>2. CASE CompileDone
  <2>1. compiling \in Positive
    BY <1>2 DEF CompileDone, TypeOK, QueueTypes, Positive
  <2>2. \A kind \in {"assembled", "error"} :
           Event("build", compiling, kind) \in QueuedEvents
             /\ Event("build", compiling, kind).type = "build"
    BY <2>1 DEF Event, QueuedEvents
  <2> QED BY <1>1, <1>2, <2>2 DEF CompileDone
<1>3. CASE WriterAnnounce \/ WriterReports
  BY <1>1, <1>3 DEF WriterAnnounce, WriterReports
<1>4. CASE CompileTake \/ WriterReceive \/ WriterWrite \/ WriterFinish \/ WriterFails
  BY <1>4 DEF CompileTake, WriterReceive, WriterWrite, WriterFinish, WriterFails
<1> QED BY <1>2, <1>3, <1>4 DEF Assembly, Writer

LEMMA WriterEvents ==
  ASSUME Writer
  PROVE  \/ UNCHANGED events
         \/ \E e \in QueuedEvents : e.type # "build" /\ events' = Append(events, e)
<1>1. \A type \in {"failed", "writable"} :
         Event(type, 0, "none") \in QueuedEvents /\ Event(type, 0, "none").type # "build"
  BY DEF Event, QueuedEvents
<1> QED BY <1>1 DEF Writer, WriterAnnounce, WriterReports, WriterReceive, WriterWrite,
                    WriterFinish, WriterFails

LEMMA RequestsStep ==
  ASSUME TypeOK, RequestsInOrder, [Next]_vars
  PROVE  RequestsInOrder'
<1>1. events \in Seq(QueuedEvents) /\ sent \in Nat /\ last \in Nat
  BY DEF TypeOK, QueueTypes, LoopTypes
<1>2. CASE UNCHANGED <<outcome, events, sent, last>>
  BY <1>2 DEF RequestsInOrder, Serving, Ordered, Follows
<1>3. CASE ~Serving'
  BY <1>3 DEF RequestsInOrder
<1>4. CASE ReadRequest
  <2>1. PICK id \in {sent, sent + 1}, kind \in Kinds :
          sent' = id /\ events' = Append(events, Event("request", id, kind))
    BY <1>4 DEF ReadRequest
  <2>2. Event("request", id, kind) \in QueuedEvents /\ Event("request", id, kind).type = "request"
        /\ Event("request", id, kind).id = id
    BY <1>1, <2>1 DEF Event, QueuedEvents
  <2>3. Ordered(events, sent, last) /\ UNCHANGED last
    BY <1>4 DEF ReadRequest, RequestsInOrder, loopVars
  <2>4. Ordered(events', sent', last)
    BY <1>1, <2>1, <2>2, <2>3, OrderedRequest
  <2> QED BY <2>3, <2>4 DEF RequestsInOrder, Ordered, Follows
<1>5. CASE ReadEnd
  <2>1. PICK type \in {"closed", "failed"} : events' = Append(events, Event(type, 0, "none"))
    BY <1>5 DEF ReadEnd
  <2>2. Event(type, 0, "none") \in QueuedEvents /\ Event(type, 0, "none").type # "request"
    BY DEF Event, QueuedEvents
  <2>3. Ordered(events, sent, last) /\ UNCHANGED <<sent, last>>
    BY <1>5 DEF ReadEnd, RequestsInOrder, loopVars
  <2>4. Ordered(events', sent, last)
    BY <1>1, <2>1, <2>2, <2>3, OrderedOther
  <2> QED BY <2>3, <2>4 DEF RequestsInOrder, Ordered, Follows
<1>6. CASE Handler
  <2>0. Serving /\ UNCHANGED sent
    BY <1>6, HandlerFrame DEF Untouched, readerVars
  <2>1. Ordered(events, sent, last)
    BY <2>0 DEF RequestsInOrder
  <2>2. CASE Accepts
    <3>1. /\ Head(events).type = "request" /\ events # <<>> /\ events' = Tail(events)
          /\ last < Head(events).id /\ last' = Head(events).id
      BY <2>2, AcceptsTyped, ReceiveTyped DEF Accepts, Request
    <3>2. Ordered(events', sent, last')
      BY <1>1, <2>1, <3>1, OrderedTail
    <3> QED BY <2>0, <3>2 DEF RequestsInOrder, Ordered, Follows
  <2>3. ASSUME NEW type \in {"closed", "build", "writable"}, Receive(type), UNCHANGED last
        PROVE  RequestsInOrder'
    <3>1. Head(events).type # "request" /\ events # <<>> /\ events' = Tail(events)
      BY <2>3 DEF Receive
    <3>2. Ordered(events', sent, last)
      BY <1>1, <2>1, <3>1, OrderedTail
    <3> QED BY <2>0, <2>3, <3>2 DEF RequestsInOrder, Ordered, Follows
  <2>4. CASE Fails
    BY <1>3, <2>4 DEF Fails, Serving
  <2> QED BY <1>6, <2>2, <2>3, <2>4, HandlerTakes
<1>7. CASE Assembly \/ Writer
  <2>1. UNCHANGED <<outcome, sent, last>>
    BY <1>7, AssemblyFrame, WriterFrame DEF loopVars, readerVars
  <2>2. ASSUME NEW e \in QueuedEvents, e.type # "request", events' = Append(events, e), Serving
        PROVE  RequestsInOrder'
    <3>1. Ordered(events', sent, last)
      BY <1>1, <2>2, OrderedOther DEF RequestsInOrder
    <3> QED BY <2>1, <3>1 DEF RequestsInOrder, Ordered, Follows
  <2> QED BY <1>2, <1>3, <1>7, <2>1, <2>2, OtherEvents DEF Serving
<1>8. CASE Conclude
  <2>1. outcome' # "serving"
    BY <1>8 DEF Conclude
  <2> QED BY <1>3, <2>1 DEF Serving
<1>9. CASE OutputLost
  BY <1>3, <1>9, OutputLostFrame DEF Fails, Serving
<1>10. CASE Caller \/ StartBuild \/ Continue \/ GuestAdvance \/ UNCHANGED vars
  <2>1. UNCHANGED <<outcome, events, sent, last>>
    <3>1. Caller => UNCHANGED <<outcome, events, sent, last>>
      BY CallerFrame DEF loopVars, readerVars
    <3>2. StartBuild \/ Continue => UNCHANGED <<outcome, events, sent, last>>
      BY DEF StartBuild, Continue, Scheduling, readerVars
    <3> QED BY <1>10, <3>1, <3>2 DEF GuestAdvance, vars, loopVars, readerVars
  <2> QED BY <1>2, <2>1
<1> QED BY <1>4, <1>5, <1>6, <1>7, <1>8, <1>9, <1>10, Steps DEF Scheduler


-----------------------------------------------------------------------------
(***************************************************************************)
(* The reservation.  While a build runs every bulk reply a handler plans   *)
(* asks for a slot beyond the reserved one; the artifact itself is planned *)
(* alone, when the build is over.                                          *)
(***************************************************************************)
PlannedAt(calls, busy) ==
    \/ calls \in Seq(PlannedCalls(busy))
    \/ ~busy /\ \E m \in ReplyMessages : calls = <<Send(m, FALSE)>>
Planned == PlannedAt(todo, Busy) /\ (stage = "receive" => todo = <<>>)

LEMMA BusyAlike == UNCHANGED active => Busy' = Busy
BY DEF Busy

(* The build handlers keep a running build, except the one that ends it. *)
LEMMA BuildsAlike ==
  ASSUME TypeOK, Handler, ~BuildFinished
  PROVE  /\ Busy' = Busy /\ active'.id = active.id
         /\ stage' = "due" => todo' \in Seq(PlannedCalls(Busy))
<1> USE DEF Plan, PlanTwo
<1>1. CASE AnswersNow
  BY <1>1, BusyAlike DEF AnswersNow, buildsVars
<1>2. CASE Assemble
  <2>1. ASSUME NEW document, PushNew(last', document) \/ \E i : PushReplacing(last', document, i)
        PROVE  UNCHANGED active
    BY <2>1 DEF PushNew, PushReplacing
  <2> QED BY <1>1, <1>2, <2>1, AssembleCases, BusyAlike
<1>3. CASE CancelAssembly
  <2>1. ASSUME NEW id, CancelActive(id)
        PROVE  Busy' = Busy /\ active'.id = active.id
    <3>1. Busy /\ active \in [id : Positive, cancelled : BOOLEAN]
      BY <2>1 DEF CancelActive, TypeOK, BuildTypes, Busy
    <3>2. active'.id = active.id /\ active'.cancelled = TRUE
      BY <2>1, <3>1 DEF CancelActive
    <3> QED BY <3>1, <3>2 DEF Busy, NoBuild
  <2>2. ASSUME NEW id, NEW i, CancelPending(id, i) PROVE UNCHANGED active
    BY <2>2 DEF CancelPending
  <2> QED BY <1>1, <1>3, <2>1, <2>2, CancelCases, BusyAlike
<1>4. CASE EndHandler
  BY <1>4, EndCases, BusyAlike DEF buildsVars
<1>5. CASE Fails
  <2>1. stage' # "due"
    <3>1. stage' = stage /\ stage = "receive"
      BY <1>5, HandlerFrame DEF Fails, Receive
    <3> QED BY <3>1
  <2> QED BY <1>5, <2>1, BusyAlike DEF Fails, buildsVars
<1> QED BY <1>1, <1>2, <1>3, <1>4, <1>5, HandlerCases DEF BuildHandler

LEMMA PlannedTail ==
  ASSUME Planned, todo # <<>>
  PROVE  PlannedAt(Tail(todo), Busy) /\ stage # "receive"
<1>1. CASE todo \in Seq(PlannedCalls(Busy))
  <2>1. Tail(todo) \in Seq(PlannedCalls(Busy))
    BY <1>1, HeadTailProperties
  <2> QED BY <2>1 DEF Planned, PlannedAt
<1>2. ASSUME ~Busy, NEW m \in ReplyMessages, todo = <<Send(m, FALSE)>>
      PROVE  PlannedAt(Tail(todo), Busy) /\ stage # "receive"
  <2>1. Tail(todo) = <<>>
    BY <1>2
  <2>2. Tail(todo) \in Seq(PlannedCalls(Busy))
    BY <2>1, EmptyTyped
  <2> QED BY <2>2 DEF Planned, PlannedAt
<1> QED BY <1>1, <1>2 DEF Planned, PlannedAt

(* A call other than a send is planned, and so are those after it. *)
LEMMA PlannedOther ==
  ASSUME Planned, todo # <<>>, Head(todo).call # "send"
  PROVE  Tail(todo) \in Seq(PlannedCalls(Busy))
<1>1. ASSUME NEW m \in ReplyMessages, todo = <<Send(m, FALSE)>>
      PROVE  FALSE
  <2>1. Head(todo) = Send(m, FALSE)
    BY <1>1
  <2> QED BY <2>1 DEF Send
<1>2. todo \in Seq(PlannedCalls(Busy))
  BY <1>1 DEF Planned, PlannedAt
<1> QED BY <1>2, HeadTailProperties

LEMMA CapturePlanned ==
  ASSUME TypeOK, subscription # NoSubscription, NEW rest,
         rest \in Seq(PlannedCalls(Busy)), Capture(rest)
  PROVE  todo' \in Seq(PlannedCalls(Busy))
<1>1. rest \in Seq(Calls)
  BY PlannedTyped
<1>2. PICK sample \in SampleMessages : todo' = <<Put(sample)>> \o rest
  BY <1>1, CaptureTyped
<1>3. <<Put(sample)>> \in Seq(PlannedCalls(Busy))
  BY PlanPut DEF Plan
<1> QED BY <1>2, <1>3, ConcatProperties

LEMMA PlannedStep ==
  ASSUME TypeOK, Planned, [Next]_vars
  PROVE  Planned'
<1>0. ASSUME NEW m \in ReplyMessages, ~Busy', todo' = <<Send(m, FALSE)>> PROVE PlannedAt(todo', Busy')
  BY <1>0 DEF PlannedAt
<1>1. ASSUME PlannedAt(todo', Busy'), stage' # "receive" PROVE Planned'
  BY <1>1 DEF Planned, PlannedAt, Busy
<1>2. CASE UNCHANGED <<stage, todo, active>>
  BY <1>2 DEF Planned, PlannedAt, Busy
<1>3. CASE BuildFinished
  <2>1. PlannedAt(todo', Busy') /\ stage' = "due"
    BY <1>0, <1>3, FinishCases, EmptyTyped DEF PlannedAt
  <2> QED BY <1>1, <2>1
<1>4. CASE Handler /\ ~BuildFinished
  <2>1. CASE stage' = "due"
    BY <1>1, <1>4, <2>1, BuildsAlike DEF PlannedAt
  <2>2. CASE Fails
    BY <1>2, <2>2 DEF Fails, buildsVars
  <2> QED BY <1>4, <2>1, <2>2, HandlerFrame
<1>5. CASE SendReply \/ PutSample
  <2>1. todo # <<>> /\ todo' = Tail(todo) /\ UNCHANGED <<stage, active>>
    BY <1>5 DEF SendReply, PutSample, Calling, buildsVars
  <2> QED BY <1>1, <2>1, PlannedTail, BusyAlike
<1>6. CASE RefreshSample
  <2>1. todo # <<>> /\ Head(todo).call # "send" /\ UNCHANGED <<stage, active>>
    BY <1>6 DEF RefreshSample, Calling, buildsVars
  <2>2. stage # "receive" /\ Tail(todo) \in Seq(PlannedCalls(Busy))
    BY <2>1, PlannedTail, PlannedOther
  <2>3. todo' \in Seq(PlannedCalls(Busy))
    BY <1>6, <2>2, CapturePlanned DEF RefreshSample
  <2> QED BY <1>1, <2>1, <2>2, <2>3, BusyAlike DEF PlannedAt
<1>7. CASE SampleDue
  <2>1. todo' \in Seq(PlannedCalls(Busy))
    <3>1. subscription # NoSubscription
      BY <1>7 DEF SampleDue, NoSubscription
    <3> QED BY <1>7, <3>1, EmptyTyped, CapturePlanned DEF SampleDue
  <2>2. stage' = "schedule" /\ UNCHANGED active
    BY <1>7 DEF SampleDue, buildsVars
  <2> QED BY <1>1, <2>1, <2>2, BusyAlike DEF PlannedAt
<1>8. CASE Scheduler
  <2>1. todo' = <<>>
    BY <1>8, SchedulerFrame
  <2> QED BY <2>1, EmptyTyped DEF Planned, PlannedAt
<1>9. CASE ReadRequest \/ ReadEnd \/ OutputLost \/ Assembly \/ GuestAdvance \/ Writer
  BY <1>2, <1>9, ReaderFrame, OutputLostFrame, AssemblyFrame, WriterFrame
     DEF Fails, GuestAdvance, buildsVars
<1>10. CASE UNCHANGED vars
  BY <1>2, <1>10 DEF vars, buildsVars
<1> QED BY <1>3, <1>4, <1>5, <1>6, <1>7, <1>8, <1>9, <1>10, Steps DEF Caller

(* A slot for the artifact: the first part of ReservationHeld. *)
HasArtifact(calls) == \E i \in DOMAIN calls : calls[i].message.kind = "assembled"
ArtifactRoom == Busy \/ HasArtifact(todo) => Len(bulk) < BulkCapacity

LEMMA NoArtifact ==
  ASSUME NEW busy, NEW calls, calls \in Seq(PlannedCalls(busy))
  PROVE  ~HasArtifact(calls)
<1>1. \A c \in PlannedCalls(busy) : c.message.kind # "assembled"
  BY DEF PlannedCalls, SendCalls, ObserveCalls, Sample, SampleMessages, NoMessage, Reply, Message
<1>2. \A i \in DOMAIN calls : calls[i] \in PlannedCalls(busy)
  BY LenProperties, ElementOfSeq
<1> QED BY <1>1, <1>2 DEF HasArtifact

LEMMA NoArtifactNext ==
  ASSUME TypeOK, Planned, Handler \/ Caller, ~BuildFinished
  PROVE  ~HasArtifact(todo')
<1>1. CASE Handler
  <2>1. CASE stage' = "due"
    BY <1>1, <2>1, BuildsAlike, NoArtifact
  <2>2. CASE Fails
    <3>1. todo' = <<>>
      BY <1>1, <2>2, HandlerFrame DEF Fails, Receive, Planned
    <3> QED BY <3>1 DEF HasArtifact
  <2> QED BY <1>1, <2>1, <2>2, HandlerFrame
<1>2. CASE SendReply \/ PutSample
  <2>1. todo # <<>> /\ todo' = Tail(todo)
    BY <1>2 DEF SendReply, PutSample, Calling
  <2>2. CASE todo \in Seq(PlannedCalls(Busy))
    <3>1. Tail(todo) \in Seq(PlannedCalls(Busy))
      BY <2>1, <2>2, HeadTailProperties
    <3> QED BY <2>1, <3>1, NoArtifact
  <2>3. ASSUME NEW m \in ReplyMessages, todo = <<Send(m, FALSE)>> PROVE ~HasArtifact(todo')
    <3>1. todo' = <<>>
      BY <2>1, <2>3
    <3> QED BY <3>1 DEF HasArtifact
  <2> QED BY <2>2, <2>3 DEF Planned, PlannedAt
<1>3. CASE RefreshSample
  <2>1. todo # <<>> /\ Head(todo).call # "send"
    BY <1>3 DEF RefreshSample, Calling
  <2>2. Tail(todo) \in Seq(PlannedCalls(Busy))
    BY <2>1, PlannedOther
  <2>3. todo' \in Seq(PlannedCalls(Busy))
    BY <1>3, <2>2, CapturePlanned DEF RefreshSample
  <2> QED BY <2>3, NoArtifact
<1>4. CASE SampleDue
  <2>1. subscription # NoSubscription
    BY <1>4 DEF SampleDue, NoSubscription
  <2>2. todo' \in Seq(PlannedCalls(Busy))
    BY <1>4, <2>1, EmptyTyped, CapturePlanned DEF SampleDue
  <2> QED BY <2>2, NoArtifact
<1> QED BY <1>1, <1>2, <1>3, <1>4 DEF Caller

(* Only a handler and the scheduler change which build is active. *)
LEMMA ActiveFrame ==
  ASSUME [Next]_vars, ~Handler, ~StartBuild
  PROVE  UNCHANGED <<pending, active>>
<1>1. Caller \/ Conclude \/ Continue => UNCHANGED buildsVars
  BY CallerFrame DEF Conclude, Continue
<1>2. OutputLost \/ ReadRequest \/ ReadEnd \/ Assembly \/ GuestAdvance \/ Writer
        \/ UNCHANGED vars => UNCHANGED buildsVars
  BY OutputLostFrame, ReaderFrame, AssemblyFrame, WriterFrame DEF Fails, GuestAdvance, vars
<1> QED BY <1>1, <1>2, Steps DEF Scheduler, buildsVars

(* The bulk lane grows by a send only. *)
LEMMA BulkFrame ==
  ASSUME TypeOK, [Next]_vars, ~SendReply
  PROVE  Len(bulk') <= Len(bulk) /\ Len(bulk) \in Nat /\ Len(bulk') \in Nat
<1>1. Len(bulk) \in Nat
  BY LenProperties DEF TypeOK, LaneTypes
<1>2. CASE UNCHANGED bulk
  BY <1>1, <1>2
<1>3. CASE WriterReceive
  <2>1. bulk # <<>> => Len(Tail(bulk)) = Len(bulk) - 1 /\ Len(Tail(bulk)) \in Nat
    BY HeadTailProperties DEF TypeOK, LaneTypes
  <2>2. CASE UNCHANGED bulk
    BY <1>2, <2>2
  <2>3. CASE bulk # <<>> /\ bulk' = Tail(bulk)
    BY <1>1, <2>1, <2>3
  <2> QED BY <1>3, <2>2, <2>3
          DEF WriterReceive, ReceiveControl, ReceiveBulk, ReceiveSample, ReceiveFinal
<1>4. CASE WriterFails
  <2>1. bulk' = <<>>
    BY <1>4 DEF WriterFails, LoseOutbox
  <2> QED BY <1>1, <2>1
<1>5. WriterAnnounce \/ WriterWrite \/ WriterFinish \/ WriterReports => UNCHANGED bulk
  BY DEF WriterAnnounce, WriterWrite, WriterFinish, WriterReports, lanes
<1>6. Handler \/ Scheduler \/ OutputLost => UNCHANGED bulk
  BY HandlerFrame, SchedulerFrame, OutputLostFrame DEF Untouched
<1>7. PutSample \/ RefreshSample \/ SampleDue => UNCHANGED bulk
  BY DEF PutSample, Observe, RefreshSample, SampleDue, lanes
<1>8. ReadRequest \/ ReadEnd \/ Assembly \/ GuestAdvance \/ UNCHANGED vars => UNCHANGED bulk
  BY ReaderFrame, AssemblyFrame DEF GuestAdvance, vars, lanes
<1> QED BY <1>2, <1>3, <1>4, <1>5, <1>6, <1>7, <1>8, Steps DEF Caller, Writer

LEMMA SendPlanned ==
  ASSUME NEW busy, NEW c \in PlannedCalls(busy), c.call = "send"
  PROVE  c \in SendCalls(busy)
BY DEF PlannedCalls, ObserveCalls, Sample

LEMMA ArtifactStep ==
  ASSUME TypeOK, Planned, ArtifactRoom, [Next]_vars
  PROVE  ArtifactRoom'
<1>0. BulkCapacity \in Nat
  BY LanesAssumption
<1>1. HasArtifact(todo)' <=> HasArtifact(todo')
  BY DEF HasArtifact
<1>2. CASE BuildFinished
  <2>1. Busy /\ UNCHANGED bulk
    BY <1>2, FinishCases DEF lanes
  <2> QED BY <2>1 DEF ArtifactRoom
<1>3. CASE StartBuild
  <2>1. CanStartBuild /\ UNCHANGED bulk
    BY <1>3 DEF StartBuild, lanes
  <2> QED BY <2>1 DEF ArtifactRoom, CanStartBuild
<1>4. ASSUME ~BuildFinished, ~StartBuild
      PROVE  Busy' = Busy
  BY <1>4, BuildsAlike, ActiveFrame, BusyAlike
<1>5. ASSUME ~BuildFinished, ~StartBuild
      PROVE  HasArtifact(todo') => HasArtifact(todo)
  <2>1. Handler \/ Caller \/ UNCHANGED todo
    BY Steps, SchedulerFrame, OutputLostFrame, ReaderFrame, AssemblyFrame, WriterFrame
       DEF Fails, GuestAdvance, vars
  <2> QED BY <1>5, <2>1, NoArtifactNext
<1>6. CASE SendReply
  <2>1. ~BuildFinished /\ ~StartBuild /\ todo # <<>> /\ todo' = Tail(todo)
    BY <1>6 DEF SendReply, Calling, BuildFinished, Receive, StartBuild, Scheduling, Planned
  <2>2. ~HasArtifact(todo')
    BY <1>6, <2>1, NoArtifactNext DEF Caller
  <2>3. CASE SendControl(Head(todo).message, Head(todo).reserve)
    BY <1>1, <1>4, <2>1, <2>2, <2>3 DEF SendControl, ArtifactRoom
  <2>4. CASE SendBulk(Head(todo).message, Head(todo).reserve) /\ Busy
    <3>1. todo \in Seq(PlannedCalls(Busy))
      BY <2>4 DEF Planned, PlannedAt
    <3>2. Head(todo) \in PlannedCalls(Busy) /\ Head(todo).call = "send"
      BY <1>6, <2>1, <3>1, HeadTailProperties DEF SendReply, Calling
    <3>3. Head(todo) \in SendCalls(Busy)
      BY <3>2, SendPlanned
    <3>4. Head(todo).reserve
      BY <2>4, <3>3 DEF SendCalls, SendBulk
    <3>5. Len(bulk) + 1 < BulkCapacity
      BY <2>4, <3>4 DEF SendBulk, FitsBulk
    <3>6. Len(bulk') = Len(bulk) + 1
      BY <2>4, AppendProperties DEF SendBulk, TypeOK, LaneTypes
    <3> QED BY <3>5, <3>6 DEF ArtifactRoom
  <2> QED BY <1>1, <1>4, <1>6, <2>1, <2>2, <2>3, <2>4 DEF SendReply, ArtifactRoom
<1>7. CASE ~SendReply /\ ~BuildFinished /\ ~StartBuild
  BY <1>0, <1>1, <1>4, <1>5, <1>7, BulkFrame DEF ArtifactRoom
<1> QED BY <1>2, <1>3, <1>6, <1>7

(* The results of builds in the event queue. *)
Results(q) == Cardinality({i \in DOMAIN q : q[i].type = "build"})
ResultsOf(q, id) == \A i \in DOMAIN q : q[i].type = "build" => q[i].id = id
ResultEvents == {e \in QueuedEvents : e.type = "build"}

LEMMA ResultsAsOccurrences ==
  ASSUME NEW q \in Seq(QueuedEvents)
  PROVE  Results(q) = Occurrences(q, ResultEvents) /\ Results(q) \in Nat
<1>1. {i \in DOMAIN q : q[i].type = "build"} = {i \in DOMAIN q : q[i] \in ResultEvents}
  BY QueueIds DEF ResultEvents
<1>2. Results(q) = Occurrences(q, ResultEvents)
  BY <1>1 DEF Results, Occurrences
<1> QED BY <1>2, OccurrencesConcat

LEMMA ResultsAppend ==
  ASSUME NEW q \in Seq(QueuedEvents), NEW e \in QueuedEvents
  PROVE  /\ Results(Append(q, e)) = Results(q) + Count(e.type = "build")
         /\ \A id : ResultsOf(q, id) /\ (e.type = "build" => e.id = id)
                      => ResultsOf(Append(q, e), id)
<1> DEFINE r == Append(q, e)
<1>1. /\ r \in Seq(QueuedEvents) /\ DOMAIN q = 1 .. Len(q) /\ Len(q) \in Nat
      /\ DOMAIN r = 1 .. Len(q) + 1 /\ r[Len(q) + 1] = e /\ \A i \in 1 .. Len(q) : r[i] = q[i]
  BY QueueAppend
<1>2. Counted(e, ResultEvents, Occurrences(q, ResultEvents), Occurrences(r, ResultEvents))
  BY OccurrencesAppend
<1> HIDE DEF r
<1>3. Results(r) = Results(q) + Count(e.type = "build")
  BY <1>1, <1>2, ResultsAsOccurrences DEF Counted, Count, ResultEvents
<1>4. \A id : ResultsOf(q, id) /\ (e.type = "build" => e.id = id) => ResultsOf(r, id)
  BY <1>1 DEF ResultsOf
<1> QED BY <1>3, <1>4 DEF r

LEMMA ResultsTail ==
  ASSUME NEW q \in Seq(QueuedEvents), q # <<>>
  PROVE  /\ Results(q) = Results(Tail(q)) + Count(Head(q).type = "build")
         /\ \A id : ResultsOf(q, id) => ResultsOf(Tail(q), id)
<1> DEFINE r == Tail(q)
           h == Head(q)
<1>1. /\ r \in Seq(QueuedEvents) /\ h = q[1] /\ h \in QueuedEvents
      /\ DOMAIN q = 1 .. Len(q) /\ Len(q) \in Nat /\ DOMAIN r = 1 .. Len(q) - 1
      /\ \A i \in 1 .. Len(q) - 1 : r[i] = q[i + 1]
  BY HeadTailProperties, HeadBeforeTail, LenProperties
<1>2. Counted(h, ResultEvents, Occurrences(r, ResultEvents), Occurrences(q, ResultEvents))
  BY OccurrencesTail
<1> HIDE DEF r, h
<1>3. Results(q) = Results(r) + Count(h.type = "build")
  BY <1>1, <1>2, ResultsAsOccurrences DEF Counted, Count, ResultEvents
<1>4. \A i \in DOMAIN r : i + 1 \in DOMAIN q /\ r[i] = q[i + 1]
  BY <1>1
<1>5. \A id : ResultsOf(q, id) => ResultsOf(r, id)
  BY <1>4 DEF ResultsOf
<1> QED BY <1>3, <1>5 DEF r, h

LEMMA NoResults ==
  ASSUME NEW q \in Seq(QueuedEvents), Results(q) = 0, NEW id
  PROVE  ResultsOf(q, id)
<1> DEFINE P == {i \in DOMAIN q : q[i].type = "build"}
<1>1. P \in SUBSET (1 .. Len(q)) /\ Len(q) \in Nat
  BY LenProperties
<1>2. IsFiniteSet(P)
  BY <1>1, PositionsFinite
<1>3. P = {}
  BY <1>2, FS_EmptySet DEF Results
<1> QED BY <1>3 DEF ResultsOf

(* What the assembly thread has is the active build, once. *)
Assigned ==
    /\ \A i \in DOMAIN jobs : jobs[i] = active.id
    /\ compiling \in {0, active.id}
    /\ ResultsOf(events, active.id)
Jobs == Len(jobs) + Count(compiling # 0) + Results(events)
Compiles ==
    Serving => /\ Assigned
               /\ Jobs <= Count(Busy)
               /\ "build" \notin Faults => Jobs = Count(Busy)

LEMMA CompilesStated == Compiles <=> (Serving => /\ CompilesActive
                                                 /\ Compilations <= Count(Busy)
                                                 /\ "build" \notin Faults => Compilations = Count(Busy))
<1>1. Assigned <=> CompilesActive
  BY DEF Assigned, CompilesActive, ResultsOf, BuildResults
<1>2. Jobs = Compilations
  BY DEF Jobs, Compilations, Results, BuildResults
<1> QED BY <1>1, <1>2 DEF Compiles

LEMMA JobsTyped ==
  ASSUME TypeOK
  PROVE  /\ Len(jobs) \in Nat /\ Results(events) \in Nat
         /\ Count(compiling # 0) \in {0, 1} /\ Count(Busy) \in {0, 1}
<1>1. Len(jobs) \in Nat
  BY LenProperties DEF TypeOK, QueueTypes
<1>2. Results(events) \in Nat
  BY ResultsAsOccurrences DEF TypeOK, QueueTypes
<1> QED BY <1>1, <1>2 DEF Count

(* The assembly thread and the active build are left alone. *)
LEMMA CompilesKept ==
  ASSUME Compiles, Serving, UNCHANGED <<jobs, compiling>>, active'.id = active.id, Busy' = Busy,
         Results(events') = Results(events), ResultsOf(events, active.id) => ResultsOf(events', active.id)
  PROVE  Compiles'
<1>1. Assigned /\ Jobs <= Count(Busy) /\ ("build" \notin Faults => Jobs = Count(Busy))
  BY DEF Compiles
<1>2. Assigned'
  <2>1. ResultsOf(events', active.id')
    BY <1>1 DEF Assigned
  <2> QED BY <1>1, <2>1 DEF Assigned, ResultsOf
<1>3. Jobs' = Jobs
  BY DEF Jobs, Results, Count
<1>4. Count(Busy)' = Count(Busy)
  BY DEF Count
<1> QED BY <1>1, <1>2, <1>3, <1>4 DEF Compiles

LEMMA StartCompiles ==
  ASSUME TypeOK, Compiles, StartBuild
  PROVE  Compiles'
<1>1. ~Busy /\ Serving /\ UNCHANGED <<compiling, events, outcome>> /\ jobs' = Append(jobs, active'.id)
      /\ pending # <<>> /\ active' = [id |-> Head(pending).id, cancelled |-> FALSE]
  BY DEF StartBuild, Scheduling, TakeBuild, assemblyVars
<1>2. Len(jobs) = 0 /\ compiling = 0 /\ Results(events) = 0
  <2>1. Jobs <= 0
    BY <1>1 DEF Compiles, Count
  <2> QED BY <2>1, JobsTyped DEF Jobs, Count
<1>3. Busy' /\ active'.id \in Positive
  <2>1. Head(pending) \in Builds
    BY <1>1, HeadTailProperties DEF TypeOK, BuildTypes
  <2> QED BY <1>1, <2>1 DEF Busy, NoBuild, Builds, Positive
<1>4. Len(jobs') = 1 /\ DOMAIN jobs' = 1 .. 1 /\ jobs'[1] = active'.id
  <2>1. jobs \in Seq(Positive) /\ jobs' \in Seq(Positive)
    BY <1>1, <1>3, AppendProperties DEF TypeOK, QueueTypes
  <2> QED BY <1>1, <1>2, <1>3, <2>1, AppendProperties, LenProperties
<1>5. Assigned'
  <2>1. ResultsOf(events, active'.id)
    BY <1>2, NoResults DEF TypeOK, QueueTypes
  <2> QED BY <1>1, <1>2, <1>4, <2>1 DEF Assigned, ResultsOf
<1>6. Jobs' = 1 /\ Count(Busy)' = 1
  BY <1>1, <1>2, <1>3, <1>4 DEF Jobs, Results, Count
<1> QED BY <1>5, <1>6 DEF Compiles

LEMMA TakeCompiles ==
  ASSUME TypeOK, Compiles, CompileTake
  PROVE  Compiles'
<1>1. Serving /\ compiling = 0 /\ jobs # <<>> /\ compiling' = Head(jobs) /\ jobs' = Tail(jobs)
      /\ UNCHANGED <<events, active, outcome>>
  BY DEF CompileTake, buildsVars, loopVars
<1>2. Assigned /\ jobs \in Seq(Positive)
  BY <1>1 DEF Compiles, TypeOK, QueueTypes
<1>3. /\ jobs' \in Seq(Positive) /\ Len(jobs') = Len(jobs) - 1 /\ Head(jobs) = jobs[1]
      /\ 1 \in DOMAIN jobs /\ DOMAIN jobs = 1 .. Len(jobs) /\ DOMAIN jobs' = 1 .. Len(jobs')
      /\ Head(jobs) \in Positive /\ \A i \in 1 .. Len(jobs') : jobs'[i] = jobs[i + 1]
  BY <1>1, <1>2, HeadTailProperties, HeadBeforeTail, LenProperties
<1>4. compiling' = active.id /\ compiling' # 0
  BY <1>1, <1>2, <1>3 DEF Assigned, Positive
<1>5. \A i \in DOMAIN jobs' : jobs'[i] = active.id
  <2>1. \A i \in DOMAIN jobs' : i + 1 \in DOMAIN jobs
    BY <1>3, JobsTyped
  <2> QED BY <1>2, <1>3, <2>1 DEF Assigned
<1>6. Assigned'
  BY <1>1, <1>2, <1>4, <1>5 DEF Assigned, ResultsOf
<1>7. Jobs' = Jobs /\ Count(Busy)' = Count(Busy)
  <2>1. Jobs' = Jobs
    BY <1>1, <1>3, <1>4, JobsTyped DEF Jobs, Results, Count
  <2> QED BY <1>1, <2>1 DEF Count, Busy
<1> QED BY <1>1, <1>6, <1>7 DEF Compiles, Count, Busy

LEMMA DoneCompiles ==
  ASSUME TypeOK, Compiles, CompileDone
  PROVE  Compiles'
<1>1. Serving /\ compiling # 0 /\ compiling' = 0 /\ UNCHANGED <<jobs, active, outcome>>
  BY DEF CompileDone, buildsVars, loopVars
<1>2. Assigned /\ Jobs <= Count(Busy) /\ ("build" \notin Faults => Jobs = Count(Busy))
      /\ compiling = active.id /\ compiling \in Positive
  BY <1>1 DEF Compiles, Assigned, TypeOK, QueueTypes, Positive
<1>3. PICK e \in QueuedEvents :
        /\ events' = Append(events, e)
        /\ \/ e.type = "build" /\ e.id = compiling
           \/ e.type = "failed" /\ "build" \in Faults
  <2>1. Event("failed", 0, "none") \in QueuedEvents /\ Event("failed", 0, "none").type = "failed"
    BY DEF Event, QueuedEvents
  <2>2. \A kind \in {"assembled", "error"} :
           /\ Event("build", compiling, kind) \in QueuedEvents
           /\ Event("build", compiling, kind).type = "build"
           /\ Event("build", compiling, kind).id = compiling
    BY <1>2 DEF Event, QueuedEvents
  <2> QED BY <2>1, <2>2 DEF CompileDone
<1>4. Results(events') = Results(events) + Count(e.type = "build") /\ ResultsOf(events', active.id)
  BY <1>2, <1>3, ResultsAppend DEF Assigned, TypeOK, QueueTypes
<1>5. Assigned'
  BY <1>1, <1>2, <1>4 DEF Assigned, ResultsOf
<1>6. Jobs' <= Jobs /\ ("build" \notin Faults => Jobs' = Jobs)
  <2>1. Jobs = Len(jobs) + 1 + Results(events)
    BY <1>1 DEF Jobs, Count
  <2>2. Jobs' = Len(jobs) + 0 + Results(events')
    BY <1>1 DEF Jobs, Count, Results
  <2>3. Count(e.type = "build") \in {0, 1} /\ ("build" \notin Faults => Count(e.type = "build") = 1)
    BY <1>3 DEF Count
  <2> QED BY <1>4, <2>1, <2>2, <2>3, JobsTyped
<1>7. Count(Busy)' = Count(Busy) /\ Jobs' \in Int /\ Jobs \in Int /\ Count(Busy) \in Int
  <2>1. Jobs \in Int /\ Jobs' \in Int
    BY <1>1, <1>4, JobsTyped DEF Jobs, Results, Count
  <2> QED BY <1>1, <2>1 DEF Count, Busy
<1> QED BY <1>1, <1>2, <1>5, <1>6, <1>7 DEF Compiles

LEMMA FinishCompiles ==
  ASSUME TypeOK, Compiles, BuildFinished
  PROVE  Compiles'
<1>1. Serving /\ Busy /\ ~Busy' /\ Receive("build") /\ UNCHANGED <<jobs, compiling, outcome>>
      /\ active' = NoBuild
  BY FinishCases DEF BuildFinished, Receive, assemblyVars
<1>2. events \in Seq(QueuedEvents) /\ events # <<>> /\ events' = Tail(events)
      /\ Head(events).type = "build" /\ events' \in Seq(QueuedEvents)
  BY <1>1, ReceiveTyped DEF Receive
<1>3. Results(events) = Results(events') + 1 /\ Results(events') \in Nat
  BY <1>2, ResultsTail, ResultsAsOccurrences DEF Count
<1>4. Jobs <= 1
  BY <1>1 DEF Compiles, Count
<1>5. Len(jobs) = 0 /\ compiling = 0 /\ Results(events') = 0
  BY <1>3, <1>4, JobsTyped DEF Jobs, Count
<1>6. Assigned'
  <2>1. ResultsOf(events', active'.id)
    BY <1>2, <1>5, NoResults
  <2>2. DOMAIN jobs = {}
    BY <1>5, LenProperties DEF TypeOK, QueueTypes
  <2> QED BY <1>1, <1>5, <2>1, <2>2 DEF Assigned, ResultsOf
<1>7. Jobs' = 0 /\ Count(Busy)' = 0
  BY <1>1, <1>5 DEF Jobs, Results, Count
<1> QED BY <1>6, <1>7 DEF Compiles

LEMMA CompilesStep ==
  ASSUME TypeOK, Compiles, [Next]_vars
  PROVE  Compiles'
<1>1. CASE ~Serving'
  BY <1>1 DEF Compiles
<1>2. CASE Serving /\ UNCHANGED <<events, jobs, compiling, active>>
  BY <1>2, CompilesKept, BusyAlike
<1>3. CASE Handler
  <2>1. Serving /\ UNCHANGED <<jobs, compiling>>
    BY <1>3, HandlerFrame DEF Untouched, assemblyVars
  <2>2. CASE BuildFinished
    BY <2>2, FinishCompiles
  <2>3. CASE ~BuildFinished /\ ~Fails
    <3>1. active'.id = active.id /\ Busy' = Busy
      BY <1>3, <2>3, BuildsAlike
    <3>2. PICK type \in {"request", "closed", "writable"} : Receive(type)
      BY <1>3, <2>3, HandlerTakesOther
    <3>3. events \in Seq(QueuedEvents) /\ events # <<>> /\ events' = Tail(events)
          /\ Head(events).type # "build" /\ events' \in Seq(QueuedEvents)
      BY <3>2, ReceiveTyped DEF Receive
    <3>4. Results(events') = Results(events)
          /\ (ResultsOf(events, active.id) => ResultsOf(events', active.id))
      <4>1. /\ Results(events) = Results(Tail(events)) + 0
            /\ ResultsOf(events, active.id) => ResultsOf(Tail(events), active.id)
        BY <3>3, ResultsTail DEF Count
      <4>2. Results(events') \in Nat
        BY <3>3, ResultsAsOccurrences
      <4> QED BY <3>3, <4>1, <4>2
    <3> QED BY <2>1, <3>1, <3>4, CompilesKept
  <2>4. CASE Fails
    BY <1>1, <2>4 DEF Fails, Serving
  <2> QED BY <2>2, <2>3, <2>4
<1>4. CASE CompileTake \/ CompileDone \/ StartBuild
  BY <1>4, StartCompiles, TakeCompiles, DoneCompiles
<1>5. CASE Writer \/ ReadRequest \/ ReadEnd
  <2>1. UNCHANGED <<outcome, jobs, compiling, active>>
    BY <1>5, WriterFrame, ReaderFrame DEF loopVars, assemblyVars, buildsVars
  <2>2. events \in Seq(QueuedEvents)
    BY DEF TypeOK, QueueTypes
  <2>3. ASSUME NEW e \in QueuedEvents, e.type # "build", events' = Append(events, e), Serving
        PROVE  Compiles'
    <3>1. /\ Results(events') = Results(events) + 0
          /\ ResultsOf(events, active.id) => ResultsOf(events', active.id)
      BY <2>2, <2>3, ResultsAppend DEF Count
    <3>2. Results(events') = Results(events)
      BY <2>2, <3>1, ResultsAsOccurrences
    <3> QED BY <2>1, <2>3, <3>1, <3>2, CompilesKept, BusyAlike
  <2>4. ReadRequest \/ ReadEnd => \E e \in QueuedEvents : e.type # "build" /\ events' = Append(events, e)
    <3>1. \A id \in Nat, kind \in Kinds : Event("request", id, kind) \in QueuedEvents
                                          /\ Event("request", id, kind).type # "build"
      BY DEF Event, QueuedEvents
    <3>2. \A type \in {"closed", "failed"} : Event(type, 0, "none") \in QueuedEvents
                                             /\ Event(type, 0, "none").type # "build"
      BY DEF Event, QueuedEvents
    <3> QED BY <3>1, <3>2 DEF ReadRequest, ReadEnd, TypeOK, QueueTypes
  <2>5. Writer => UNCHANGED events \/ \E e \in QueuedEvents : e.type # "build" /\ events' = Append(events, e)
    BY WriterEvents
  <2> QED BY <1>1, <1>2, <1>5, <2>1, <2>3, <2>4, <2>5 DEF Serving
<1>6. CASE Conclude
  BY <1>1, <1>6 DEF Conclude, Serving
<1>7. CASE OutputLost
  BY <1>1, <1>7, OutputLostFrame DEF Fails, Serving
<1>8. CASE Caller \/ Continue \/ GuestAdvance
  <2>1. Serving /\ UNCHANGED <<events, jobs, compiling, active>>
    <3>1. Caller => Serving /\ UNCHANGED <<events, jobs, compiling, active>>
      BY CallerFrame DEF assemblyVars, buildsVars
    <3> QED BY <1>8, <3>1
            DEF Continue, Scheduling, GuestAdvance, assemblyVars, buildsVars
  <2> QED BY <1>2, <2>1
<1>9. CASE UNCHANGED vars
  BY <1>1, <1>2, <1>9 DEF vars, assemblyVars, buildsVars, Serving, loopVars
<1> QED BY <1>3, <1>4, <1>5, <1>6, <1>7, <1>8, <1>9, Steps DEF Scheduler, Assembly

PendingLimit == Len(pending) <= MaxPending

LEMMA PendingStep ==
  ASSUME TypeOK, PendingLimit, [Next]_vars
  PROVE  PendingLimit'
<1>0. pending \in Seq(Builds) /\ Len(pending) \in Nat /\ MaxPending \in Nat
  BY LenProperties, PendingAssumption DEF TypeOK, BuildTypes
<1>1. CASE UNCHANGED pending
  BY <1>1 DEF PendingLimit
<1>2. CASE Assemble
  <2>0. last' \in Positive
    BY <1>2, AssembleCases, AcceptsTyped
  <2>1. ASSUME NEW document \in Documents, PushNew(last', document)
        PROVE  PendingLimit'
    <3>1. [id |-> last', document |-> document] \in Builds
      BY <2>0 DEF Builds
    <3>2. Len(pending') = Len(pending) + 1
      BY <1>0, <2>1, <3>1, AppendProperties DEF PushNew
    <3> QED BY <1>0, <2>1, <3>2 DEF PushNew, PendingLimit
  <2>2. ASSUME NEW document \in Documents, NEW i \in OfDocument(document),
               PushReplacing(last', document, i)
        PROVE  PendingLimit'
    <3>1. [id |-> last', document |-> document] \in Builds
      BY <2>0 DEF Builds
    <3>2. i \in 1 .. Len(pending)
      BY <1>0, LenProperties DEF OfDocument
    <3>3. RemoveAt(pending, i) \in Seq(Builds) /\ Len(RemoveAt(pending, i)) = Len(pending) - 1
      BY <1>0, <3>2, RemoveAtTyped
    <3>4. Len(pending') = Len(pending)
      BY <1>0, <2>2, <3>1, <3>3, AppendProperties DEF PushReplacing
    <3> QED BY <3>4 DEF PendingLimit
  <2> QED BY <1>1, <1>2, <2>1, <2>2, AssembleCases DEF AnswersNow, buildsVars
<1>3. CASE CancelAssembly
  <2>1. ASSUME NEW id, NEW i \in OfRequest(id), CancelPending(id, i)
        PROVE  PendingLimit'
    <3>1. i \in 1 .. Len(pending)
      BY <1>0, LenProperties DEF OfRequest
    <3>2. Len(pending') = Len(pending) - 1
      BY <1>0, <2>1, <3>1, RemoveAtTyped DEF CancelPending
    <3> QED BY <1>0, <3>2 DEF PendingLimit
  <2> QED BY <1>1, <1>3, <2>1, CancelCases DEF AnswersNow, CancelActive, buildsVars
<1>4. CASE Handler
  <2>1. AnswersNow \/ EndHandler \/ Fails \/ BuildFinished => UNCHANGED pending
    BY DEF AnswersNow, EndHandler, Shutdown, InputClosed, Writable, Fails, BuildFinished,
           FinishBuild, buildsVars
  <2> QED BY <1>1, <1>2, <1>3, <1>4, <2>1, HandlerCases DEF BuildHandler
<1>5. CASE StartBuild
  <2>1. pending # <<>> /\ pending' = Tail(pending)
    BY <1>5 DEF StartBuild, TakeBuild
  <2>2. Len(pending') = Len(pending) - 1
    BY <1>0, <2>1, HeadTailProperties
  <2> QED BY <1>0, <2>2 DEF PendingLimit
<1> QED BY <1>1, <1>4, <1>5, ActiveFrame

(* The inductive invariant of the reservation. *)
Held == TypeOK /\ Planned /\ ArtifactRoom /\ Compiles /\ PendingLimit

LEMMA HeldInit == Init => Held
<1> SUFFICES ASSUME Init PROVE Held
  OBVIOUS
<1>1. TypeOK
  BY TypesInit
<1>2. stage = "receive" /\ todo = <<>> /\ pending = <<>> /\ active = NoBuild /\ bulk = <<>>
      /\ jobs = <<>> /\ compiling = 0 /\ events = <<>>
  BY DEF Init, BuildsInit, OutboxInit
<1>3. ~Busy
  BY <1>2 DEF Busy
<1>4. Planned
  BY <1>2, EmptyTyped DEF Planned, PlannedAt
<1>5. ArtifactRoom
  BY <1>2, <1>3 DEF ArtifactRoom, HasArtifact
<1>6. Results(events) = 0
  <2>1. {i \in DOMAIN events : events[i].type = "build"} = {}
    BY <1>2
  <2> QED BY <2>1, FS_EmptySet DEF Results
<1>7. Compiles
  <2>1. Assigned
    BY <1>2 DEF Assigned, ResultsOf
  <2>2. Jobs = 0 /\ Count(Busy) = 0
    BY <1>2, <1>3, <1>6 DEF Jobs, Count
  <2> QED BY <2>1, <2>2 DEF Compiles
<1>8. PendingLimit
  BY <1>2, PendingAssumption DEF PendingLimit
<1> QED BY <1>1, <1>4, <1>5, <1>7, <1>8 DEF Held

LEMMA HeldStep == Held /\ [Next]_vars => Held'
BY TypesStep, PlannedStep, ArtifactStep, CompilesStep, PendingStep DEF Held

LEMMA HeldAlways == Spec => []Held
BY HeldInit, HeldStep, PTL DEF Spec

(***************************************************************************)
(* The reservation of a bulk slot for the active build holds for every     *)
(* capacity, and the assembly thread has that build and no other           *)
(* (outbox.rs:45, :79, dispatch.rs:173, :190).                             *)
(***************************************************************************)
THEOREM ArtifactHasRoom == Spec => []ReservationHeld
<1>1. Held => ReservationHeld
  BY CompilesStated DEF Held, ArtifactRoom, HasArtifact, PendingLimit, ReservationHeld
<1> QED BY <1>1, HeldAlways, PTL

-----------------------------------------------------------------------------
(***************************************************************************)
(* How the loop ends: a dispatcher that ended well left no call and no     *)
(* build behind, the final reply answers the shutdown, and the writer takes*)
(* it when the reply lanes are empty.                                      *)
(***************************************************************************)
Stopped == Serving <=> ~closed
LeftNothing ==
    /\ outcome \in {"complete", "rejected"} => todo = <<>> /\ Idle
    /\ outcome = "rejected" => closing.id = 0
FinalClosing == final # NoMessage => outcome = "complete" /\ closing.id = final.id
FinalLast ==
    outcome = "complete" /\ closing.reason = "shutdown" /\ ~failed /\ final = NoMessage
      => control = <<>> /\ bulk = <<>>
WriterAlive == writer \in {"receive", "announce", "write"} => ~failed
Ending == Stopped /\ LeftNothing /\ FinalClosing /\ FinalLast /\ WriterAlive

LEMMA ConcludeEnds ==
  ASSUME TypeOK, Ending, Conclude
  PROVE  Ending'
<1>1. Serving /\ todo' = <<>> /\ Idle /\ UNCHANGED <<closing, writer, failed, buildsVars>> /\ closed' = TRUE
  BY SchedulerFrame DEF Scheduler, Conclude, SendFinal, CloseOutbox, writerVars
<1>2. /\ closing.reason = "shutdown" => outcome' = "complete" /\ final' = Reply(closing.id, "closed")
      /\ closing.reason # "shutdown" => final' = final
      /\ outcome' = IF closing.reason = "rejected" THEN "rejected" ELSE "complete"
  BY DEF Conclude, SendFinal, CloseOutbox
<1>3. final = NoMessage
  BY <1>1 DEF Ending, FinalClosing, Serving
<1>4. closing \in Closings
  BY DEF TypeOK, LoopTypes
<1>5. LeftNothing'
  BY <1>1, <1>2, <1>4 DEF LeftNothing, Idle, Busy, buildsVars, Closings
<1>6. Reply(closing.id, "closed").id = closing.id /\ Reply(closing.id, "closed").kind = "closed"
      /\ NoMessage.kind = "none"
  BY DEF Reply, Message, NoMessage
<1>7. FinalClosing'
  BY <1>1, <1>2, <1>3, <1>6 DEF FinalClosing
<1>8. FinalLast'
  BY <1>1, <1>2, <1>6 DEF FinalLast
<1>9. Stopped' /\ WriterAlive'
  BY <1>1, <1>2 DEF Stopped, Serving, WriterAlive, Ending
<1> QED BY <1>5, <1>7, <1>8, <1>9 DEF Ending

LEMMA WriterEnds ==
  ASSUME TypeOK, Ending, Writer
  PROVE  Ending'
<1>1. UNCHANGED <<outcome, closing, todo, pending, active, closed>>
  BY WriterFrame DEF loopVars, buildsVars
<1>2. Stopped' /\ LeftNothing'
  BY <1>1 DEF Ending, Stopped, Serving, LeftNothing, Idle, Busy
<1>3. CASE UNCHANGED lanes
  <2>1. FinalClosing' /\ FinalLast'
    BY <1>1, <1>3 DEF Ending, FinalClosing, FinalLast, lanes
  <2>2. WriterAlive'
    BY <1>3 DEF Writer, WriterReceive, WriterAnnounce, WriterWrite, WriterFinish, WriterFails,
                WriterReports, LoseOutbox, Ending, WriterAlive, lanes
  <2> QED BY <1>2, <2>1, <2>2 DEF Ending
<1>4. CASE WriterReceive
  <2>1. WriterAlive'
    BY <1>4 DEF WriterReceive, ReceiveControl, ReceiveBulk, ReceiveSample, ReceiveFinal, Ending,
                WriterAlive
  <2>2. CASE ReceiveFinal(writing')
    BY <1>1, <1>2, <2>1, <2>2 DEF ReceiveFinal, Ending, FinalClosing, FinalLast
  <2>3. CASE UNCHANGED <<final, failed>> /\ (control = <<>> => control' = <<>>)
             /\ (bulk = <<>> => bulk' = <<>>)
    BY <1>1, <1>2, <2>1, <2>3 DEF Ending, FinalClosing, FinalLast
  <2> QED BY <1>4, <2>2, <2>3 DEF WriterReceive, ReceiveControl, ReceiveBulk, ReceiveSample
<1>5. CASE WriterFails
  BY <1>1, <1>2, <1>5 DEF WriterFails, LoseOutbox, Ending, FinalClosing, FinalLast, WriterAlive
<1>6. WriterAnnounce \/ WriterWrite \/ WriterFinish \/ WriterReports => UNCHANGED lanes
  BY DEF WriterAnnounce, WriterWrite, WriterFinish, WriterReports
<1> QED BY <1>3, <1>4, <1>5, <1>6 DEF Writer

LEMMA EndingStep ==
  ASSUME TypeOK, Ending, [Next]_vars
  PROVE  Ending'
<1>1. ASSUME Serving, UNCHANGED <<final, failed, writer>>,
             UNCHANGED <<closed, outcome>> \/ (outcome' = "failed" /\ closed' = TRUE)
      PROVE  Ending'
  BY <1>1 DEF Ending, Stopped, Serving, LeftNothing, FinalClosing, FinalLast, WriterAlive
<1>2. CASE Handler
  BY <1>1, <1>2, HandlerFrame DEF Untouched, Fails, writerVars
<1>3. CASE Caller
  BY <1>1, <1>3, CallerFrame DEF writerVars, loopVars
<1>4. CASE StartBuild \/ Continue
  BY <1>1, <1>4, SchedulerFrame DEF Scheduler, StartBuild, Continue, lanes, writerVars
<1>5. CASE OutputLost
  BY <1>1, <1>5, OutputLostFrame DEF Untouched, Fails, writerVars
<1>6. CASE ReadRequest \/ ReadEnd \/ Assembly \/ GuestAdvance
  BY <1>1, <1>6, ReaderFrame, AssemblyFrame DEF GuestAdvance, lanes, writerVars, loopVars
<1>7. CASE UNCHANGED vars
  <2>1. UNCHANGED <<outcome, closing, todo, pending, active, writer>> /\ UNCHANGED lanes
    BY <1>7 DEF vars, loopVars, buildsVars, writerVars
  <2> QED BY <2>1 DEF Ending, Stopped, Serving, LeftNothing, Idle, Busy, FinalClosing, FinalLast,
                      WriterAlive, lanes
<1> QED BY <1>2, <1>3, <1>4, <1>5, <1>6, <1>7, ConcludeEnds, WriterEnds, Steps DEF Scheduler

LEMMA EndingInit == Init => Ending
BY DEF Init, OutboxInit, BuildsInit, Ending, Stopped, Serving, LeftNothing, FinalClosing, FinalLast,
       WriterAlive

(* The end of input is read once, and never after a shutdown. *)
LEMMA InputKept ==
  ASSUME InputEnds, UNCHANGED input, ShutdownRead' => ShutdownRead, ClosedRead' => ClosedRead
  PROVE  InputEnds'
BY DEF InputEnds

LEMMA InputAppended ==
  ASSUME TypeOK, InputEnds, UNCHANGED <<input, closing>>, NEW e \in QueuedEvents,
         e.type \notin {"request", "closed"}, events' = Append(events, e)
  PROVE  InputEnds'
<1>1. /\ DOMAIN events = 1 .. Len(events) /\ Len(events) \in Nat
      /\ DOMAIN events' = 1 .. Len(events) + 1
      /\ events'[Len(events) + 1] = e /\ \A i \in 1 .. Len(events) : events'[i] = events[i]
  BY QueueAppend DEF TypeOK, QueueTypes
<1>2. \A i \in DOMAIN events' : (i \in DOMAIN events /\ events'[i] = events[i]) \/ events'[i] = e
  BY <1>1
<1>3. (ShutdownRead' => ShutdownRead) /\ (ClosedRead' => ClosedRead)
  BY <1>2 DEF ShutdownRead, ClosedRead
<1> QED BY <1>3, InputKept

LEMMA InputStep ==
  ASSUME TypeOK, InputEnds, [Next]_vars
  PROVE  InputEnds'
<1>0. events \in Seq(QueuedEvents)
  BY DEF TypeOK, QueueTypes
<1>1. CASE UNCHANGED <<events, closing, input>>
  BY <1>1 DEF InputEnds, ShutdownRead, ClosedRead
<1>2. CASE ReadRequest
  <2>1. PICK id \in Nat, kind \in Kinds :
          /\ events' = Append(events, Event("request", id, kind))
          /\ input' = IF kind = "shutdown" THEN "done" ELSE "open"
    <3>1. sent \in Nat
      BY DEF TypeOK, QueueTypes
    <3> QED BY <1>2, <3>1 DEF ReadRequest
  <2> DEFINE e == Event("request", id, kind)
  <2>2. e \in QueuedEvents /\ e.type = "request" /\ e.kind = kind
    BY DEF Event, QueuedEvents
  <2> HIDE DEF e
  <2>3. events' = Append(events, e)
    BY <2>1 DEF e
  <2>4. /\ DOMAIN events = 1 .. Len(events) /\ Len(events) \in Nat
        /\ DOMAIN events' = 1 .. Len(events) + 1
        /\ events'[Len(events) + 1] = e /\ \A i \in 1 .. Len(events) : events'[i] = events[i]
    BY <1>0, <2>2, <2>3, QueueAppend
  <2>5. \A i \in DOMAIN events' : (i \in DOMAIN events /\ events'[i] = events[i]) \/ events'[i] = e
    BY <2>4
  <2>6. ~ShutdownRead /\ ~ClosedRead /\ UNCHANGED closing
    BY <1>2 DEF ReadRequest, InputEnds, loopVars
  <2>7. ~ClosedRead' /\ (ShutdownRead' => kind = "shutdown")
    BY <2>2, <2>5, <2>6 DEF ShutdownRead, ClosedRead
  <2> QED BY <2>1, <2>7 DEF InputEnds
<1>3. CASE ReadEnd
  <2>1. PICK type \in {"closed", "failed"} : events' = Append(events, Event(type, 0, "none"))
    BY <1>3 DEF ReadEnd
  <2> DEFINE e == Event(type, 0, "none")
  <2>2. e \in QueuedEvents /\ e.type # "request"
    BY DEF Event, QueuedEvents
  <2> HIDE DEF e
  <2>3. events' = Append(events, e)
    BY <2>1 DEF e
  <2>4. /\ DOMAIN events = 1 .. Len(events) /\ Len(events) \in Nat
        /\ DOMAIN events' = 1 .. Len(events) + 1
        /\ events'[Len(events) + 1] = e /\ \A i \in 1 .. Len(events) : events'[i] = events[i]
    BY <1>0, <2>2, <2>3, QueueAppend
  <2>5. \A i \in DOMAIN events' : (i \in DOMAIN events /\ events'[i] = events[i]) \/ events'[i] = e
    BY <2>4
  <2>6. ~ShutdownRead /\ ~ClosedRead /\ UNCHANGED closing /\ input' = "done"
    BY <1>3 DEF ReadEnd, InputEnds, loopVars
  <2>7. ~ShutdownRead'
    BY <2>2, <2>5, <2>6 DEF ShutdownRead
  <2> QED BY <2>6, <2>7 DEF InputEnds
<1>4. CASE Handler
  <2>1. PICK type : Receive(type)
    BY <1>4, HandlerFrame
  <2>2. /\ Request = events[1] /\ 1 \in DOMAIN events /\ events' \in Seq(QueuedEvents)
        /\ Len(events) \in Nat /\ Len(events') = Len(events) - 1
        /\ \A i \in 1 .. Len(events') : events'[i] = events[i + 1]
    BY <2>1, ReceiveTyped
  <2>3. \A i \in DOMAIN events' : i + 1 \in DOMAIN events /\ events'[i] = events[i + 1]
    BY <1>0, <2>2, LenProperties
  <2>4. UNCHANGED input
    BY <1>4, HandlerFrame DEF Untouched, readerVars
  <2>5. closing'.reason = "shutdown" =>
          closing.reason = "shutdown" \/ (Request.type = "request" /\ Request.kind = "shutdown")
    <3>1. CASE AnswersNow
      BY <3>1 DEF AnswersNow, Closings, Positive
    <3>2. CASE Assemble \/ CancelAssembly
      BY <3>2, AssembleCases, CancelCases
    <3>3. CASE BuildFinished \/ Fails
      BY <3>3, FinishCases DEF Fails
    <3>4. CASE EndHandler
      BY <3>4, EndCases DEF Accepts, Receive, Request
    <3> QED BY <1>4, <3>1, <3>2, <3>3, <3>4, HandlerCases DEF BuildHandler
  <2>6. (ShutdownRead' => ShutdownRead) /\ (ClosedRead' => ClosedRead)
    BY <2>2, <2>3, <2>5 DEF ShutdownRead, ClosedRead
  <2> QED BY <2>4, <2>6, InputKept
<1>5. CASE Assembly \/ Writer
  <2>1. UNCHANGED <<input, closing>>
    BY <1>5, AssemblyFrame, WriterFrame DEF readerVars, loopVars
  <2> QED BY <1>1, <1>5, <2>1, OtherEvents, InputAppended
<1>6. CASE Caller \/ Scheduler \/ OutputLost \/ GuestAdvance \/ UNCHANGED vars
  <2>1. UNCHANGED <<events, closing, input>>
    <3>1. Caller => UNCHANGED <<events, closing, input>>
      BY CallerFrame DEF readerVars, loopVars
    <3>2. Scheduler \/ OutputLost => UNCHANGED <<events, closing, input>>
      BY SchedulerFrame, OutputLostFrame DEF readerVars, Fails, Untouched
    <3> QED BY <1>6, <3>1, <3>2 DEF GuestAdvance, vars, readerVars, loopVars
  <2> QED BY <1>1, <2>1
<1> QED BY <1>2, <1>3, <1>4, <1>5, <1>6, Steps

-----------------------------------------------------------------------------
(***************************************************************************)
(* The account of a request: its replies, planned, placed in a lane or with*)
(* the writer or written, and those that are still to come.  It never      *)
(* exceeds one, and is one from acceptance on until something is lost.     *)
(***************************************************************************)
Placed(id) ==
    RepliesIn(control, id) + RepliesIn(bulk, id) + RepliesIn(wire, id)
      + Count(IsReplyTo(final, id)) + Count(IsReplyTo(writing, id))
Running(id) == Count(active.id = id /\ ~active.cancelled)
Final(id) == Count(outcome # "complete" /\ closing.id = id)
Account(id) == CallsTo(todo, id) + Placed(id) + Waiting(pending, id) + Running(id) + Final(id)

Balance ==
    \A id \in Positive :
        /\ Account(id) <= Count(id <= last)
        /\ ~failed /\ outcome # "failed" => Account(id) = Count(id <= last)

(* The lanes as sequences of messages. *)
LEMMA LanesOfMessages ==
  ASSUME TypeOK
  PROVE  /\ control \in Seq(Messages) /\ bulk \in Seq(Messages) /\ wire \in Seq(Messages)
         /\ ReplyMessages \subseteq Messages /\ SampleMessages \subseteq Messages
<1>1. ReplyMessages \subseteq Messages /\ SampleMessages \subseteq Messages
  BY DEF ReplyMessages, SampleMessages
<1>2. control \in Seq(ReplyMessages) /\ bulk \in Seq(ReplyMessages) /\ wire \in Seq(Messages)
  BY DEF TypeOK, LaneTypes, WriterTypes
<1> QED BY <1>1, <1>2, SeqMonotonic

LEMMA AccountTyped ==
  ASSUME TypeOK, NEW id \in Positive
  PROVE  /\ CallsTo(todo, id) \in Nat /\ Placed(id) \in Nat /\ Waiting(pending, id) \in Nat
         /\ Running(id) \in {0, 1} /\ Final(id) \in {0, 1}
         /\ RepliesIn(control, id) \in Nat /\ RepliesIn(bulk, id) \in Nat /\ RepliesIn(wire, id) \in Nat
         /\ Count(IsReplyTo(final, id)) \in {0, 1} /\ Count(IsReplyTo(writing, id)) \in {0, 1}
<1>1. /\ RepliesIn(control, id) \in Nat /\ RepliesIn(bulk, id) \in Nat /\ RepliesIn(wire, id) \in Nat
  BY LanesOfMessages, RepliesInTyped
<1>2. CallsTo(todo, id) \in Nat
  BY CallsToTyped DEF TypeOK, LoopTypes
<1>3. Waiting(pending, id) \in Nat
  BY WaitingAsOccurrences DEF TypeOK, BuildTypes
<1>4. Running(id) \in {0, 1} /\ Final(id) \in {0, 1}
      /\ Count(IsReplyTo(final, id)) \in {0, 1} /\ Count(IsReplyTo(writing, id)) \in {0, 1}
  BY DEF Running, Final, Count
<1> QED BY <1>1, <1>2, <1>3, <1>4 DEF Placed

LEMMA AccountTypedNext ==
  ASSUME TypeOK', NEW id \in Positive
  PROVE  Account(id)' \in Nat
<1>1. control' \in Seq(Messages) /\ bulk' \in Seq(Messages) /\ wire' \in Seq(Messages)
  <2>1. ReplyMessages \subseteq Messages
    BY DEF ReplyMessages
  <2>2. control' \in Seq(ReplyMessages) /\ bulk' \in Seq(ReplyMessages) /\ wire' \in Seq(Messages)
    BY DEF TypeOK, LaneTypes, WriterTypes
  <2> QED BY <2>1, <2>2, SeqMonotonic
<1>2. RepliesIn(control', id) \in Nat /\ RepliesIn(bulk', id) \in Nat /\ RepliesIn(wire', id) \in Nat
  BY <1>1, RepliesInTyped
<1>3. CallsTo(todo', id) \in Nat /\ Waiting(pending', id) \in Nat
  BY CallsToTyped, WaitingAsOccurrences DEF TypeOK, LoopTypes, BuildTypes
<1>4. Running(id)' \in Nat /\ Final(id)' \in Nat
      /\ Count(IsReplyTo(final', id)) \in Nat /\ Count(IsReplyTo(writing', id)) \in Nat
  BY DEF Running, Final, Count
<1>5. Placed(id)' = RepliesIn(control', id) + RepliesIn(bulk', id) + RepliesIn(wire', id)
                      + Count(IsReplyTo(final', id)) + Count(IsReplyTo(writing', id))
  BY DEF Placed, RepliesIn, Count, IsReplyTo, IsEvent
<1>6. Account(id)' = CallsTo(todo', id) + Placed(id)' + Waiting(pending', id) + Running(id)' + Final(id)'
  BY DEF Account, CallsTo, Waiting, IsReplyTo, IsEvent
<1> QED BY <1>2, <1>3, <1>4, <1>5, <1>6

LEMMA AccountKept ==
  ASSUME Balance, UNCHANGED last, failed => failed', outcome = "failed" => outcome' = "failed",
         \A id \in Positive : Account(id)' = Account(id)
  PROVE  Balance'
<1>1. ASSUME NEW id \in Positive
      PROVE  /\ Account(id)' <= Count(id <= last')
             /\ ~failed' /\ outcome' # "failed" => Account(id)' = Count(id <= last')
  BY <1>1 DEF Balance, Count
<1> QED BY <1>1 DEF Balance, Count

(* Accepting a request opens its account with one. *)
LEMMA AccountOpened ==
  ASSUME TypeOK, Balance, last' = last + 1, UNCHANGED <<failed, outcome>>,
         \A id \in Positive : Account(id)' = Account(id) + Count(id = last')
  PROVE  Balance'
<1>1. ASSUME NEW id \in Positive
      PROVE  /\ Account(id)' <= Count(id <= last')
             /\ ~failed' /\ outcome' # "failed" => Account(id)' = Count(id <= last')
  <2>1. last \in Nat /\ id \in Nat
    BY DEF TypeOK, LoopTypes, Positive
  <2>2. Account(id) \in Nat
    BY AccountTyped DEF Account
  <2>3. Count(id <= last') = Count(id <= last) + Count(id = last')
    BY <2>1 DEF Count
  <2>4. Count(id <= last) \in Nat /\ Count(id = last') \in Nat
    BY DEF Count
  <2>5. Account(id) <= Count(id <= last)
        /\ (~failed /\ outcome # "failed" => Account(id) = Count(id <= last))
    BY DEF Balance
  <2> QED BY <2>2, <2>3, <2>4, <2>5
<1> QED BY <1>1 DEF Balance, Count

(* The account while a handler runs: nothing is planned yet, and the lanes stay. *)
LEMMA HandlerAccount ==
  ASSUME TypeOK, Planned, Handler, NEW id \in Positive
  PROVE  /\ Account(id) = Placed(id) + Waiting(pending, id) + Running(id) + Final(id)
         /\ Account(id)' = CallsTo(todo', id) + Placed(id) + Waiting(pending', id) + Running(id)'
                             + Final(id)'
<1>1. todo = <<>>
  BY HandlerFrame DEF Receive, Planned
<1>2. CallsTo(todo, id) = 0
  BY <1>1, CallsToEmpty
<1>3. Placed(id)' = Placed(id)
  BY HandlerFrame DEF Untouched, Placed, RepliesIn, Count, IsReplyTo, IsEvent, writerVars
<1>4. Account(id) = Placed(id) + Waiting(pending, id) + Running(id) + Final(id)
  BY <1>2, AccountTyped DEF Account
<1>5. Account(id)' = CallsTo(todo', id) + Placed(id)' + Waiting(pending', id) + Running(id)' + Final(id)'
  BY DEF Account, CallsTo, Waiting
<1> QED BY <1>3, <1>4, <1>5

(* A request that is accepted is the next one. *)
LEMMA AcceptsNext ==
  ASSUME TypeOK, RequestsInOrder, Accepts
  PROVE  last' = last + 1 /\ Serving /\ closing.id = 0 /\ UNCHANGED <<failed, outcome>>
<1>1. Ordered(events, sent, last) /\ Serving
  BY DEF RequestsInOrder, Accepts, Receive
<1>2. events \in Seq(QueuedEvents) /\ events # <<>> /\ sent \in Nat /\ last \in Nat
  BY DEF TypeOK, QueueTypes, LoopTypes, Accepts, Receive
<1>3. Head(events).type = "request" /\ last < Head(events).id /\ last' = Head(events).id
      /\ closing.id = 0
  BY AcceptsTyped, ReceiveTyped DEF Accepts, Request, Receive
<1>4. last' = last + 1
  BY <1>1, <1>2, <1>3, OrderedTail
<1> QED BY <1>1, <1>3, <1>4 DEF Accepts, lanes

LEMMA AnswersAccount ==
  ASSUME TypeOK, Planned, RequestsInOrder, Balance, Handler, AnswersNow
  PROVE  Balance'
<1>1. last' = last + 1 /\ Serving /\ closing.id = 0 /\ UNCHANGED <<failed, outcome>>
  BY AcceptsNext DEF AnswersNow
<1>2. ASSUME NEW id \in Positive
      PROVE  Account(id)' = Account(id) + Count(id = last')
  <2>1. CallsTo(todo', id) = Count(id = last')
    BY DEF AnswersNow, Plan
  <2>2. Waiting(pending', id) = Waiting(pending, id) /\ Running(id)' = Running(id)
    BY DEF AnswersNow, buildsVars, Running, Count
  <2>3. Final(id) = 0 /\ Final(id)' = 0
    BY <1>1 DEF AnswersNow, Final, Count, Positive
  <2>4. Count(id = last') \in Nat
    BY DEF Count
  <2> QED BY <2>1, <2>2, <2>3, <2>4, HandlerAccount, AccountTyped
<1> QED BY <1>1, <1>2, AccountOpened

(* A build that is pushed owes its reply, and one that is replaced has it. *)
LEMMA AssembleAccount ==
  ASSUME TypeOK, Planned, RequestsInOrder, Balance, Assemble
  PROVE  Balance'
<1>0. Handler
  BY DEF Handler
<1>1. CASE AnswersNow
  BY <1>0, <1>1, AnswersAccount
<1>2. last' = last + 1 /\ Serving /\ closing.id = 0 /\ UNCHANGED <<failed, outcome, closing>>
      /\ last' \in Positive
  BY AcceptsNext, AssembleCases, AcceptsTyped
<1>3. pending \in Seq(Builds)
  BY DEF TypeOK, BuildTypes
<1>4. ASSUME UNCHANGED active,
             \A id \in Positive : CallsTo(todo', id) + Waiting(pending', id)
                                    = Waiting(pending, id) + Count(id = last')
      PROVE  Balance'
  <2>1. ASSUME NEW id \in Positive
        PROVE  Account(id)' = Account(id) + Count(id = last')
    <3>1. Running(id)' = Running(id)
      BY <1>4 DEF Running, Count
    <3>2. Final(id) = 0 /\ Final(id)' = 0
      BY <1>2 DEF Final, Count, Positive
    <3>3. Count(id = last') \in Nat
      BY DEF Count
    <3>4. CallsTo(todo', id) \in Nat /\ Waiting(pending', id) \in Nat
      <4>1. TypeOK'
        BY <1>0, TypesStep DEF Next, Dispatcher
      <4> QED BY <4>1, CallsToTyped, WaitingAsOccurrences DEF TypeOK, LoopTypes, BuildTypes
    <3>5. CallsTo(todo', id) + Waiting(pending', id) = Waiting(pending, id) + Count(id = last')
      BY <1>4
    <3> QED BY <1>0, <3>1, <3>2, <3>3, <3>4, <3>5, HandlerAccount, AccountTyped
  <2> QED BY <1>2, <2>1, AccountOpened
<1>5. ASSUME NEW document \in Documents, PushNew(last', document), Plan(todo', Busy, 0)
      PROVE  Balance'
  <2> DEFINE b == [id |-> last', document |-> document]
  <2>1. b \in Builds /\ b.id = last'
    BY <1>2 DEF Builds
  <2>2. pending' = Append(pending, b) /\ UNCHANGED active
    BY <1>5 DEF PushNew
  <2> HIDE DEF b
  <2>3. ASSUME NEW id \in Positive
        PROVE  CallsTo(todo', id) + Waiting(pending', id) = Waiting(pending, id) + Count(id = last')
    <3>1. CallsTo(todo', id) = 0
      BY <1>5 DEF Plan, Count, Positive
    <3>2. Waiting(pending', id) = Waiting(pending, id) + Count(b.id = id)
      BY <1>3, <2>1, <2>2, WaitingAppend
    <3>3. Count(b.id = id) = Count(id = last') /\ Count(id = last') \in Nat
      BY <2>1 DEF Count
    <3> QED BY <3>1, <3>2, <3>3, AccountTyped
  <2> QED BY <1>4, <2>2, <2>3
<1>6. ASSUME NEW document \in Documents, NEW i \in OfDocument(document),
             PushReplacing(last', document, i), Plan(todo', Busy, pending[i].id)
      PROVE  Balance'
  <2> DEFINE b == [id |-> last', document |-> document]
             rest == RemoveAt(pending, i)
  <2>1. b \in Builds /\ b.id = last'
    BY <1>2 DEF Builds
  <2>2. pending' = Append(rest, b) /\ UNCHANGED active
    BY <1>6 DEF PushReplacing
  <2>3. i \in 1 .. Len(pending)
    BY <1>3, LenProperties DEF OfDocument
  <2>4. rest \in Seq(Builds)
    BY <1>3, <2>3, RemoveAtTyped
  <2>5. \A id : Waiting(pending, id) = Waiting(rest, id) + Count(pending[i].id = id)
    BY <1>3, <2>3, WaitingRemoveAt
  <2> HIDE DEF b, rest
  <2>6. ASSUME NEW id \in Positive
        PROVE  CallsTo(todo', id) + Waiting(pending', id) = Waiting(pending, id) + Count(id = last')
    <3>1. CallsTo(todo', id) = Count(pending[i].id = id)
      BY <1>6 DEF Plan, Count
    <3>2. Waiting(pending', id) = Waiting(rest, id) + Count(b.id = id)
      BY <2>1, <2>2, <2>4, WaitingAppend
    <3>3. Count(b.id = id) = Count(id = last') /\ Count(id = last') \in Nat
      BY <2>1 DEF Count
    <3>4. Count(pending[i].id = id) \in Nat /\ Waiting(rest, id) \in Nat
      BY <2>4, WaitingAsOccurrences DEF Count
    <3> QED BY <2>5, <3>1, <3>2, <3>3, <3>4
  <2> QED BY <1>4, <2>2, <2>6
<1> QED BY <1>1, <1>5, <1>6, AssembleCases

(* A build that is cancelled has its answer planned, with that of the cancellation. *)
LEMMA CancelAccount ==
  ASSUME TypeOK, Planned, RequestsInOrder, Balance, CancelAssembly
  PROVE  Balance'
<1>0. Handler
  BY DEF Handler
<1>1. CASE AnswersNow
  BY <1>0, <1>1, AnswersAccount
<1>2. last' = last + 1 /\ Serving /\ closing.id = 0 /\ UNCHANGED <<failed, outcome, closing>>
      /\ last' \in Positive
  BY AcceptsNext, CancelCases, AcceptsTyped
<1>3. pending \in Seq(Builds) /\ active \in {NoBuild} \cup [id : Positive, cancelled : BOOLEAN]
  BY DEF TypeOK, BuildTypes
<1>4. ASSUME NEW n \in Positive, PlanTwo(todo', Busy, n, last'),
             \A id \in Positive : Waiting(pending, id) + Running(id)
                                    = Waiting(pending', id) + Running(id)' + Count(id = n),
             \A id \in Positive : Waiting(pending', id) \in Nat
      PROVE  Balance'
  <2>1. ASSUME NEW id \in Positive
        PROVE  Account(id)' = Account(id) + Count(id = last')
    <3>1. CallsTo(todo', id) = Count(id = n) + Count(id = last')
      BY <1>4 DEF PlanTwo
    <3>2. Final(id) = 0 /\ Final(id)' = 0
      BY <1>2 DEF Final, Count, Positive
    <3>3. Count(id = last') \in Nat /\ Count(id = n) \in Nat /\ Running(id)' \in Nat
      BY DEF Count, Running
    <3>4. Waiting(pending, id) + Running(id) = Waiting(pending', id) + Running(id)' + Count(id = n)
          /\ Waiting(pending', id) \in Nat
      BY <1>4
    <3> QED BY <1>0, <3>1, <3>2, <3>3, <3>4, HandlerAccount, AccountTyped
  <2> QED BY <1>2, <2>1, AccountOpened
<1>5. ASSUME NEW n \in Positive, CancelActive(n), PlanTwo(todo', Busy, n, last')
      PROVE  Balance'
  <2>1. active.id = n /\ ~active.cancelled /\ active'.id = n /\ active'.cancelled /\ UNCHANGED pending
    <3>1. active \in [id : Positive, cancelled : BOOLEAN]
      BY <1>3, <1>5 DEF CancelActive, Busy
    <3> QED BY <1>5, <3>1 DEF CancelActive
  <2>2. ASSUME NEW id \in Positive
        PROVE  /\ Waiting(pending, id) + Running(id)
                    = Waiting(pending', id) + Running(id)' + Count(id = n)
               /\ Waiting(pending', id) \in Nat
    <3>1. Running(id) = Count(id = n) /\ Running(id)' = 0 /\ Count(id = n) \in Nat
      BY <2>1 DEF Running, Count
    <3>2. Waiting(pending', id) = Waiting(pending, id) /\ Waiting(pending, id) \in Nat
      BY <2>1, AccountTyped
    <3> QED BY <3>1, <3>2
  <2> QED BY <1>4, <1>5, <2>2
<1>6. ASSUME NEW n \in Positive, NEW i \in OfRequest(n), CancelPending(n, i),
             PlanTwo(todo', Busy, n, last')
      PROVE  Balance'
  <2>1. pending' = RemoveAt(pending, i) /\ UNCHANGED active
    BY <1>6 DEF CancelPending
  <2>2. i \in 1 .. Len(pending) /\ pending[i].id = n
    BY <1>3, LenProperties DEF OfRequest
  <2>3. pending' \in Seq(Builds)
    BY <1>3, <2>1, <2>2, RemoveAtTyped
  <2>4. \A id : Waiting(pending, id) = Waiting(pending', id) + Count(pending[i].id = id)
    BY <1>3, <2>1, <2>2, WaitingRemoveAt
  <2>5. ASSUME NEW id \in Positive
        PROVE  /\ Waiting(pending, id) + Running(id)
                    = Waiting(pending', id) + Running(id)' + Count(id = n)
               /\ Waiting(pending', id) \in Nat
    <3>1. Running(id)' = Running(id)
      BY <2>1 DEF Running, Count
    <3>2. Count(pending[i].id = id) = Count(id = n) /\ Count(id = n) \in Nat
      BY <2>2 DEF Count
    <3>3. Waiting(pending', id) \in Nat
      BY <2>3, WaitingAsOccurrences
    <3> QED BY <2>4, <3>1, <3>2, <3>3, AccountTyped
  <2> QED BY <1>4, <1>6, <2>5
<1> QED BY <1>1, <1>5, <1>6, CancelCases

LEMMA FinishAccount ==
  ASSUME TypeOK, Planned, Balance, BuildFinished
  PROVE  Balance'
<1>0. Handler
  BY DEF Handler
<1>1. Busy /\ active' = NoBuild /\ UNCHANGED <<pending, last, closing, outcome, failed>>
  BY FinishCases DEF lanes
<1>2. ASSUME NEW id \in Positive
      PROVE  Account(id)' = Account(id)
  <2>1. Running(id)' = 0 /\ Final(id)' = Final(id) /\ Waiting(pending', id) = Waiting(pending, id)
    BY <1>1 DEF Running, Final, NoBuild, Count, Positive
  <2>2. CallsTo(todo', id) = Running(id)
    <3>1. CASE active.cancelled
      <4>1. todo' = <<>>
        BY <3>1, FinishCases
      <4>2. Running(id) = 0
        BY <3>1 DEF Running, Count
      <4> QED BY <4>1, <4>2, CallsToEmpty
    <3>2. CASE ~active.cancelled
      <4>1. PICK m \in ReplyMessages : todo' = <<Send(m, FALSE)>> /\ m.id = active.id
        BY <3>2, FinishCases
      <4> DEFINE c == Send(m, FALSE)
      <4>2. c \in Calls /\ (Sends(c, id) <=> active.id = id)
        BY <4>1 DEF Send, Calls, CallRecords, ReplyMessages, Sends, IsReplyTo
      <4> HIDE DEF c
      <4>3. CallsTo(<<c>>, id) = Count(Sends(c, id))
        BY <4>2, CallsToOne
      <4>4. Running(id) = Count(Sends(c, id))
        BY <3>2, <4>2 DEF Running, Count
      <4> QED BY <4>1, <4>3, <4>4 DEF c
    <3> QED BY <3>1, <3>2
  <2> QED BY <1>0, <2>1, <2>2, HandlerAccount, AccountTyped
<1> QED BY <1>1, <1>2, AccountKept

(* A shutdown owes its reply; the end of input owes none, and follows none. *)
LEMMA EndAccount ==
  ASSUME TypeOK, Planned, RequestsInOrder, InputEnds, Balance, Handler, EndHandler
  PROVE  Balance'
<1>1. UNCHANGED <<outcome, failed, active, pending>> /\ Plan(todo', Busy, 0) /\ Serving
  BY EndCases, HandlerFrame DEF lanes, buildsVars
<1>2. ASSUME NEW id \in Positive
      PROVE  /\ CallsTo(todo', id) = 0 /\ Running(id)' = Running(id)
             /\ Waiting(pending', id) = Waiting(pending, id)
  BY <1>1, <1>2 DEF Plan, Running, Count, Positive
<1>3. CASE Accepts /\ closing' = [reason |-> "shutdown", id |-> last']
  <2>1. last' = last + 1 /\ closing.id = 0 /\ closing'.id = last'
    BY <1>3, AcceptsNext
  <2>2. ASSUME NEW id \in Positive
        PROVE  Account(id)' = Account(id) + Count(id = last')
    <3>1. Final(id) = 0 /\ Final(id)' = Count(id = last')
      BY <1>1, <2>1 DEF Final, Count, Positive, Serving
    <3>2. Count(id = last') \in Nat
      BY DEF Count
    <3> QED BY <1>2, <3>1, <3>2, HandlerAccount, AccountTyped
  <2> QED BY <1>1, <2>1, <2>2, AccountOpened
<1>4. ASSUME UNCHANGED last, closing'.id = 0, closing.id = 0
      PROVE  Balance'
  <2>1. ASSUME NEW id \in Positive
        PROVE  Account(id)' = Account(id)
    <3>1. Final(id) = 0 /\ Final(id)' = 0
      BY <1>4 DEF Final, Count, Positive
    <3> QED BY <1>2, <3>1, HandlerAccount, AccountTyped
  <2> QED BY <1>1, <1>4, <2>1, AccountKept
<1>5. CASE Receive("closed") /\ closing' = [reason |-> "end", id |-> 0] /\ UNCHANGED last
  <2>1. ClosedRead
    BY <1>5, ReceiveTyped DEF ClosedRead, Receive, Request
  <2>2. closing.reason # "shutdown"
    BY <2>1 DEF InputEnds, ShutdownRead
  <2>3. closing.id = 0
    BY <2>2 DEF TypeOK, LoopTypes, Closings
  <2> QED BY <1>4, <1>5, <2>3
<1>6. CASE Receive("writable") /\ UNCHANGED <<last, closing>>
  <2>1. ASSUME NEW id \in Positive
        PROVE  Account(id)' = Account(id)
    <3>1. Final(id)' = Final(id)
      BY <1>1, <1>6 DEF Final, Count
    <3> QED BY <1>2, <3>1, HandlerAccount, AccountTyped
  <2> QED BY <1>1, <1>6, <2>1, AccountKept
<1> QED BY <1>3, <1>5, <1>6, EndCases

(* Nothing is lost by failing: no reply is owed any more. *)
LEMMA FailsAccount ==
  ASSUME Balance, Serving, Fails, Untouched
  PROVE  Balance'
<1>1. ASSUME NEW id \in Positive
      PROVE  Account(id)' = Account(id)
  <2>1. Placed(id)' = Placed(id)
    BY DEF Untouched, Placed, RepliesIn, Count, IsReplyTo, IsEvent, writerVars
  <2>2. CallsTo(todo, id)' = CallsTo(todo, id) /\ Waiting(pending, id)' = Waiting(pending, id)
    BY DEF Fails, CallsTo, Waiting, buildsVars, IsReplyTo, IsEvent
  <2>3. Running(id)' = Running(id) /\ Final(id)' = Final(id)
    BY DEF Fails, Running, Final, Count, buildsVars, Serving
  <2> QED BY <2>1, <2>2, <2>3 DEF Account
<1> QED BY <1>1, AccountKept DEF Fails, Untouched

LEMMA HandlerBalance ==
  ASSUME TypeOK, Planned, RequestsInOrder, InputEnds, Balance, Handler
  PROVE  Balance'
BY HandlerCases, AnswersAccount, AssembleAccount, CancelAccount, FinishAccount, EndAccount,
   FailsAccount, HandlerFrame DEF BuildHandler

-----------------------------------------------------------------------------
(* The account of a request while its calls are made.                      *)

LEMMA SendAccount ==
  ASSUME TypeOK, Balance, SendReply
  PROVE  Balance'
<1> DEFINE c == Head(todo)
           m == c.message
<1>1. todo # <<>> /\ c.call = "send" /\ m \in ReplyMessages /\ c \in Calls
      /\ UNCHANGED <<last, closing, outcome, failed, pending, active, wire, writing, final>>
      /\ todo' = Tail(todo)
  BY SendTyped, CallsHead, CallerFrame
     DEF SendReply, Calling, loopVars, buildsVars, writerVars, Caller
<1>2. m \in Messages /\ m.id \in Positive /\ ~IsEvent(m)
  BY <1>1 DEF ReplyMessages, Messages, Positive
<1>3. ASSUME NEW id \in Positive
      PROVE  CallsTo(todo, id) = CallsTo(todo', id) + Count(IsReplyTo(m, id))
  <2>1. CallsTo(todo, id) = CallsTo(Tail(todo), id) + Count(Sends(c, id))
    BY <1>1, CallsToTail DEF TypeOK, LoopTypes
  <2> QED BY <1>1, <2>1 DEF Sends, Count
<1> HIDE DEF c, m
<1>4. ASSUME NEW id \in Positive,
             RepliesIn(control', id) + RepliesIn(bulk', id)
               = RepliesIn(control, id) + RepliesIn(bulk, id) + Count(IsReplyTo(m, id)),
             RepliesIn(control', id) \in Nat, RepliesIn(bulk', id) \in Nat
      PROVE  Account(id)' = Account(id)
  <2>1. Placed(id)' = RepliesIn(control', id) + RepliesIn(bulk', id) + RepliesIn(wire, id)
                        + Count(IsReplyTo(final, id)) + Count(IsReplyTo(writing, id))
    BY <1>1 DEF Placed, RepliesIn, Count, IsReplyTo, IsEvent
  <2>2. Running(id)' = Running(id) /\ Final(id)' = Final(id)
        /\ Waiting(pending, id)' = Waiting(pending, id)
    BY <1>1 DEF Running, Final, Count, Waiting
  <2>3. Account(id)' = CallsTo(todo', id) + Placed(id)' + Waiting(pending, id) + Running(id) + Final(id)
    BY <2>2 DEF Account, CallsTo, IsReplyTo, IsEvent
  <2>4. CallsTo(todo', id) \in Nat
    <3>1. Tail(todo) \in Seq(Calls)
      BY <1>1, CallsHead
    <3> QED BY <1>1, <3>1, CallsToTyped
  <2>5. Count(IsReplyTo(m, id)) \in Nat
    BY DEF Count
  <2> DEFINE p == RepliesIn(control', id)
             q == RepliesIn(bulk', id)
  <2> HIDE DEF p, q
  <2>6. p + q = RepliesIn(control, id) + RepliesIn(bulk, id) + Count(IsReplyTo(m, id))
        /\ p \in Nat /\ q \in Nat
    BY <1>4 DEF p, q
  <2>7. Placed(id)' = p + q + RepliesIn(wire, id)
                        + Count(IsReplyTo(final, id)) + Count(IsReplyTo(writing, id))
    BY <2>1 DEF p, q
  <2>8. CallsTo(todo, id) = CallsTo(todo', id) + Count(IsReplyTo(m, id))
    BY <1>3
  <2>9. Placed(id)' = Placed(id) + Count(IsReplyTo(m, id))
    BY <2>5, <2>6, <2>7, AccountTyped DEF Placed
  <2> QED BY <2>3, <2>4, <2>5, <2>8, <2>9, AccountTyped DEF Account
<1>5. CASE SendBulk(m, c.reserve)
  <2>1. bulk' = Append(bulk, m) /\ UNCHANGED control
    BY <1>5 DEF SendBulk
  <2>2. ASSUME NEW id \in Positive
        PROVE  /\ RepliesIn(control', id) + RepliesIn(bulk', id)
                    = RepliesIn(control, id) + RepliesIn(bulk, id) + Count(IsReplyTo(m, id))
               /\ RepliesIn(control', id) \in Nat /\ RepliesIn(bulk', id) \in Nat
    <3>1. RepliesIn(bulk', id) = RepliesIn(bulk, id) + Count(IsReplyTo(m, id))
      BY <1>2, <2>1, LanesOfMessages, RepliesInAppend
    <3>2. RepliesIn(control', id) = RepliesIn(control, id)
      BY <2>1
    <3>3. Count(IsReplyTo(m, id)) \in Nat
      BY DEF Count
    <3> QED BY <3>1, <3>2, <3>3, AccountTyped
  <2> QED BY <1>1, <1>4, <2>2, AccountKept
<1>6. CASE SendControl(m, c.reserve)
  <2> DEFINE n == IF IsBulk(m) THEN Reply(m.id, "resource_limit") ELSE m
  <2>1. n \in Messages /\ \A id : IsReplyTo(n, id) <=> IsReplyTo(m, id)
    <3>1. Reply(m.id, "resource_limit") \in ReplyMessages
          /\ Reply(m.id, "resource_limit").id = m.id
      BY <1>2, NoMessageTyped, MessageTyped DEF Reply, MessageKinds, ReplyKinds
    <3> QED BY <1>2, <3>1 DEF IsReplyTo, ReplyMessages
  <2>2. control' = Append(control, n) /\ UNCHANGED bulk
    BY <1>6 DEF SendControl
  <2> HIDE DEF n
  <2>3. ASSUME NEW id \in Positive
        PROVE  /\ RepliesIn(control', id) + RepliesIn(bulk', id)
                    = RepliesIn(control, id) + RepliesIn(bulk, id) + Count(IsReplyTo(m, id))
               /\ RepliesIn(control', id) \in Nat /\ RepliesIn(bulk', id) \in Nat
    <3>1. RepliesIn(control', id) = RepliesIn(control, id) + Count(IsReplyTo(n, id))
      BY <2>1, <2>2, LanesOfMessages, RepliesInAppend
    <3>2. RepliesIn(bulk', id) = RepliesIn(bulk, id)
      BY <2>2
    <3>3. Count(IsReplyTo(n, id)) = Count(IsReplyTo(m, id)) /\ Count(IsReplyTo(m, id)) \in Nat
      BY <2>1 DEF Count
    <3> QED BY <3>1, <3>2, <3>3, AccountTyped
  <2> QED BY <1>1, <1>4, <2>3, AccountKept
<1> QED BY <1>5, <1>6 DEF SendReply, c, m

(* The calls that send nothing leave every account alone. *)
LEMMA SampleAccount ==
  ASSUME TypeOK, Balance, PutSample \/ RefreshSample \/ SampleDue
  PROVE  Balance'
<1>1. UNCHANGED <<last, closing, outcome, failed, pending, active, wire, writing, final, control, bulk>>
  <2>1. Caller
    BY DEF Caller
  <2>2. UNCHANGED <<control, bulk>>
    BY DEF PutSample, Observe, RefreshSample, SampleDue, lanes
  <2> QED BY <2>1, <2>2, CallerFrame DEF loopVars, buildsVars, writerVars
<1>2. ASSUME \A id \in Positive : CallsTo(todo', id) = CallsTo(todo, id)
      PROVE  Balance'
  <2>1. ASSUME NEW id \in Positive
        PROVE  Account(id)' = Account(id)
    <3>1. Placed(id)' = Placed(id)
      BY <1>1 DEF Placed, RepliesIn, Count, IsReplyTo, IsEvent
    <3>2. Running(id)' = Running(id) /\ Final(id)' = Final(id)
          /\ Waiting(pending, id)' = Waiting(pending, id)
      BY <1>1 DEF Running, Final, Count, Waiting
    <3>3. CallsTo(todo, id)' = CallsTo(todo, id)
      BY <1>2 DEF CallsTo, IsReplyTo, IsEvent
    <3> QED BY <3>1, <3>2, <3>3 DEF Account
  <2> QED BY <1>1, <2>1, AccountKept
<1>3. ASSUME todo # <<>>, Head(todo).call # "send", NEW id \in Positive
      PROVE  CallsTo(Tail(todo), id) = CallsTo(todo, id)
  <2>1. CallsTo(todo, id) = CallsTo(Tail(todo), id) + Count(Sends(Head(todo), id))
    BY <1>3, CallsToTail DEF TypeOK, LoopTypes
  <2>2. Count(Sends(Head(todo), id)) = 0
    BY <1>3 DEF Sends, Count
  <2>3. CallsTo(Tail(todo), id) \in Nat
    <3>1. Tail(todo) \in Seq(Calls)
      BY <1>3, CallsHead
    <3> QED BY <3>1, CallsToTyped
  <2> QED BY <2>1, <2>2, <2>3
<1>4. ASSUME NEW rest \in Seq(Calls), Capture(rest), subscription # NoSubscription, NEW id \in Positive
      PROVE  CallsTo(todo', id) = CallsTo(rest, id)
  <2>1. PICK sample \in SampleMessages : todo' = <<Put(sample)>> \o rest
    BY <1>4, CaptureTyped
  <2> DEFINE a == <<Put(sample)>>
  <2>2. Plan(a, FALSE, 0)
    BY PlanPut
  <2> HIDE DEF a
  <2>3. a \in Seq(Calls) /\ CallsTo(a, id) = 0
    BY <2>2, PlannedTyped DEF Plan, Count, Positive
  <2>4. CallsTo(a \o rest, id) = CallsTo(a, id) + CallsTo(rest, id) /\ CallsTo(rest, id) \in Nat
    BY <2>3, CallsToConcat, CallsToTyped
  <2> QED BY <2>1, <2>3, <2>4 DEF a
<1>5. CASE PutSample
  <2>1. todo # <<>> /\ Head(todo).call # "send" /\ todo' = Tail(todo)
    BY <1>5 DEF PutSample, Calling
  <2> QED BY <1>2, <1>3, <2>1
<1>6. CASE RefreshSample
  <2>1. todo # <<>> /\ Head(todo).call # "send"
    BY <1>6 DEF RefreshSample, Calling
  <2>2. Tail(todo) \in Seq(Calls)
    BY <2>1, CallsHead
  <2>3. CASE todo' = Tail(todo)
    BY <1>2, <1>3, <2>1, <2>3
  <2>4. CASE subscription # NoSubscription /\ Capture(Tail(todo))
    BY <1>2, <1>3, <1>4, <2>1, <2>2, <2>4
  <2> QED BY <1>6, <2>3, <2>4 DEF RefreshSample
<1>7. CASE SampleDue
  <2>1. todo = <<>> /\ Capture(<<>>) /\ subscription # NoSubscription
    BY <1>7 DEF SampleDue, NoSubscription
  <2> QED BY <1>2, <1>4, <2>1, EmptyTyped
<1> QED BY <1>5, <1>6, <1>7

LEMMA ScheduleAccount ==
  ASSUME TypeOK, Ending, Balance, Scheduler
  PROVE  Balance'
<1>1. Serving /\ UNCHANGED <<todo, last, closing, failed, control, bulk, wire, writing>>
  BY SchedulerFrame DEF writerVars
<1>2. ASSUME NEW id \in Positive
      PROVE  /\ CallsTo(todo, id)' = CallsTo(todo, id)
             /\ Placed(id)' = RepliesIn(control, id) + RepliesIn(bulk, id) + RepliesIn(wire, id)
                                + Count(IsReplyTo(final, id))' + Count(IsReplyTo(writing, id))
  BY <1>1 DEF Placed, RepliesIn, CallsTo, Count, IsReplyTo, IsEvent
<1>3. CASE StartBuild
  <2>1. ~Busy /\ pending # <<>> /\ active' = [id |-> Head(pending).id, cancelled |-> FALSE]
        /\ pending' = Tail(pending) /\ UNCHANGED <<outcome, final>>
    BY <1>3 DEF StartBuild, TakeBuild, lanes
  <2>2. ASSUME NEW id \in Positive
        PROVE  Account(id)' = Account(id)
    <3>1. Running(id) = 0 /\ Running(id)' = Count(Head(pending).id = id)
      BY <2>1 DEF Running, Busy, NoBuild, Count, Positive
    <3>2. Waiting(pending, id) = Waiting(pending', id) + Count(Head(pending).id = id)
      BY <2>1, WaitingTail DEF TypeOK, BuildTypes
    <3>3. Final(id)' = Final(id) /\ Placed(id)' = Placed(id)
      BY <1>1, <1>2, <2>1 DEF Final, Placed, Count, IsReplyTo, IsEvent
    <3>4. Waiting(pending, id)' = Waiting(pending', id)
      BY DEF Waiting
    <3>5. Waiting(pending', id) \in Nat
      <4>1. pending' \in Seq(Builds)
        BY <2>1, HeadTailProperties DEF TypeOK, BuildTypes
      <4> QED BY <4>1, WaitingAsOccurrences
    <3>6. Count(Head(pending).id = id) \in Nat
      BY DEF Count
    <3> QED BY <1>2, <3>1, <3>2, <3>3, <3>4, <3>5, <3>6, AccountTyped DEF Account
  <2> QED BY <1>1, <2>1, <2>2, AccountKept
<1>4. CASE Conclude
  <2>1. UNCHANGED <<pending, active>> /\ outcome' \in {"complete", "rejected"}
        /\ (closing.reason = "shutdown" => outcome' = "complete")
    BY <1>4 DEF Conclude, buildsVars
  <2>2. ASSUME NEW id \in Positive
        PROVE  Account(id)' = Account(id)
    <3>1. Running(id)' = Running(id) /\ Waiting(pending, id)' = Waiting(pending, id)
      BY <2>1 DEF Running, Waiting, Count
    <3>2. final = NoMessage
      BY <1>1 DEF Ending, FinalClosing, Serving
    <3>3. Count(IsReplyTo(final, id)) = 0
      BY <3>2 DEF IsReplyTo, NoMessage, Reply, Message, Count, Positive
    <3>4. Count(IsReplyTo(final, id))' + Final(id)' = Final(id)
          /\ Count(IsReplyTo(final, id))' \in {0, 1} /\ Final(id)' \in {0, 1}
      <4>1. CASE closing.reason = "shutdown"
        <5>1. final' = Reply(closing.id, "closed")
          BY <1>4, <4>1 DEF Conclude, SendFinal
        <5>2. IsReplyTo(final, id)' <=> closing.id = id
          BY <5>1 DEF IsReplyTo, Reply, Message, IsEvent, EventKinds
        <5>3. Final(id)' = 0 /\ Final(id) = Count(closing.id = id)
          BY <1>1, <2>1, <4>1 DEF Final, Count, Serving
        <5> QED BY <5>2, <5>3 DEF Count
      <4>2. CASE closing.reason # "shutdown"
        <5>1. closing.id = 0
          BY <4>2 DEF TypeOK, LoopTypes, Closings
        <5>2. final' = final
          BY <1>4, <4>2 DEF Conclude, CloseOutbox
        <5>3. Final(id)' = 0 /\ Final(id) = 0
          BY <1>1, <5>1 DEF Final, Count, Positive
        <5>4. Count(IsReplyTo(final, id))' = Count(IsReplyTo(final, id))
          BY <5>2 DEF Count, IsReplyTo, IsEvent
        <5> QED BY <3>3, <5>3, <5>4
      <4> QED BY <4>1, <4>2
    <3> QED BY <1>2, <3>1, <3>3, <3>4, AccountTyped DEF Account, Placed
  <2> QED BY <1>1, <2>1, <2>2, AccountKept DEF Serving
<1>5. CASE Continue
  <2>1. UNCHANGED <<pending, active, outcome, final>>
    BY <1>5 DEF Continue, buildsVars, lanes
  <2>2. ASSUME NEW id \in Positive
        PROVE  Account(id)' = Account(id)
    <3>1. Running(id)' = Running(id) /\ Final(id)' = Final(id) /\ Placed(id)' = Placed(id)
          /\ Waiting(pending, id)' = Waiting(pending, id)
      BY <1>1, <1>2, <2>1 DEF Running, Final, Placed, Waiting, Count, IsReplyTo, IsEvent
    <3> QED BY <1>2, <3>1 DEF Account
  <2> QED BY <1>1, <2>1, <2>2, AccountKept
<1> QED BY <1>3, <1>4, <1>5 DEF Scheduler

(* The writer moves a reply from a lane to its hands, and then to the wire. *)
LEMMA WriterKeeps ==
  ASSUME TypeOK, Balance, Writer, failed => failed',
         \A id \in Positive : Placed(id)' = Placed(id)
  PROVE  Balance'
<1>1. UNCHANGED <<todo, last, closing, outcome, pending, active>>
  BY WriterFrame DEF loopVars, buildsVars
<1>2. ASSUME NEW id \in Positive
      PROVE  Account(id)' = Account(id)
  <2>1. /\ CallsTo(todo, id)' = CallsTo(todo, id) /\ Waiting(pending, id)' = Waiting(pending, id)
        /\ Running(id)' = Running(id) /\ Final(id)' = Final(id)
    BY <1>1 DEF CallsTo, Waiting, Running, Final, Count, IsReplyTo, IsEvent
  <2> QED BY <2>1 DEF Account
<1> QED BY <1>1, <1>2, AccountKept

LEMMA NoReply == \A id \in Positive : Count(IsReplyTo(NoMessage, id)) = 0
BY DEF IsReplyTo, NoMessage, Reply, Message, Count, Positive

LEMMA TakeAccount ==
  ASSUME TypeOK, Balance, WriterReceive
  PROVE  Balance'
<1>1. writing = NoMessage /\ UNCHANGED <<wire, failed>> /\ Writer
  BY DEF WriterReceive, TypeOK, WriterTypes, ReceiveControl, ReceiveSample, ReceiveBulk,
         ReceiveFinal, Writer
<1>2. ASSUME NEW id \in Positive
      PROVE  /\ Count(IsReplyTo(writing, id)) = 0
             /\ Placed(id)' = RepliesIn(control', id) + RepliesIn(bulk', id) + RepliesIn(wire, id)
                                + Count(IsReplyTo(final', id)) + Count(IsReplyTo(writing', id))
  BY <1>1, NoReply DEF Placed, RepliesIn, Count, IsReplyTo, IsEvent
<1>3. Count(TRUE) = 1 /\ Count(FALSE) = 0
  BY DEF Count
<1>4. CASE ReceiveControl(writing')
  <2>1. ASSUME NEW id \in Positive
        PROVE  Placed(id)' = Placed(id)
    <3>1. control # <<>> /\ writing' = Head(control) /\ control' = Tail(control)
          /\ UNCHANGED <<bulk, final>>
      BY <1>4 DEF ReceiveControl
    <3>2. RepliesIn(control, id) = RepliesIn(Tail(control), id) + Count(IsReplyTo(Head(control), id))
      BY <3>1, LanesOfMessages, RepliesInTail
    <3>3. RepliesIn(Tail(control), id) \in Nat
      <4>1. Tail(control) \in Seq(Messages)
        BY <3>1, LanesOfMessages, HeadTailProperties
      <4> QED BY <4>1, RepliesInTyped
    <3>4. Count(IsReplyTo(Head(control), id)) \in Nat
      BY DEF Count
    <3>5. Placed(id)' = RepliesIn(Tail(control), id) + RepliesIn(bulk, id) + RepliesIn(wire, id)
                          + Count(IsReplyTo(final, id)) + Count(IsReplyTo(Head(control), id))
      BY <1>2, <3>1
    <3> QED BY <1>2, <3>2, <3>3, <3>4, <3>5, AccountTyped DEF Placed
  <2> QED BY <1>1, <2>1, WriterKeeps
<1>5. CASE ReceiveBulk(writing')
  <2>1. ASSUME NEW id \in Positive
        PROVE  Placed(id)' = Placed(id)
    <3>1. bulk # <<>> /\ writing' = Head(bulk) /\ bulk' = Tail(bulk)
          /\ UNCHANGED <<control, final>>
      BY <1>5 DEF ReceiveBulk
    <3>2. RepliesIn(bulk, id) = RepliesIn(Tail(bulk), id) + Count(IsReplyTo(Head(bulk), id))
      BY <3>1, LanesOfMessages, RepliesInTail
    <3>3. RepliesIn(Tail(bulk), id) \in Nat
      <4>1. Tail(bulk) \in Seq(Messages)
        BY <3>1, LanesOfMessages, HeadTailProperties
      <4> QED BY <4>1, RepliesInTyped
    <3>4. Count(IsReplyTo(Head(bulk), id)) \in Nat
      BY DEF Count
    <3>5. Placed(id)' = RepliesIn(control, id) + RepliesIn(Tail(bulk), id) + RepliesIn(wire, id)
                          + Count(IsReplyTo(final, id)) + Count(IsReplyTo(Head(bulk), id))
      BY <1>2, <3>1
    <3> QED BY <1>2, <3>2, <3>3, <3>4, <3>5, AccountTyped DEF Placed
  <2> QED BY <1>1, <2>1, WriterKeeps
<1>6. CASE ReceiveSample(writing')
  <2>1. ASSUME NEW id \in Positive
        PROVE  Placed(id)' = Placed(id)
    <3>1. writing' = observation /\ observation \in SampleMessages /\ UNCHANGED <<control, bulk, final>>
      BY <1>6 DEF ReceiveSample, TypeOK, LaneTypes
    <3>2. Count(IsReplyTo(writing', id)) = 0
      BY <3>1 DEF SampleMessages, IsReplyTo, IsEvent, EventKinds, Count
    <3>3. Placed(id)' = RepliesIn(control, id) + RepliesIn(bulk, id) + RepliesIn(wire, id)
                          + Count(IsReplyTo(final, id)) + Count(IsReplyTo(writing', id))
      BY <1>2, <3>1
    <3> QED BY <1>2, <3>2, <3>3, AccountTyped DEF Placed
  <2> QED BY <1>1, <2>1, WriterKeeps
<1>7. CASE ReceiveFinal(writing')
  <2>1. ASSUME NEW id \in Positive
        PROVE  Placed(id)' = Placed(id)
    <3>1. writing' = final /\ final' = NoMessage /\ UNCHANGED <<control, bulk>>
      BY <1>7 DEF ReceiveFinal
    <3>2. Count(IsReplyTo(final', id)) = 0 /\ Count(IsReplyTo(writing', id)) = Count(IsReplyTo(final, id))
      BY <3>1, NoReply
    <3>3. Placed(id)' = RepliesIn(control, id) + RepliesIn(bulk, id) + RepliesIn(wire, id)
                          + Count(IsReplyTo(final', id)) + Count(IsReplyTo(writing', id))
      BY <1>2, <3>1
    <3> QED BY <1>2, <3>2, <3>3, AccountTyped DEF Placed
  <2> QED BY <1>1, <2>1, WriterKeeps
<1> QED BY <1>4, <1>5, <1>6, <1>7 DEF WriterReceive

(* What is written of a message keeps its request and its kind of answer. *)
LEMMA EncodedAlike ==
  ASSUME TypeOK, WriterWrite
  PROVE  /\ writing \in ReplyMessages \cup SampleMessages /\ Encoded(writing) \in Messages
         /\ Encoded(writing).id = writing.id
         /\ IsEvent(Encoded(writing)) <=> IsEvent(writing)
<1>1. writing \in ReplyMessages \cup SampleMessages
  BY DEF WriterWrite, TypeOK, WriterTypes
<1>2. baseline.view.sequence \in Nat
  BY NoMessageTyped DEF TypeOK, WriterTypes, SampleMessages, Messages, Views
<1>3. writing \in Messages
  BY <1>1, LanesOfMessages
<1>4. CASE writing.kind # "capture"
  BY <1>1, <1>3, <1>4 DEF Encoded
<1>5. CASE writing.kind = "capture"
  <2> DEFINE m == Encoded(writing)
  <2>1. m.kind \in {"full", "delta"} /\ m.id = writing.id /\ m \in Messages
    BY <1>2, <1>3, <1>5 DEF Encoded, Messages, MessageKinds, EventKinds
  <2> QED BY <1>1, <1>5, <2>1 DEF IsEvent, EventKinds
<1> QED BY <1>4, <1>5

LEMMA WriteAccount ==
  ASSUME TypeOK, Balance, WriterWrite
  PROVE  Balance'
<1> DEFINE m == Encoded(writing)
<1>1. writing' = NoMessage /\ wire' = Append(wire, m) /\ UNCHANGED <<control, bulk, final, failed>>
      /\ Writer
  BY DEF WriterWrite, lanes, Writer
<1>2. m \in Messages /\ m.id = writing.id /\ (IsEvent(m) <=> IsEvent(writing))
  BY EncodedAlike
<1> HIDE DEF m
<1>3. ASSUME NEW id \in Positive
      PROVE  Placed(id)' = Placed(id)
  <2>1. RepliesIn(wire', id) = RepliesIn(wire, id) + Count(IsReplyTo(m, id))
    BY <1>1, <1>2, LanesOfMessages, RepliesInAppend
  <2>2. Count(IsReplyTo(m, id)) = Count(IsReplyTo(writing, id))
    BY <1>2 DEF IsReplyTo
  <2>3. Count(IsReplyTo(writing', id)) = 0
    BY <1>1, NoReply
  <2>4. Placed(id)' = RepliesIn(control, id) + RepliesIn(bulk, id) + RepliesIn(wire', id)
                        + Count(IsReplyTo(final, id)) + Count(IsReplyTo(writing', id))
    BY <1>1 DEF Placed, RepliesIn, Count, IsReplyTo, IsEvent
  <2> QED BY <2>1, <2>2, <2>3, <2>4, AccountTyped DEF Placed
<1> QED BY <1>1, <1>3, WriterKeeps

(* A failed write loses replies, and the connection. *)
LEMMA LossAccount ==
  ASSUME TypeOK, Balance, WriterFails
  PROVE  Balance'
<1>1. /\ UNCHANGED <<todo, last, closing, outcome, pending, active, wire>>
      /\ failed' = TRUE /\ control' = <<>> /\ bulk' = <<>> /\ final' = NoMessage /\ writing' = NoMessage
  BY WriterFrame DEF WriterFails, LoseOutbox, Writer, loopVars, buildsVars
<1>2. ASSUME NEW id \in Positive
      PROVE  Account(id)' <= Account(id)
  <2>1. RepliesIn(control', id) = 0 /\ RepliesIn(bulk', id) = 0
        /\ Count(IsReplyTo(final', id)) = 0 /\ Count(IsReplyTo(writing', id)) = 0
    BY <1>1, RepliesInEmpty, NoReply
  <2>2. Placed(id)' = RepliesIn(control', id) + RepliesIn(bulk', id) + RepliesIn(wire, id)
                        + Count(IsReplyTo(final', id)) + Count(IsReplyTo(writing', id))
    BY <1>1 DEF Placed, RepliesIn, Count, IsReplyTo, IsEvent
  <2>3. Placed(id)' = RepliesIn(wire, id) /\ Placed(id)' <= Placed(id)
    BY <2>1, <2>2, AccountTyped DEF Placed
  <2>4. /\ CallsTo(todo, id)' = CallsTo(todo, id) /\ Waiting(pending, id)' = Waiting(pending, id)
        /\ Running(id)' = Running(id) /\ Final(id)' = Final(id)
    BY <1>1 DEF CallsTo, Waiting, Running, Final, Count, IsReplyTo, IsEvent
  <2> QED BY <2>3, <2>4, AccountTyped DEF Account
<1>3. ASSUME NEW id \in Positive
      PROVE  Account(id)' <= Count(id <= last')
  <2>1. Account(id) \in Nat /\ Account(id)' <= Account(id) /\ Account(id) <= Count(id <= last)
        /\ Count(id <= last) \in Nat /\ last' = last
    BY <1>1, <1>2, AccountTyped DEF Account, Balance, Count
  <2>2. Account(id)' \in Int
    <3>1. TypeOK'
      BY TypesStep DEF Next, Writer
    <3> QED BY <3>1, AccountTypedNext
  <2> QED BY <2>1, <2>2
<1> QED BY <1>1, <1>3 DEF Balance, Count

LEMMA WriterBalance ==
  ASSUME TypeOK, Balance, Writer
  PROVE  Balance'
<1>1. CASE WriterAnnounce \/ WriterFinish \/ WriterReports
  <2>1. writing' = writing /\ wire' = wire /\ UNCHANGED lanes
    BY <1>1, NoMessageTyped
       DEF WriterAnnounce, WriterFinish, WriterReports, TypeOK, WriterTypes
  <2>2. ASSUME NEW id \in Positive PROVE Placed(id)' = Placed(id)
    BY <2>1 DEF Placed, RepliesIn, Count, IsReplyTo, IsEvent, lanes
  <2> QED BY <2>1, <2>2, WriterKeeps DEF lanes
<1> QED BY <1>1, TakeAccount, WriteAccount, LossAccount DEF Writer

LEMMA BalanceStep ==
  ASSUME TypeOK, Planned, RequestsInOrder, InputEnds, Ending, Balance, [Next]_vars
  PROVE  Balance'
<1>1. ASSUME UNCHANGED <<todo, last, closing, outcome, failed, pending, active, wire, writing, final,
                         control, bulk>>
      PROVE  Balance'
  <2>1. ASSUME NEW id \in Positive PROVE Account(id)' = Account(id)
    BY <1>1 DEF Account, Placed, CallsTo, Waiting, Running, Final, RepliesIn, Count, IsReplyTo, IsEvent
  <2> QED BY <1>1, <2>1, AccountKept
<1>2. CASE OutputLost
  BY <1>2, OutputLostFrame, FailsAccount
<1>3. CASE ReadRequest \/ ReadEnd \/ Assembly \/ GuestAdvance
  BY <1>1, <1>3, ReaderFrame, AssemblyFrame
     DEF GuestAdvance, loopVars, buildsVars, writerVars, lanes
<1>4. CASE UNCHANGED vars
  BY <1>1, <1>4 DEF vars, loopVars, buildsVars, writerVars, lanes
<1> QED BY <1>2, <1>3, <1>4, HandlerBalance, SendAccount, SampleAccount, ScheduleAccount,
           WriterBalance, Steps DEF Caller

LEMMA BalanceInit == Init => Balance
<1> SUFFICES ASSUME Init PROVE Balance
  OBVIOUS
<1>1. /\ todo = <<>> /\ control = <<>> /\ bulk = <<>> /\ wire = <<>> /\ pending = <<>>
      /\ final = NoMessage /\ writing = NoMessage /\ active = NoBuild /\ closing = NotClosing /\ last = 0
  BY DEF Init, OutboxInit, BuildsInit
<1>2. ASSUME NEW id \in Positive PROVE Account(id) = 0 /\ Count(id <= last) = 0
  <2>1. CallsTo(todo, id) = 0 /\ RepliesIn(control, id) = 0 /\ RepliesIn(bulk, id) = 0
        /\ RepliesIn(wire, id) = 0
    BY <1>1, CallsToEmpty, RepliesInEmpty
  <2>2. Count(IsReplyTo(final, id)) = 0 /\ Count(IsReplyTo(writing, id)) = 0
    BY <1>1, NoReply
  <2>3. Running(id) = 0 /\ Final(id) = 0 /\ Count(id <= last) = 0
    BY <1>1 DEF Running, Final, NoBuild, NotClosing, Count, Positive
  <2>4. Waiting(pending, id) = 0
    <3>1. {i \in DOMAIN pending : pending[i].id = id} = {}
      BY <1>1
    <3> QED BY <3>1, FS_EmptySet DEF Waiting
  <2> QED BY <2>1, <2>2, <2>3, <2>4 DEF Account, Placed
<1> QED BY <1>2 DEF Balance

LEMMA QueueInit == Init => RequestsInOrder /\ InputEnds
BY DEF Init, RequestsInOrder, Ordered, InputEnds, ShutdownRead, ClosedRead, NotClosing

(* The inductive invariant of the replies. *)
Accounted == Held /\ RequestsInOrder /\ InputEnds /\ Ending /\ Balance

LEMMA AccountedAlways == Spec => []Accounted
<1>1. Init => Accounted
  BY HeldInit, QueueInit, EndingInit, BalanceInit DEF Accounted
<1>2. Accounted /\ [Next]_vars => Accounted'
  BY HeldStep, RequestsStep, InputStep, EndingStep, BalanceStep DEF Accounted, Held
<1> QED BY <1>1, <1>2, PTL DEF Spec

(***************************************************************************)
(* Every accepted request has exactly one reply, written, on its way or    *)
(* owed, until the connection breaks, and a request not accepted has none: *)
(* however builds are superseded, cancelled, finished and shut down, and   *)
(* whatever the lanes hold (outbox.rs:65, docs/protocol.md).               *)
(***************************************************************************)
THEOREM EveryRequestOnce == Spec => []ExactlyOneReply
<1>1. Accounted => ExactlyOneReply
  <2> SUFFICES ASSUME Accounted, ~failed, outcome # "failed", NEW id \in Ids
               PROVE  RepliesTo(id) + Owed(id) = Count(id <= last)
    BY DEF ExactlyOneReply
  <2>1. id \in Positive /\ TypeOK
    BY DispatchAssumption DEF Ids, Positive, Accounted, Held
  <2>2. Account(id) = Count(id <= last)
    BY <2>1 DEF Accounted, Balance
  <2>3. Final(id) = Count(Serving /\ closing.id = id)
    BY <2>1 DEF Final, Count, Serving, Accounted, Ending, LeftNothing, TypeOK, LoopTypes, Positive
  <2>4. RepliesTo(id) = CallsTo(todo, id) + Placed(id)
    BY <2>1, AccountTyped DEF RepliesTo, Placed
  <2>5. Owed(id) = Waiting(pending, id) + Running(id) + Final(id)
    BY <2>1, <2>3 DEF Owed, Waiting, Running, OfRequest
  <2> QED BY <2>1, <2>2, <2>4, <2>5, AccountTyped DEF Account
<1> QED BY <1>1, AccountedAlways, PTL

-----------------------------------------------------------------------------
(***************************************************************************)
(* The worker implements the abstract service: it accepts requests in order*)
(* of their ids, answers each at most once, and the shutdown last.         *)
(***************************************************************************)
WireIds == \A i \in DOMAIN wire : wire[i].id # 0

LEMMA WireAppend ==
  ASSUME TypeOK, WriterWrite
  PROVE  /\ DOMAIN wire' = 1 .. Len(wire) + 1 /\ DOMAIN wire = 1 .. Len(wire) /\ Len(wire) \in Nat
         /\ wire'[Len(wire) + 1] = Encoded(writing)
         /\ \A i \in 1 .. Len(wire) : wire'[i] = wire[i]
<1> DEFINE m == Encoded(writing)
<1>1. m \in Messages /\ wire' = Append(wire, m) /\ wire \in Seq(Messages)
  BY EncodedAlike, LanesOfMessages DEF WriterWrite
<1> HIDE DEF m
<1>2. /\ DOMAIN wire' = 1 .. Len(wire) + 1 /\ DOMAIN wire = 1 .. Len(wire) /\ Len(wire) \in Nat
      /\ wire'[Len(wire) + 1] = m /\ \A i \in 1 .. Len(wire) : wire'[i] = wire[i]
  BY <1>1, AppendProperties, LenProperties
<1> QED BY <1>2 DEF m

LEMMA WireFrame ==
  ASSUME [Next]_vars, ~WriterWrite
  PROVE  UNCHANGED wire
<1>1. Writer => UNCHANGED wire
  BY DEF Writer, WriterReceive, WriterAnnounce, WriterFinish, WriterFails, WriterReports
<1>2. Handler \/ Caller \/ Scheduler \/ OutputLost => UNCHANGED wire
  BY HandlerFrame, CallerFrame, SchedulerFrame, OutputLostFrame DEF Untouched, writerVars
<1>3. ReadRequest \/ ReadEnd \/ Assembly \/ GuestAdvance \/ UNCHANGED vars => UNCHANGED wire
  BY ReaderFrame, AssemblyFrame DEF GuestAdvance, vars, writerVars
<1> QED BY <1>1, <1>2, <1>3, Steps

LEMMA WireStep ==
  ASSUME TypeOK, WireIds, [Next]_vars
  PROVE  WireIds'
<1>1. CASE WriterWrite
  <2>1. Encoded(writing).id # 0
    BY <1>1, EncodedAlike DEF ReplyMessages, SampleMessages
  <2>2. \A i \in DOMAIN wire' : (i \in DOMAIN wire /\ wire'[i] = wire[i]) \/ wire'[i] = Encoded(writing)
    BY <1>1, WireAppend
  <2> QED BY <2>1, <2>2 DEF WireIds
<1>2. CASE ~WriterWrite
  BY <1>2, WireFrame DEF WireIds
<1> QED BY <1>1, <1>2

LEMMA AnsweredCounted ==
  ASSUME TypeOK, WireIds
  PROVE  /\ Answered \subseteq Positive
         /\ \A id \in Positive : id \in Answered <=> RepliesIn(wire, id) # 0
<1>1. wire \in Seq(Messages) /\ \A i \in DOMAIN wire : wire[i] \in Messages
  BY LanesOfMessages, LenProperties, ElementOfSeq
<1>2. Answered \subseteq Positive
  BY <1>1 DEF Answered, WireIds, Messages, Positive
<1>3. ASSUME NEW id \in Positive
      PROVE  id \in Answered <=> RepliesIn(wire, id) # 0
  <2> DEFINE P == {i \in DOMAIN wire : IsReplyTo(wire[i], id)}
  <2>1. P \in SUBSET (1 .. Len(wire)) /\ Len(wire) \in Nat
    BY <1>1, LenProperties
  <2>2. IsFiniteSet(P)
    BY <2>1, PositionsFinite
  <2>3. P # {} <=> RepliesIn(wire, id) # 0
    BY <2>2, FS_EmptySet DEF RepliesIn
  <2>4. P # {} <=> id \in Answered
    BY DEF Answered, IsReplyTo
  <2> QED BY <2>3, <2>4
<1> QED BY <1>2, <1>3

(* What the writer has in hand as it writes a reply. *)
LEMMA WritesOnce ==
  ASSUME Accounted, WireIds, WriterWrite, ~IsEvent(writing)
  PROVE  /\ writing.id \in 1 .. last /\ writing.id \notin Answered
         /\ writing.id = closing.id => Answered = 1 .. last \ {writing.id}
<1> DEFINE id == writing.id
<1>0. TypeOK /\ Balance /\ Ending /\ last \in Nat
  BY DEF Accounted, Held, TypeOK, LoopTypes
<1>1. id \in Positive /\ writer = "write"
  BY <1>0, EncodedAlike DEF ReplyMessages, SampleMessages, Messages, Positive, WriterWrite
<1>2. Count(IsReplyTo(writing, id)) = 1
  BY DEF IsReplyTo, Count
<1> HIDE DEF id
<1>3. Account(id) <= Count(id <= last)
  BY <1>0, <1>1 DEF Balance
<1>4. id <= last /\ RepliesIn(wire, id) = 0 /\ Final(id) = 0 /\ Count(IsReplyTo(final, id)) = 0
  <2>1. Count(id <= last) \in {0, 1}
    BY DEF Count
  <2>2. Count(id <= last) = 1 /\ RepliesIn(wire, id) = 0 /\ Final(id) = 0
        /\ Count(IsReplyTo(final, id)) = 0
    BY <1>0, <1>1, <1>2, <1>3, <2>1, AccountTyped DEF Account, Placed
  <2> QED BY <2>2 DEF Count
<1>5. id \in 1 .. last /\ id \notin Answered
  BY <1>0, <1>1, <1>4, AnsweredCounted DEF Positive
<1>6. ASSUME id = closing.id
      PROVE  Answered = 1 .. last \ {id}
  <2>1. outcome = "complete" /\ closing.reason = "shutdown"
    BY <1>0, <1>1, <1>4, <1>6 DEF Final, Count, TypeOK, LoopTypes, Closings, Positive
  <2>2. ~failed /\ final = NoMessage
    <3>1. ~failed
      BY <1>0, <1>1 DEF Ending, WriterAlive
    <3>2. final # NoMessage => IsReplyTo(final, id)
      BY <1>0, <1>6 DEF Ending, FinalClosing, IsReplyTo, TypeOK, LaneTypes, ReplyMessages
    <3> QED BY <1>4, <3>1, <3>2 DEF Count
  <2>3. control = <<>> /\ bulk = <<>> /\ todo = <<>> /\ pending = <<>> /\ active = NoBuild
    BY <1>0, <2>1, <2>2 DEF Ending, FinalLast, LeftNothing, Idle, Busy
  <2>4. ASSUME NEW n \in 1 .. last, n # id
        PROVE  n \in Answered
    <3>1. n \in Positive
      BY <2>4 DEF Positive
    <3>2. Account(n) = 1
      BY <1>0, <2>1, <2>2, <2>4, <3>1 DEF Balance, Count
    <3>3. CallsTo(todo, n) = 0 /\ RepliesIn(control, n) = 0 /\ RepliesIn(bulk, n) = 0
      BY <2>3, CallsToEmpty, RepliesInEmpty
    <3>4. Count(IsReplyTo(final, n)) = 0 /\ Count(IsReplyTo(writing, n)) = 0
      BY <2>2, <2>4, <3>1, NoReply DEF id, IsReplyTo, Count
    <3>5. Running(n) = 0 /\ Final(n) = 0
      BY <2>1, <2>3, <3>1 DEF Running, Final, NoBuild, Count, Positive
    <3>6. Waiting(pending, n) = 0
      <4>1. {i \in DOMAIN pending : pending[i].id = n} = {}
        BY <2>3
      <4> QED BY <4>1, FS_EmptySet DEF Waiting
    <3>7. RepliesIn(wire, n) = 1
      BY <1>0, <3>1, <3>2, <3>3, <3>4, <3>5, <3>6, AccountTyped DEF Account, Placed
    <3> QED BY <1>0, <3>1, <3>7, AnsweredCounted
  <2>5. ASSUME NEW n \in Answered
        PROVE  n \in 1 .. last
    <3>1. n \in Positive /\ RepliesIn(wire, n) # 0
      BY <1>0, <2>5, AnsweredCounted
    <3>2. Account(n) <= Count(n <= last) /\ Count(n <= last) \in {0, 1}
      BY <1>0, <3>1 DEF Balance, Count
    <3>3. Count(n <= last) = 1
      BY <1>0, <3>1, <3>2, AccountTyped DEF Account, Placed
    <3> QED BY <1>0, <3>1, <3>3 DEF Count, Positive
  <2> QED BY <1>5, <2>4, <2>5
<1> QED BY <1>5, <1>6 DEF id

LEMMA WriteAnswers ==
  ASSUME TypeOK, WriterWrite
  PROVE  Answered' = Answered \cup (IF IsEvent(writing) THEN {} ELSE {writing.id})
<1> DEFINE N == Len(wire) + 1
<1>1. /\ DOMAIN wire' = 1 .. N /\ DOMAIN wire = 1 .. Len(wire) /\ Len(wire) \in Nat
      /\ wire'[N].id = writing.id /\ (IsEvent(wire'[N]) <=> IsEvent(writing))
      /\ \A i \in 1 .. Len(wire) : wire'[i] = wire[i]
  BY WireAppend, EncodedAlike
<1>2. Answered' = {wire'[i].id : i \in {j \in DOMAIN wire' : ~IsEvent(wire'[j])}}
  BY DEF Answered, IsEvent
<1>3. \A i \in DOMAIN wire' : i = N \/ (i \in DOMAIN wire /\ wire'[i] = wire[i])
  BY <1>1
<1>4. \A i \in DOMAIN wire : i \in DOMAIN wire' /\ wire'[i] = wire[i]
  BY <1>1
<1>5. N \in DOMAIN wire'
  BY <1>1
<1> HIDE DEF N
<1>6. CASE IsEvent(writing)
  BY <1>1, <1>2, <1>3, <1>4, <1>6 DEF Answered
<1>7. CASE ~IsEvent(writing)
  BY <1>1, <1>2, <1>3, <1>4, <1>5, <1>7 DEF Answered
<1> QED BY <1>6, <1>7

LEMMA ServiceStep ==
  ASSUME Accounted, WireIds, [Next]_vars
  PROVE  [Abstract!ServiceNext]_(Abstract!serviceVars)
<1> USE DEF Abstract!ServiceNext, Abstract!serviceVars
<1>0. TypeOK /\ RequestsInOrder /\ InputEnds
  BY DEF Accounted, Held
<1>1. UNCHANGED wire => UNCHANGED Answered
  BY DEF Answered, IsEvent
<1>2. CASE UNCHANGED <<last, wire>> /\ closing'.id = closing.id
  BY <1>1, <1>2
<1>3. CASE WriterWrite
  <2>1. UNCHANGED <<last, closing>>
    BY <1>3, WriterFrame DEF Writer, loopVars
  <2>2. CASE IsEvent(writing)
    BY <1>0, <1>3, <2>1, <2>2, WriteAnswers
  <2>3. CASE ~IsEvent(writing)
    <3>1. Answered' = Answered \cup {writing.id}
      BY <1>0, <1>3, <2>3, WriteAnswers
    <3>2. Abstract!AnswerTo(writing.id) /\ writing.id \in 1 .. last
      BY <1>3, <2>1, <2>3, <3>1, WritesOnce DEF Abstract!AnswerTo
    <3> QED BY <3>2
  <2> QED BY <2>2, <2>3
<1>4. CASE Handler
  <2>0. UNCHANGED wire
    BY <1>4, HandlerFrame DEF Untouched, writerVars
  <2>1. ASSUME Accepts, closing'.id \in {0, last'}
        PROVE  Abstract!Accept
    BY <1>0, <1>1, <2>0, <2>1, AcceptsNext DEF Abstract!Accept
  <2>2. CASE AnswersNow
    BY <2>1, <2>2 DEF AnswersNow
  <2>3. CASE Assemble \/ CancelAssembly
    <3>1. Accepts /\ UNCHANGED closing
      BY <1>0, <2>3, AssembleCases, CancelCases
    <3>2. closing'.id = 0
      BY <1>0, <3>1, AcceptsNext
    <3> QED BY <2>1, <3>1, <3>2
  <2>4. CASE BuildFinished \/ Fails
    BY <1>0, <1>2, <2>0, <2>4, FinishCases DEF Fails
  <2>5. CASE EndHandler
    <3>1. CASE Accepts /\ closing' = [reason |-> "shutdown", id |-> last']
      BY <2>1, <3>1
    <3>2. CASE Receive("closed") /\ closing' = [reason |-> "end", id |-> 0] /\ UNCHANGED last
      <4>1. ClosedRead
        BY <1>0, <3>2, ReceiveTyped DEF ClosedRead, Receive, Request
      <4>2. closing.reason # "shutdown"
        BY <1>0, <4>1 DEF InputEnds, ShutdownRead
      <4>3. closing.id = 0
        BY <1>0, <4>2 DEF TypeOK, LoopTypes, Closings
      <4> QED BY <1>2, <2>0, <3>2, <4>3
    <3>3. CASE UNCHANGED <<last, closing>>
      BY <1>2, <2>0, <3>3
    <3> QED BY <1>0, <2>5, <3>1, <3>2, <3>3, EndCases
  <2> QED BY <1>0, <1>4, <2>2, <2>3, <2>4, <2>5, HandlerCases DEF BuildHandler
<1>5. CASE ~Handler /\ ~WriterWrite
  <2>1. UNCHANGED <<last, closing>>
    BY <1>5, Steps, CallerFrame, SchedulerFrame, OutputLostFrame, ReaderFrame, AssemblyFrame,
       WriterFrame DEF Fails, GuestAdvance, vars, loopVars
  <2> QED BY <1>2, <1>5, <2>1, WireFrame
<1> QED BY <1>3, <1>4, <1>5

(***************************************************************************)
(* The worker implements Service, whatever its lanes, queues and threads   *)
(* do: the theorem of which ExactlyOneReply is the state part, extended to *)
(* the order of what is written ("the closing reply follows every other",  *)
(* outbox.rs, docs/protocol.md).                                           *)
(***************************************************************************)
THEOREM WorkerImplementsService == Spec => ImplementsService
<1>1. Init => Abstract!ServiceInit
  <2>1. Init => Answered = {}
    BY DEF Init, Answered
  <2> QED BY <2>1 DEF Init, NotClosing, Abstract!ServiceInit
<1>2. Init => WireIds
  BY DEF Init, WireIds
<1>3. Accounted /\ WireIds /\ [Next]_vars => WireIds'
  BY WireStep DEF Accounted, Held
<1>4. Accounted /\ WireIds /\ [Next]_vars => [Abstract!ServiceNext]_(Abstract!serviceVars)
  BY ServiceStep
<1> QED BY <1>1, <1>2, <1>3, <1>4, AccountedAlways, PTL DEF Spec, ImplementsService, Abstract!ServiceSpec
-----------------------------------------------------------------------------
(***************************************************************************)
(* The subscription and the session.  The invariant is inductive: a        *)
(* command that moves the key answers with the new one, or names the       *)
(* session it closed, and the dispatcher compares that with the            *)
(* subscription before it takes another event (dispatch.rs:250-253).       *)
(***************************************************************************)
(* An answer that carries the key in force ends the subscription, unless   *)
(* the subscription has that key.                                          *)
LEMMA ObservedFollows ==
  ASSUME NEW id, NEW view, NEW refresh, Performed(Message(id, "observed", view), refresh),
         view.key = Key'
  PROVE  subscription' # NoSubscription => subscription'.key = Key'
BY DEF Performed, Ends, Message

LEMMA ErrorFollows ==
  ASSUME NEW id, NEW kind \in {"error", "decoded", "trace"}, NEW refresh,
         Performed(Reply(id, kind), refresh)
  PROVE  UNCHANGED subscription
BY DEF Performed, Ends, Reply, Message

LEMMA HandlerFollows ==
  ASSUME TypeOK, SubscriptionFollowsSession, Handler, Serving', ~ReadsFail
  PROVE  subscription' # NoSubscription => subscription'.key = Key'
<1>0. Serving /\ (subscription # NoSubscription => subscription.key = Key)
  BY HandlerFrame DEF SubscriptionFollowsSession
<1>1. CASE UNCHANGED <<subscription, ownerVars>>
  BY <1>0, <1>1 DEF ownerVars, Key
<1>2. CASE RefuseRequest \/ Handshake \/ Assemble \/ CancelAssembly \/ BuildFinished \/ Writable
           \/ ThreadFailed
  BY <1>1, <1>2 DEF RefuseRequest, Handshake, Assemble, CancelAssembly, BuildFinished, Writable,
                    ThreadFailed
<1>3. CASE Subscribe
  <2>1. ASSUME NEW memory, Observed("observe", memory),
               subscription' = [id |-> Request.id, key |-> Key, memory |-> memory,
                                running |-> status = "running"]
        PROVE  subscription'.key = Key'
    <3>1. Key' = Key
      BY <2>1 DEF Observed, Apply, Key
    <3> QED BY <2>1, <3>1
  <2> QED BY <1>1, <1>3, <2>1 DEF Subscribe
<1>4. CASE Unsubscribe
  BY <1>1, <1>4 DEF Unsubscribe
<1>5. CASE LoadImage
  <2>1. View(FALSE)'.key = Key'
    BY DEF View
  <2> QED BY <1>1, <1>5, <2>1, ObservedFollows, ErrorFollows DEF LoadImage
<1>6. CASE Execute
  <2>1. PICK command \in Controls \cup {"observe"} :
          \/ \E memory \in BOOLEAN : Performed(Message(Request.id, "observed", View(memory)'),
                                                 command # "observe")
          \/ /\ UNCHANGED ownerVars \/ Unobserved(command)
             /\ Performed(Reply(Request.id, "error"), command # "observe")
    BY <1>6 DEF Execute
  <2>2. ASSUME NEW memory \in BOOLEAN,
               Performed(Message(Request.id, "observed", View(memory)'), command # "observe")
        PROVE  subscription' # NoSubscription => subscription'.key = Key'
    <3>1. View(memory)'.key = Key'
      BY DEF View
    <3> QED BY <2>2, <3>1, ObservedFollows
  <2>3. ASSUME UNCHANGED ownerVars \/ Unobserved(command),
               Performed(Reply(Request.id, "error"), command # "observe")
        PROVE  subscription' # NoSubscription => subscription'.key = Key'
    BY <1>1, <2>3, ErrorFollows DEF Unobserved
  <2> QED BY <2>1, <2>2, <2>3
<1>7. CASE CloseSession
  <2>1. ASSUME Performed(Message(Request.id, "session_closed", [NoView EXCEPT !.key = Key]), TRUE)
        PROVE  subscription' = NoSubscription
    <3>1. [NoView EXCEPT !.key = Key].key = Key
      BY DEF NoView
    <3> QED BY <1>0, <2>1, <3>1 DEF Performed, Ends, Message
  <2> QED BY <1>1, <1>7, <2>1, ErrorFollows DEF CloseSession
<1>8. CASE Inspect
  <2>1. PICK kind \in {"hello", "decode", "read_trace"}, answer \in {"error", "decoded", "trace"} :
          Performed(Reply(Request.id, answer), FALSE)
    BY <1>8 DEF Inspect
  <2> QED BY <1>1, <1>8, <2>1, ErrorFollows DEF Inspect
<1>9. CASE Shutdown \/ InputClosed
  BY <1>9 DEF Shutdown, InputClosed
<1> QED BY <1>2, <1>3, <1>4, <1>5, <1>6, <1>7, <1>8, <1>9 DEF Handler

LEMMA FollowsStep ==
  ASSUME TypeOK, SubscriptionFollowsSession, [Next]_vars
  PROVE  SubscriptionFollowsSession'
<1> SUFFICES ASSUME Serving', ~ReadsFail
             PROVE  subscription' # NoSubscription => subscription'.key = Key'
  BY DEF SubscriptionFollowsSession
<1>1. ASSUME Serving, UNCHANGED <<subscription, session, generation>>
      PROVE  subscription' # NoSubscription => subscription'.key = Key'
  BY <1>1 DEF SubscriptionFollowsSession, Key
<1>2. CASE Handler
  BY <1>2, HandlerFollows
<1>3. CASE SendReply \/ PutSample
  BY <1>1, <1>3 DEF SendReply, PutSample, Calling, ownerVars
<1>4. ASSUME Serving, subscription # NoSubscription, NEW rest, Capture(rest)
      PROVE  subscription' # NoSubscription => subscription'.key = Key'
  <2>1. CASE subscription' = NoSubscription
    BY <2>1
  <2>2. CASE /\ subscription.key = Key /\ Observed("observe", subscription.memory)
             /\ subscription' = [subscription EXCEPT !.running = status = "running"]
    <3>1. Key' = Key
      BY <2>2 DEF Observed, Apply, Key
    <3>2. subscription \in [id : Positive, key : Keys, memory : BOOLEAN, running : BOOLEAN]
      BY <1>4 DEF TypeOK, LoopTypes, Subscriptions
    <3>3. subscription'.key = subscription.key
      BY <2>2, <3>2
    <3> QED BY <2>2, <3>1, <3>3
  <2> QED BY <1>4, <2>1, <2>2 DEF Capture
<1>5. CASE RefreshSample
  BY <1>1, <1>4, <1>5 DEF RefreshSample, Calling, ownerVars
<1>6. CASE SampleDue
  BY <1>4, <1>6 DEF SampleDue, NoSubscription
<1>7. CASE Scheduler
  BY <1>1, <1>7, SchedulerFrame DEF ownerVars
<1>8. CASE OutputLost
  BY <1>1, <1>8, OutputLostFrame DEF Fails, ownerVars
<1>9. CASE ReadRequest \/ ReadEnd \/ Assembly
  BY <1>1, <1>9, ReaderFrame, AssemblyFrame DEF ownerVars
<1>10. CASE GuestAdvance
  BY <1>1, <1>10 DEF GuestAdvance, Advance
<1>11. CASE Writer
  BY <1>1, <1>11, WriterFrame DEF ownerVars, loopVars, Serving
<1>12. CASE UNCHANGED vars
  BY <1>1, <1>12 DEF vars, ownerVars, loopVars, Serving
<1> QED BY <1>2, <1>3, <1>5, <1>6, <1>7, <1>8, <1>9, <1>10, <1>11, <1>12, Steps DEF Caller

(***************************************************************************)
(* No subscription outlives its session: whatever reset, load, close or    *)
(* shutdown took effect, the subscription that was for the earlier key has *)
(* ended (dispatch.rs:250-253, :264, :288).                                *)
(***************************************************************************)
THEOREM SubscriptionFollows == Spec => []SubscriptionFollowsSession
<1>1. Init => SubscriptionFollowsSession
  BY DEF Init, SubscriptionFollowsSession
<1>2. TypeOK /\ SubscriptionFollowsSession /\ [Next]_vars => SubscriptionFollowsSession'
  BY FollowsStep
<1>3. Held => TypeOK
  BY DEF Held
<1> QED BY <1>1, <1>2, <1>3, HeldAlways, PTL DEF Spec
=============================================================================
