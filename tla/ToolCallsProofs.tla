-------------------------- MODULE ToolCallsProofs --------------------------
(* Proofs about ToolCalls, for every set of programs and every bound.       *)
EXTENDS ToolCalls, FiniteSetTheorems, TLAPS

(***************************************************************************)
(* The invariant of the transcript.  That results follow their calls is     *)
(* not inductive: the last checkpoint must hold a transcript that is as     *)
(* good when it comes back, and the calls that wait for their results must  *)
(* be in the transcript, once each, without a result.                      *)
(***************************************************************************)
Part == {Text} \cup {Calling(id) : id \in 1..MaxCalls}
Entry == [role : {"user", "assistant", "toolResult"}, content : Seq(Part),
          call : 0..MaxCalls, stop : {"none", "stop", "error", "toolUse"}]

CallsIn(ms) ==
    {id \in 1..MaxCalls : \E i \in DOMAIN ms : Contains(ms[i].content, Calling(id))}
IsResult(ms, i, id) == ms[i].role = "toolResult" /\ ms[i].call = id

Answered(ms) ==
    \A i \in DOMAIN ms : ms[i].role = "toolResult" =>
        /\ \E j \in 1..(i - 1) : Contains(ms[j].content, Calling(ms[i].call))
        /\ \A j \in DOMAIN ms : IsResult(ms, j, ms[i].call) => j = i

\* Ids go on from one reply to the next.
Numbered(ms) == \E n \in 0..MaxCalls : CallsIn(ms) = 1..n
Transcript(ms) == ms \in Seq(Entry) /\ Answered(ms) /\ Numbered(ms)

\* A call that waits for its result.
Open(ms, id) == id \in CallsIn(ms) /\ \A i \in DOMAIN ms : ~IsResult(ms, i, id)

\* The calls under way: there is one at most.
UnderWay == {c \in Ids : left[c] # None} \cup ({child.call} \ {0})

Child == [call : 0..MaxCalls, state : {"none", "running", "held", "closed"},
          stubborn : BOOLEAN, escaped : BOOLEAN, killing : BOOLEAN]
CallsInv ==
    /\ left \in [Ids -> {None} \cup Seq(Operation)]
    /\ child \in Child
    /\ child.call # 0 => \A c \in Ids : left[c] = None
    /\ \A c, d \in Ids : left[c] # None /\ left[d] # None => c = d

TranscriptInv ==
    /\ Transcript(messages)
    /\ saved # None => Transcript(Each(FromCheckpoint, saved))
    /\ todo \in Seq(1..MaxCalls)
    /\ \A i \in DOMAIN todo : Open(messages, todo[i])
    /\ \A i, j \in DOMAIN todo : todo[i] = todo[j] => i = j
    /\ \A c \in UnderWay : Open(messages, c) /\ \A i \in DOMAIN todo : todo[i] # c

\* Another message may add calls, and takes none away.
LEMMA CallsOfAppend ==
    ASSUME NEW ms \in Seq(Entry), NEW m \in Entry
    PROVE  CallsIn(Append(ms, m)) =
               CallsIn(ms) \cup {id \in 1..MaxCalls : Contains(m.content, Calling(id))}
<1> DEFINE ns == Append(ms, m)
<1>1. /\ Len(ns) = Len(ms) + 1 /\ ns[Len(ms) + 1] = m /\ Len(ms) \in Nat
      /\ DOMAIN ns = 1..(Len(ms) + 1) /\ DOMAIN ms = 1..Len(ms)
      /\ \A i \in 1..Len(ms) : ns[i] = ms[i]
  OBVIOUS
<1> HIDE DEF ns
<1>2. ASSUME NEW id \in 1..MaxCalls
      PROVE  (\E i \in DOMAIN ns : Contains(ns[i].content, Calling(id))) <=>
             (\/ \E i \in DOMAIN ms : Contains(ms[i].content, Calling(id))
              \/ Contains(m.content, Calling(id)))
  <2> DEFINE has(c) == Contains(c, Calling(id))
  <2>1. has(m.content) => \E i \in DOMAIN ns : has(ns[i].content)
    <3> HIDE DEF has
    <3> QED BY <1>1
  <2>2. (\E i \in DOMAIN ms : has(ms[i].content)) => \E i \in DOMAIN ns : has(ns[i].content)
    <3> HIDE DEF has
    <3> QED BY <1>1
  <2>3. ASSUME NEW i \in DOMAIN ns, has(ns[i].content)
        PROVE  (\E k \in DOMAIN ms : has(ms[k].content)) \/ has(m.content)
    <3> HIDE DEF has
    <3>1. CASE i \in 1..Len(ms)
      BY <3>1, <2>3, <1>1
    <3>2. CASE i = Len(ms) + 1
      BY <3>2, <2>3, <1>1
    <3> QED
      BY <3>1, <3>2, <1>1
  <2> QED
    BY <2>1, <2>2, <2>3
<1> QED
  BY <1>2 DEF CallsIn, ns

\* What a transcript's message holds of calls has an id of the transcript.
LEMMA CalledIsIn ==
    ASSUME NEW ms \in Seq(Entry), NEW i \in DOMAIN ms, NEW id,
           Contains(ms[i].content, Calling(id))
    PROVE  id \in CallsIn(ms)
<1>1. ms[i].content \in Seq(Part)
  <2>1. ms[i] \in Entry
    OBVIOUS
  <2> QED
    BY <2>1 DEF Entry
<1>2. PICK k \in 1..Len(ms[i].content) : ms[i].content[k] = Calling(id)
  BY DEF Contains
<1>3. Calling(id) \in Part
  BY <1>1, <1>2
<1>4. PICK n \in 1..MaxCalls : Calling(id) = Calling(n)
  BY <1>3 DEF Part, Text, Calling
<1>5. id = n
  BY <1>4 DEF Calling
<1> QED
  BY <1>4, <1>5 DEF CallsIn

\* The result of an open call, and every message that is no result, may follow.
LEMMA AnsweredAppend ==
    ASSUME NEW ms \in Seq(Entry), Answered(ms), NEW m \in Entry,
           m.role = "toolResult" => Open(ms, m.call)
    PROVE  Answered(Append(ms, m))
<1> DEFINE ns == Append(ms, m)
<1>1. /\ Len(ms) \in Nat /\ ns[Len(ms) + 1] = m
      /\ DOMAIN ns = 1..(Len(ms) + 1) /\ DOMAIN ms = 1..Len(ms)
      /\ \A i \in 1..Len(ms) : ns[i] = ms[i]
  OBVIOUS
<1> HIDE DEF ns
<1>2. ASSUME NEW i \in DOMAIN ns, ns[i].role = "toolResult"
      PROVE  /\ \E j \in 1..(i - 1) : Contains(ns[j].content, Calling(ns[i].call))
             /\ \A j \in DOMAIN ns : IsResult(ns, j, ns[i].call) => j = i
  <2>1. CASE i \in 1..Len(ms)
    <3>1. PICK j \in 1..(i - 1) : Contains(ms[j].content, Calling(ms[i].call))
      BY <1>1, <1>2, <2>1 DEF Answered
    <3>2. ns[j] = ms[j] /\ ns[i] = ms[i] /\ j \in DOMAIN ms
      BY <1>1, <2>1
    <3>3. Contains(ns[j].content, Calling(ns[i].call))
      BY <3>1, <3>2
    <3>4. ASSUME NEW k \in DOMAIN ns, IsResult(ns, k, ns[i].call)
          PROVE  k = i
      <4>1. CASE k \in 1..Len(ms)
        BY <4>1, <3>4, <3>2, <2>1, <1>1, <1>2 DEF Answered, IsResult
      <4>2. CASE k = Len(ms) + 1
        <5>1. m.role = "toolResult" /\ m.call = ms[i].call
          BY <4>2, <3>4, <3>2, <1>1 DEF IsResult
        <5>2. ~IsResult(ms, i, m.call)
          BY <5>1, <1>1, <2>1 DEF Open
        <5> QED
          BY <5>1, <5>2, <1>2, <3>2 DEF IsResult
      <4> QED
        BY <4>1, <4>2, <1>1
    <3> QED
      BY <3>3, <3>4
  <2>2. CASE i = Len(ms) + 1
    <3>1. m.role = "toolResult" /\ ns[i] = m /\ Open(ms, m.call)
      BY <1>1, <1>2, <2>2
    <3>2. PICK j \in DOMAIN ms : Contains(ms[j].content, Calling(m.call))
      BY <3>1 DEF Open, CallsIn
    <3>3. j \in 1..(i - 1) /\ ns[j] = ms[j]
      BY <1>1, <2>2
    <3>4. Contains(ns[j].content, Calling(ns[i].call))
      BY <3>1, <3>2, <3>3
    <3>5. ASSUME NEW k \in DOMAIN ns, IsResult(ns, k, ns[i].call)
          PROVE  k = i
      BY <3>1, <3>5, <1>1, <2>2 DEF Open, IsResult
    <3> QED
      BY <3>3, <3>4, <3>5
  <2> QED
    BY <2>1, <2>2, <1>1
<1> QED
  BY <1>2 DEF Answered, ns

\* The contents that are appended, and the calls in them.
LEMMA TextHasNoCalls ==
    /\ <<Text>> \in Seq(Part)
    /\ {id \in 1..MaxCalls : Contains(<<Text>>, Calling(id))} = {}
<1>1. Text \in Part
  BY DEF Part
<1>2. <<Text>> \in Seq(Part) /\ Len(<<Text>>) = 1 /\ <<Text>>[1] = Text
  BY <1>1
<1>3. \A id \in 1..MaxCalls : Text # Calling(id)
  BY DEF Text, Calling
<1> QED
  BY <1>2, <1>3 DEF Contains

LEMMA CallsHaveTheirIds ==
    ASSUME NEW ids \in Seq(1..MaxCalls)
    PROVE  LET content == <<Text>> \o Each(Calling, ids)
           IN  /\ content \in Seq(Part)
               /\ {id \in 1..MaxCalls : Contains(content, Calling(id))} =
                      {ids[i] : i \in DOMAIN ids}
<1>0. \A i \in 1..Len(ids) : ids[i] \in 1..MaxCalls
  <2> DEFINE I == 1..MaxCalls
  <2>1. ids \in Seq(I)
    OBVIOUS
  <2> HIDE DEF I
  <2>2. \A i \in 1..Len(ids) : ids[i] \in I
    BY <2>1
  <2> QED
    BY <2>2 DEF I
<1> DEFINE calls == Each(Calling, ids)
           content == <<Text>> \o calls
<1>1. Text \in Part /\ \A id \in 1..MaxCalls : Calling(id) \in Part /\ Text # Calling(id)
  BY DEF Part, Text, Calling
<1>2. calls = [i \in 1..Len(ids) |-> Calling(ids[i])] /\ Len(ids) \in Nat
  BY DEF Each
<1>3. \A i \in 1..Len(ids) : ids[i] \in 1..MaxCalls /\ calls[i] = Calling(ids[i])
  <2>1. \A i \in 1..Len(ids) : calls[i] = Calling(ids[i])
    <3> HIDE DEF calls
    <3> QED BY <1>2
  <2> QED
    BY <1>0, <2>1
<1>4. calls \in Seq(Part) /\ Len(calls) = Len(ids)
  <2> HIDE DEF calls
  <2>1. calls = [i \in 1..Len(ids) |-> calls[i]]
    BY <1>2
  <2> QED
    BY <1>1, <1>2, <1>3, <2>1
<1> HIDE DEF calls
<1>5. /\ content \in Seq(Part) /\ Len(content) = Len(ids) + 1
      /\ content[1] = Text
      /\ \A i \in 1..Len(ids) : content[i + 1] = calls[i]
  BY <1>1, <1>2, <1>4
<1> HIDE DEF content
<1>6. \A i \in 1..Len(ids) : content[i + 1] = Calling(ids[i])
  BY <1>3, <1>5
<1>7. ASSUME NEW id \in 1..MaxCalls, Contains(content, Calling(id))
      PROVE  \E i \in DOMAIN ids : ids[i] = id
  <2>1. PICK k \in 1..(Len(ids) + 1) : content[k] = Calling(id)
    BY <1>5, <1>7 DEF Contains
  <2>2. k # 1
    BY <1>1, <1>5, <2>1
  <2>3. k - 1 \in 1..Len(ids) /\ (k - 1) + 1 = k
    BY <1>2, <2>1, <2>2
  <2>4. Calling(ids[k - 1]) = Calling(id)
    BY <1>6, <2>1, <2>3
  <2>5. ids[k - 1] = id
    BY <2>4 DEF Calling
  <2> QED
    BY <2>3, <2>5
<1>8. ASSUME NEW i \in DOMAIN ids
      PROVE  ids[i] \in 1..MaxCalls /\ Contains(content, Calling(ids[i]))
  <2>1. i \in 1..Len(ids) /\ i + 1 \in 1..Len(content)
    BY <1>2, <1>5
  <2>2. ids[i] \in 1..MaxCalls /\ content[i + 1] = Calling(ids[i])
    BY <2>1, <1>3, <1>6
  <2> DEFINE id == ids[i]
  <2> HIDE DEF id
  <2>3. Contains(content, Calling(id))
    BY <2>1, <2>2 DEF Contains, id
  <2> QED
    BY <2>2, <2>3 DEF id
<1>9. {id \in 1..MaxCalls : Contains(content, Calling(id))} = {ids[i] : i \in DOMAIN ids}
  BY <1>7, <1>8
<1> QED
  BY <1>5, <1>9 DEF content, calls

(***************************************************************************)
(* A message that goes through a checkpoint keeps all but its stop reason,  *)
(* and the transcript all that the invariant speaks of.                    *)
(***************************************************************************)
Kept(m, n) ==
    /\ n.role = m.role /\ n.content = m.content
    /\ m.role = "toolResult" => n.call = m.call

LEMMA RoundTrip ==
    ASSUME NEW m \in Entry
    PROVE  LET n == FromCheckpoint(ToCheckpoint(m)) IN n \in Entry /\ Kept(m, n)
<1> DEFINE n == FromCheckpoint(ToCheckpoint(m))
<1> SUFFICES n \in Entry /\ Kept(m, n)
  OBVIOUS
<1>1. m.content \in Seq(Part) /\ m.call \in 0..MaxCalls
  BY DEF Entry
<1>0. MaxCalls \in Nat
  BY ToolAssumption
<1>2. CASE m.role = "user"
  <2>1. n = [role |-> "user", content |-> m.content, call |-> 0, stop |-> "none"]
    BY <1>2 DEF FromCheckpoint, ToCheckpoint, Message
  <2> HIDE DEF n
  <2> QED
    BY <2>1, <1>0, <1>1, <1>2 DEF Entry, Kept
<1>3. CASE m.role = "toolResult"
  <2>1. n = [role |-> "toolResult", content |-> m.content, call |-> m.call, stop |-> "none"]
    BY <1>3 DEF FromCheckpoint, ToCheckpoint, Message
  <2> HIDE DEF n
  <2> QED
    BY <2>1, <1>1, <1>3 DEF Entry, Kept
<1>4. CASE m.role = "assistant"
  <2> DEFINE there == [i \in DOMAIN m.content |->
                         IF m.content[i].type = "toolCall"
                         THEN [m.content[i] EXCEPT !.type = "tool_use"] ELSE m.content[i]]
             back == [i \in DOMAIN there |->
                        IF there[i].type = "tool_use"
                        THEN [there[i] EXCEPT !.type = "toolCall"] ELSE there[i]]
  <2>1. n = [role |-> "assistant", content |-> back, call |-> 0, stop |-> "stop"]
    <3>1. ToCheckpoint(m) = [role |-> "assistant", content |-> there, call |-> 0]
      BY <1>4 DEF ToCheckpoint, AssistantToCheckpoint
    <3> DEFINE c == ToCheckpoint(m)
    <3> HIDE DEF there
    <3>2. c.role = "assistant" /\ c.content = there
      BY <3>1
    <3> HIDE DEF c
    <3>3. FromCheckpoint(c) =
            [Message("assistant",
                     [i \in DOMAIN c.content |->
                        IF c.content[i].type = "tool_use"
                        THEN [c.content[i] EXCEPT !.type = "toolCall"] ELSE c.content[i]],
                     0) EXCEPT !.stop = "stop"]
      BY <3>2 DEF FromCheckpoint
    <3>4. [i \in DOMAIN c.content |->
             IF c.content[i].type = "tool_use"
             THEN [c.content[i] EXCEPT !.type = "toolCall"] ELSE c.content[i]] = back
      BY <3>2
    <3> HIDE DEF back
    <3>5. FromCheckpoint(c) = [Message("assistant", back, 0) EXCEPT !.stop = "stop"]
      BY <3>3, <3>4
    <3>6. n = FromCheckpoint(c)
      BY DEF c
    <3> QED
      BY <3>5, <3>6 DEF Message
  <2>2. \A i \in DOMAIN m.content : m.content[i] \in Part
    BY <1>1
  <2>3. \A i \in DOMAIN m.content : back[i] = m.content[i]
    <3> SUFFICES ASSUME NEW i \in DOMAIN m.content
                 PROVE  back[i] = m.content[i]
      OBVIOUS
    <3>1. back[i] = IF there[i].type = "tool_use"
                    THEN [there[i] EXCEPT !.type = "toolCall"] ELSE there[i]
      OBVIOUS
    <3>2. there[i] = IF m.content[i].type = "toolCall"
                     THEN [m.content[i] EXCEPT !.type = "tool_use"] ELSE m.content[i]
      OBVIOUS
    <3> HIDE DEF there, back
    <3>3. CASE m.content[i] = Text
      BY <3>1, <3>2, <3>3 DEF Text
    <3>4. ASSUME NEW id \in 1..MaxCalls, m.content[i] = Calling(id)
          PROVE  back[i] = m.content[i]
      <4>1. there[i] = [type |-> "tool_use", id |-> id]
        BY <3>2, <3>4 DEF Calling
      <4> QED
        BY <3>1, <3>4, <4>1 DEF Calling
    <3> QED
      BY <2>2, <3>3, <3>4 DEF Part
  <2>4. back = m.content
    <3>1. DOMAIN back = DOMAIN m.content /\ back = [i \in DOMAIN m.content |-> back[i]]
      OBVIOUS
    <3>2. m.content = [i \in DOMAIN m.content |-> m.content[i]]
      BY <1>1
    <3> HIDE DEF there, back
    <3> QED
      BY <2>3, <3>1, <3>2
  <2> HIDE DEF n, there, back
  <2> QED
    BY <2>1, <2>4, <1>0, <1>1, <1>4 DEF Entry, Kept
<1>5. m.role \in {"user", "assistant", "toolResult"}
  BY DEF Entry
<1> QED
  BY <1>2, <1>3, <1>4, <1>5

LEMMA KeptTranscript ==
    ASSUME NEW ms, Transcript(ms), NEW ns \in Seq(Entry), Len(ns) = Len(ms),
           \A i \in DOMAIN ms : Kept(ms[i], ns[i])
    PROVE  Transcript(ns)
<1>1. DOMAIN ns = DOMAIN ms /\ ms \in Seq(Entry) /\ DOMAIN ms = 1..Len(ms) /\ Len(ms) \in Nat
  BY DEF Transcript
<1>2. CallsIn(ns) = CallsIn(ms)
  BY <1>1 DEF CallsIn, Kept
<1>3. Answered(ns)
  <2> SUFFICES ASSUME NEW i \in DOMAIN ns, ns[i].role = "toolResult"
               PROVE  /\ \E j \in 1..(i - 1) : Contains(ns[j].content, Calling(ns[i].call))
                      /\ \A j \in DOMAIN ns : IsResult(ns, j, ns[i].call) => j = i
    BY DEF Answered
  <2>1. ms[i].role = "toolResult" /\ ns[i].call = ms[i].call
    BY <1>1 DEF Kept
  <2>2. PICK j \in 1..(i - 1) : Contains(ms[j].content, Calling(ms[i].call))
    BY <1>1, <2>1 DEF Transcript, Answered
  <2>3. Contains(ns[j].content, Calling(ns[i].call))
    <3>1. j \in DOMAIN ms
      BY <1>1, <2>2
    <3> QED
      BY <2>1, <2>2, <3>1 DEF Kept
  <2>4. ASSUME NEW k \in DOMAIN ns, IsResult(ns, k, ns[i].call)
        PROVE  k = i
    <3>1. IsResult(ms, k, ms[i].call)
      BY <1>1, <2>1, <2>4 DEF IsResult, Kept
    <3> QED
      BY <1>1, <2>1, <3>1 DEF Transcript, Answered
  <2> QED
    BY <2>3, <2>4
<1> QED
  BY <1>1, <1>2, <1>3 DEF Transcript, Numbered

\* A checkpoint of a good transcript comes back as one.
LEMMA CheckpointKeeps ==
    ASSUME NEW ms, Transcript(ms)
    PROVE  Transcript(Each(FromCheckpoint, Each(ToCheckpoint, ms)))
<1> DEFINE ns == Each(FromCheckpoint, Each(ToCheckpoint, ms))
<1>1. ms \in Seq(Entry) /\ DOMAIN ms = 1..Len(ms) /\ Len(ms) \in Nat
  BY DEF Transcript
<1>2. ns = [i \in 1..Len(ms) |-> FromCheckpoint(ToCheckpoint(ms[i]))]
  BY <1>1 DEF Each
<1> HIDE DEF ns
<1>3. \A i \in 1..Len(ms) : ns[i] \in Entry /\ Kept(ms[i], ns[i])
  <2> SUFFICES ASSUME NEW i \in 1..Len(ms)
               PROVE  ns[i] \in Entry /\ Kept(ms[i], ns[i])
    OBVIOUS
  <2>1. ms[i] \in Entry /\ ns[i] = FromCheckpoint(ToCheckpoint(ms[i]))
    BY <1>1, <1>2
  <2> QED
    BY <2>1, RoundTrip
<1>4. ns \in Seq(Entry) /\ Len(ns) = Len(ms)
  <2>1. DOMAIN ns = 1..Len(ms) /\ ns = [i \in 1..Len(ms) |-> ns[i]]
    BY <1>2
  <2> QED
    BY <1>1, <1>3, <2>1
<1>5. Transcript(ns)
  BY <1>1, <1>3, <1>4, KeptTranscript
<1> QED
  BY <1>5 DEF ns

(***************************************************************************)
(* The invariant holds.                                                    *)
(***************************************************************************)
\* What EndCall appends.
LEMMA ResultIsEntry ==
    ASSUME NEW id \in 0..MaxCalls
    PROVE  /\ Message("toolResult", <<Text>>, id) \in Entry
           /\ Message("user", <<Text>>, 0) \in Entry
BY TextHasNoCalls, ToolAssumption DEF Message, Entry

\* A message without calls leaves the calls as they are.
LEMMA SilentAppend ==
    ASSUME NEW ms, Transcript(ms), NEW m \in Entry, m.content = <<Text>>,
           m.role = "toolResult" => Open(ms, m.call)
    PROVE  /\ Transcript(Append(ms, m))
           /\ \A id : Open(ms, id) /\ (m.role = "toolResult" => m.call # id) =>
                      Open(Append(ms, m), id)
<1>1. ms \in Seq(Entry) /\ Append(ms, m) \in Seq(Entry)
  BY DEF Transcript
<1>2. CallsIn(Append(ms, m)) = CallsIn(ms)
  <2>1. {id \in 1..MaxCalls : Contains(m.content, Calling(id))} = {}
    BY TextHasNoCalls
  <2> QED
    BY <1>1, <2>1, CallsOfAppend
<1>3. Transcript(Append(ms, m))
  BY <1>1, <1>2, AnsweredAppend DEF Transcript, Numbered
<1>4. ASSUME NEW id, Open(ms, id), m.role = "toolResult" => m.call # id,
             NEW i \in DOMAIN Append(ms, m)
      PROVE  ~IsResult(Append(ms, m), i, id)
  <2>1. CASE i \in DOMAIN ms
    BY <1>1, <1>4, <2>1 DEF Open, IsResult
  <2>2. CASE i = Len(ms) + 1
    BY <1>1, <1>4, <2>2 DEF IsResult
  <2> QED
    BY <1>1, <2>1, <2>2
<1> QED
  BY <1>2, <1>3, <1>4 DEF Open

\* With the only call that was under way ended there is none.
LEMMA CallEnds ==
    ASSUME CallsInv, NEW c \in Ids, left[c] # None, Ended(c), child' = child
    PROVE  CallsInv' /\ UnderWay' = {} /\ c \in UnderWay
<1>1. left' \in [Ids -> {None} \cup Seq(Operation)]
  BY DEF CallsInv, Ended
<1>2. \A d \in Ids : left'[d] = None
  BY DEF CallsInv, Ended
<1>3. child.call = 0
  BY DEF CallsInv
<1> QED
  BY <1>1, <1>2, <1>3 DEF CallsInv, UnderWay

LEMMA ShellEnds ==
    ASSUME CallsInv, Shell, child' = NoChild, left' = left
    PROVE  CallsInv' /\ UnderWay' = {} /\ child.call \in UnderWay
<1>1. child'.call = 0 /\ child' \in Child
  <2>1. NoChild \in Child /\ NoChild.call = 0
    BY ToolAssumption DEF NoChild, Child
  <2> QED
    BY <2>1
<1> QED
  BY <1>1 DEF CallsInv, UnderWay, Shell

\* The result of a call is told to the model, and the other calls stay open.
LEMMA EndCallTranscript ==
    ASSUME TranscriptInv, NEW id \in UnderWay, EndCall(id), UnderWay' = {}
    PROVE  TranscriptInv'
<1> DEFINE m == Message("toolResult", <<Text>>, id)
<1>1. /\ messages' = Append(messages, m) /\ todo' \in {<<>>, todo} /\ saved' = saved
  BY DEF EndCall
<1>2. Open(messages, id) /\ \A i \in DOMAIN todo : todo[i] # id
  BY DEF TranscriptInv
<1>3. id \in 0..MaxCalls
  BY <1>2, ToolAssumption DEF Open, CallsIn
<1>4. m \in Entry /\ m.content = <<Text>> /\ m.role = "toolResult" /\ m.call = id
  BY <1>3, ResultIsEntry DEF Message
<1> HIDE DEF m
<1>5. /\ Transcript(messages')
      /\ \A other : Open(messages, other) /\ id # other => Open(messages', other)
  BY <1>1, <1>2, <1>4, SilentAppend DEF TranscriptInv
<1>6. CASE todo' = <<>>
  BY <1>1, <1>5, <1>6 DEF TranscriptInv
<1>7. CASE todo' = todo
  <2>1. \A i \in DOMAIN todo : Open(messages', todo[i])
    BY <1>2, <1>5 DEF TranscriptInv
  <2> QED
    BY <1>1, <1>5, <1>7, <2>1 DEF TranscriptInv
<1> QED
  BY <1>1, <1>6, <1>7

\* The first of the calls that are left to do begins.
LEMMA BeginTranscript ==
    ASSUME TranscriptInv, todo # <<>>, todo' = Tail(todo), UnderWay' \subseteq {Head(todo)},
           UNCHANGED <<messages, saved>>
    PROVE  TranscriptInv'
<1> DEFINE head == Head(todo)
<1>1. /\ todo \in Seq(1..MaxCalls) /\ 1 \in DOMAIN todo /\ todo[1] = head
      /\ todo' \in Seq(1..MaxCalls)
      /\ \A i \in DOMAIN todo' : todo'[i] = todo[i + 1] /\ i + 1 \in DOMAIN todo /\ i \in Nat
  BY DEF TranscriptInv
<1> HIDE DEF head
<1>2. \A i \in DOMAIN todo' : Open(messages', todo'[i]) /\ todo'[i] # head
  BY <1>1 DEF TranscriptInv
<1>3. \A i, j \in DOMAIN todo' : todo'[i] = todo'[j] => i = j
  <2> SUFFICES ASSUME NEW i \in DOMAIN todo', NEW j \in DOMAIN todo', todo'[i] = todo'[j]
               PROVE  i = j
    OBVIOUS
  <2>1. i + 1 = j + 1
    BY <1>1 DEF TranscriptInv
  <2> QED
    BY <1>1, <2>1
<1>4. Open(messages', head)
  BY <1>1 DEF TranscriptInv
<1>5. UnderWay' \subseteq {head}
  BY DEF head
<1> QED
  BY <1>1, <1>2, <1>3, <1>4, <1>5 DEF TranscriptInv

\* The ids of a reply go on after the calls so far.
LEMMA ReplyTranscript ==
    ASSUME TranscriptInv, Reply
    PROVE  /\ TranscriptInv'
           /\ CallsIn(messages) \subseteq CallsIn(messages')
           /\ \A i \in DOMAIN todo' : todo'[i] \notin CallsIn(messages)
<1>0. /\ messages \in Seq(Entry) /\ Answered(messages) /\ MaxCalls \in Nat
      /\ Called = CallsIn(messages)
  BY ToolAssumption DEF TranscriptInv, Transcript, Called, CallsIn, Ids
<1>1. PICK n \in 0..MaxCalls : CallsIn(messages) = 1..n
  BY DEF TranscriptInv, Transcript, Numbered
<1>2. Cardinality(Called) = n
  BY <1>0, <1>1, FS_Interval
<1>3. PICK ids \in {<<>>, <<n + 1>>, <<n + 1, n + 2>>},
           stop \in {"stop", "error", "toolUse"} :
        /\ n + Len(ids) <= MaxCalls /\ todo' = ids
        /\ messages' = Append(messages,
              [Message("assistant", <<Text>> \o Each(Calling, ids), 0) EXCEPT !.stop = stop])
        /\ UNCHANGED <<saved, durable, child>>
  BY <1>2 DEF Reply
<1> DEFINE content == <<Text>> \o Each(Calling, ids)
           m == [role |-> "assistant", content |-> content, call |-> 0, stop |-> stop]
<1>4. /\ Len(ids) \in Nat /\ DOMAIN ids = 1..Len(ids)
      /\ \A i \in DOMAIN ids : ids[i] = n + i /\ ids[i] \in 1..MaxCalls
      /\ ids \in Seq(1..MaxCalls)
  <2>1. CASE ids = <<>>
    BY <1>0, <1>1, <1>3, <2>1
  <2>2. CASE ids = <<n + 1>>
    BY <1>0, <1>1, <1>3, <2>2
  <2>3. CASE ids = <<n + 1, n + 2>>
    BY <1>0, <1>1, <1>3, <2>3
  <2> QED
    BY <1>3, <2>1, <2>2, <2>3
<1>5. /\ content \in Seq(Part)
      /\ {id \in 1..MaxCalls : Contains(content, Calling(id))} = {ids[i] : i \in DOMAIN ids}
  BY <1>4, CallsHaveTheirIds
<1>6. messages' = Append(messages, m)
  <2>1. messages' =
          Append(messages, [Message("assistant", content, 0) EXCEPT !.stop = stop])
    BY <1>3
  <2> HIDE DEF content
  <2>2. [Message("assistant", content, 0) EXCEPT !.stop = stop] = m
    BY DEF Message
  <2> QED
    BY <2>1, <2>2
<1> HIDE DEF content
<1>7. m \in Entry /\ m.role # "toolResult" /\ m.content = content
  BY <1>0, <1>5 DEF Entry
<1> HIDE DEF m
<1>8. CallsIn(messages') = (1..n) \cup {ids[i] : i \in DOMAIN ids}
  BY <1>0, <1>1, <1>5, <1>6, <1>7, CallsOfAppend
<1>9. CallsIn(messages') = 1..(n + Len(ids))
  <2>1. ASSUME NEW k \in 1..(n + Len(ids)), k \notin 1..n
        PROVE  \E i \in DOMAIN ids : ids[i] = k
    <3>1. k - n \in 1..Len(ids) /\ n + (k - n) = k
      BY <1>1, <1>4, <2>1
    <3> QED
      BY <1>4, <3>1
  <2>2. ASSUME NEW i \in DOMAIN ids
        PROVE  ids[i] \in 1..(n + Len(ids))
    BY <1>1, <1>4
  <2>3. 1..n \subseteq 1..(n + Len(ids))
    BY <1>1, <1>4
  <2> QED
    BY <1>8, <2>1, <2>2, <2>3
<1>10. Transcript(messages')
  <2>1. Answered(messages') /\ messages' \in Seq(Entry)
    BY <1>0, <1>6, <1>7, AnsweredAppend
  <2>2. n + Len(ids) \in 0..MaxCalls
    BY <1>0, <1>1, <1>3, <1>4
  <2> QED
    BY <1>9, <2>1, <2>2 DEF Transcript, Numbered
<1>11. \A i \in DOMAIN messages : \A id : IsResult(messages, i, id) => id \in 1..n
  <2> SUFFICES ASSUME NEW i \in DOMAIN messages, NEW id, IsResult(messages, i, id)
               PROVE  id \in CallsIn(messages)
    BY <1>1
  <2>1. PICK j \in 1..(i - 1) : Contains(messages[j].content, Calling(id))
    BY <1>0 DEF IsResult, Answered
  <2>2. j \in DOMAIN messages
    BY <1>0, <2>1
  <2> QED
    BY <1>0, <2>1, <2>2, CalledIsIn
<1>12. \A i \in DOMAIN messages' : \A id : IsResult(messages', i, id) =>
          i \in DOMAIN messages /\ IsResult(messages, i, id)
  <2> SUFFICES ASSUME NEW i \in DOMAIN messages', NEW id, IsResult(messages', i, id)
               PROVE  i \in DOMAIN messages /\ IsResult(messages, i, id)
    OBVIOUS
  <2>1. i \in DOMAIN messages \/ i = Len(messages) + 1
    BY <1>0, <1>6
  <2>2. i # Len(messages) + 1
    BY <1>0, <1>6, <1>7 DEF IsResult
  <2> QED
    BY <1>0, <1>6, <2>1, <2>2 DEF IsResult
<1>13. \A i \in DOMAIN todo' : Open(messages', todo'[i])
  <2> SUFFICES ASSUME NEW i \in DOMAIN ids
               PROVE  Open(messages', ids[i])
    BY <1>3
  <2>1. ids[i] \in CallsIn(messages') /\ ids[i] \notin 1..n
    BY <1>1, <1>4, <1>8
  <2> QED
    BY <1>11, <1>12, <2>1 DEF Open
<1>14. ASSUME NEW c \in UnderWay'
       PROVE  Open(messages', c) /\ \A i \in DOMAIN todo' : todo'[i] # c
  <2>1. Open(messages, c)
    BY <1>3, <1>14 DEF TranscriptInv, UnderWay, durable
  <2>2. c \in 1..n
    BY <1>1, <2>1 DEF Open
  <2>3. Open(messages', c)
    BY <1>8, <1>12, <2>1, <2>2 DEF Open
  <2>4. \A i \in DOMAIN ids : ids[i] # c
    BY <1>1, <1>4, <2>2
  <2> QED
    BY <1>3, <2>3, <2>4
<1>15. \A i, j \in DOMAIN todo' : todo'[i] = todo'[j] => i = j
  BY <1>1, <1>3, <1>4
<1>16. todo' \in Seq(1..MaxCalls) /\ saved' = saved
  BY <1>3, <1>4
<1>17. \A i \in DOMAIN todo' : todo'[i] \notin CallsIn(messages)
  BY <1>1, <1>3, <1>4
<1> QED
  BY <1>1, <1>8, <1>10, <1>13, <1>14, <1>15, <1>16, <1>17 DEF TranscriptInv

LEMMA InitTranscript == Init => CallsInv /\ TranscriptInv
<1> SUFFICES ASSUME Init PROVE CallsInv /\ TranscriptInv
  OBVIOUS
<1>1. messages = <<>> /\ todo = <<>> /\ saved = None /\ MaxCalls \in Nat
  BY ToolAssumption DEF Init
<1>2. CallsIn(messages) = 1..0
  BY <1>1 DEF CallsIn
<1>3. Transcript(messages)
  <2>1. messages \in Seq(Entry) /\ DOMAIN messages = {}
    BY <1>1
  <2>2. Answered(messages)
    BY <2>1 DEF Answered
  <2>3. 0 \in 0..MaxCalls
    BY <1>1
  <2> QED
    BY <1>2, <2>1, <2>2, <2>3 DEF Transcript, Numbered
<1>4. CallsInv /\ UnderWay = {}
  <2>1. child \in Child /\ child.call = 0
    <3>1. NoChild \in Child /\ NoChild.call = 0
      BY ToolAssumption DEF NoChild, Child
    <3> QED
      BY <3>1 DEF Init
  <2>2. left = [c \in Ids |-> None]
    BY DEF Init
  <2> QED
    BY <2>1, <2>2 DEF CallsInv, UnderWay
<1> QED
  BY <1>1, <1>3, <1>4 DEF TranscriptInv

\* A signal leaves the child the process of the same call.
LEMMA ChildKept ==
    ASSUME CallsInv, left' = left,
           child' \in {child, Exited, Signalled, [child EXCEPT !.state = "closed"]}
    PROVE  CallsInv' /\ UnderWay' = UnderWay
<1>1. child \in Child
  BY DEF CallsInv
<1>2. Exited \in Child /\ Exited.call = child.call
  BY <1>1 DEF Exited, Child
<1>3. Signalled \in Child /\ Signalled.call = child.call
  <2> DEFINE before == IF child.state = "running" /\ ~child.stubborn THEN Exited ELSE child
  <2>1. before \in Child /\ before.call = child.call
    BY <1>1, <1>2
  <2>2. Signalled = [before EXCEPT !.killing = TRUE]
    BY DEF Signalled
  <2> HIDE DEF before
  <2> QED
    BY <2>1, <2>2 DEF Child
<1>4. [child EXCEPT !.state = "closed"] \in Child
      /\ [child EXCEPT !.state = "closed"].call = child.call
  BY <1>1 DEF Child
<1>5. child' \in Child /\ child'.call = child.call
  BY <1>1, <1>2, <1>3, <1>4
<1> QED
  BY <1>5 DEF CallsInv, UnderWay

LEMMA NextTranscript ==
    CallsInv /\ TranscriptInv /\ [Next]_vars => CallsInv' /\ TranscriptInv'
<1> SUFFICES ASSUME CallsInv, TranscriptInv, [Next]_vars PROVE CallsInv' /\ TranscriptInv'
  OBVIOUS
<1> DEFINE Same == UNCHANGED <<left, child>>
<1>0. Same => CallsInv' /\ UnderWay' = UnderWay
  BY DEF CallsInv, UnderWay
<1>1. CASE Prompt
  <2> DEFINE m == Message("user", <<Text>>, 0)
  <2>1. messages' = Append(messages, m) /\ UNCHANGED <<saved, todo>> /\ Same
    BY <1>1 DEF Prompt, durable
  <2>2. m \in Entry /\ m.content = <<Text>> /\ m.role # "toolResult"
    <3>1. 0 \in 0..MaxCalls
      BY ToolAssumption
    <3>2. m \in Entry
      BY <3>1, ResultIsEntry
    <3> QED
      BY <3>2 DEF Message
  <2> HIDE DEF m
  <2>3. Transcript(messages') /\ \A id : Open(messages, id) => Open(messages', id)
    BY <2>1, <2>2, SilentAppend DEF TranscriptInv
  <2> QED
    BY <1>0, <2>1, <2>3 DEF TranscriptInv
<1>2. CASE Reply
  <2>1. Same
    BY <1>2 DEF Reply, durable
  <2> QED
    BY <1>0, <1>2, <2>1, ReplyTranscript
<1>3. CASE EndRun \/ Abort
  <2>1. Transcript(Each(FromCheckpoint, Each(ToCheckpoint, messages)))
    BY CheckpointKeeps DEF TranscriptInv
  <2>2. /\ saved' \in {saved, Each(ToCheckpoint, messages)} /\ todo' \in {<<>>, todo}
        /\ messages' = messages /\ left' = left /\ child' \in {child, Signalled}
    BY <1>3 DEF EndRun, Abort, durable
  <2>3. CallsInv' /\ UnderWay' = UnderWay
    BY <2>2, ChildKept
  <2>4. \A i \in DOMAIN todo' : i \in DOMAIN todo /\ todo'[i] = todo[i]
    BY <2>2
  <2>5. todo' \in Seq(1..MaxCalls)
    <3> DEFINE I == 1..MaxCalls
    <3>1. todo \in Seq(I)
      BY DEF TranscriptInv
    <3> HIDE DEF I
    <3>2. <<>> \in Seq(I)
      OBVIOUS
    <3>3. todo' = <<>> \/ todo' = todo
      BY <2>2
    <3>4. todo' \in Seq(I)
      BY <3>1, <3>2, <3>3
    <3> QED
      BY <3>4 DEF I
  <2>6. saved' # None => Transcript(Each(FromCheckpoint, saved'))
    BY <2>1, <2>2 DEF TranscriptInv
  <2> QED
    BY <2>2, <2>3, <2>4, <2>5, <2>6 DEF TranscriptInv
<1>4. CASE Restore
  <2>1. /\ messages' = Each(FromCheckpoint, saved) /\ todo' = <<>> /\ saved # None
        /\ saved' = saved /\ Same /\ Idle
    BY <1>4 DEF Restore
  <2>2. UnderWay = {}
    BY <2>1 DEF UnderWay, Idle
  <2> QED
    BY <1>0, <2>1, <2>2 DEF TranscriptInv
<1>5. CASE BeginDurable \/ BeginShell
  <2>1. /\ todo # <<>> /\ todo' = Tail(todo) /\ Idle /\ UNCHANGED <<messages, saved>>
    BY <1>5 DEF BeginDurable, BeginShell
  <2>2. Head(todo) \in Ids /\ Head(todo) \in 0..MaxCalls /\ Head(todo) # 0
    <3>1. Head(todo) \in 1..MaxCalls
      <4> DEFINE I == 1..MaxCalls
      <4>1. todo \in Seq(I)
        BY DEF TranscriptInv
      <4> HIDE DEF I
      <4>2. Head(todo) \in I
        BY <2>1, <4>1
      <4> QED
        BY <4>2 DEF I
    <3> QED
      BY <3>1, ToolAssumption DEF Ids
  <2>3. CallsInv' /\ UnderWay' \subseteq {Head(todo)}
    <3>1. CASE BeginDurable
      <4>1. PICK program \in Programs :
              left' = [left EXCEPT ![Head(todo)] = program] /\ child' = child
        BY <3>1 DEF BeginDurable
      <4>2. program \in Seq(Operation)
        BY ToolAssumption DEF Operation
      <4>3. left' \in [Ids -> {None} \cup Seq(Operation)]
        BY <2>2, <4>1, <4>2 DEF CallsInv
      <4>4. \A c \in Ids : c # Head(todo) => left'[c] = None
        BY <2>1, <4>1 DEF CallsInv, Idle
      <4>5. child'.call = 0
        BY <2>1, <4>1 DEF Idle
      <4> QED
        BY <4>1, <4>3, <4>4, <4>5 DEF CallsInv, UnderWay
    <3>2. CASE BeginShell
      <4>1. PICK stubborn \in BOOLEAN, escaped \in BOOLEAN :
              child' = [call |-> Head(todo), state |-> "running", stubborn |-> stubborn,
                        escaped |-> escaped, killing |-> FALSE]
        BY <3>2 DEF BeginShell
      <4>2. left' = left
        BY <3>2 DEF BeginShell, durable
      <4>3. child' \in Child /\ child'.call = Head(todo)
        BY <2>2, <4>1 DEF Child
      <4> QED
        BY <2>1, <4>2, <4>3 DEF CallsInv, UnderWay, Idle
    <3> QED
      BY <1>5, <3>1, <3>2
  <2> QED
    BY <2>1, <2>3, BeginTranscript
<1>6. ASSUME NEW c \in Ids, Fails(c) \/ Suspend(c) \/ Returns(c), left[c] # None
      PROVE  CallsInv' /\ TranscriptInv'
  <2>1. Ended(c) /\ EndCall(c) /\ child' = child
    BY <1>6 DEF Fails, Suspend, Returns
  <2>2. CallsInv' /\ UnderWay' = {} /\ c \in UnderWay
    BY <1>6, <2>1, CallEnds
  <2> QED
    BY <2>1, <2>2, EndCallTranscript
<1>7. ASSUME NEW c \in Ids, Execute(c)
      PROVE  CallsInv' /\ TranscriptInv'
  <2>1. /\ left[c] # None /\ left[c] # <<>> /\ left' = [left EXCEPT ![c] = Tail(@)]
        /\ UNCHANGED <<messages, saved, todo, child>>
    BY <1>7 DEF Execute, Doing, session
  <2>2. left' \in [Ids -> {None} \cup Seq(Operation)]
    <3>1. Tail(left[c]) \in Seq(Operation)
      BY <2>1 DEF CallsInv
    <3> QED
      BY <2>1, <3>1 DEF CallsInv
  <2>3. \A d \in Ids : left'[d] # None => left[d] # None
    BY <2>1 DEF CallsInv
  <2>4. CallsInv' /\ UnderWay' \subseteq UnderWay
    BY <2>1, <2>2, <2>3 DEF CallsInv, UnderWay
  <2> QED
    BY <2>1, <2>4 DEF TranscriptInv
<1>8. CASE ShellResult \/ SpawnFails
  <2>1. Shell /\ child' = NoChild /\ EndCall(child.call) /\ left' = left
    BY <1>8 DEF ShellResult, SpawnFails, durable
  <2>2. CallsInv' /\ UnderWay' = {} /\ child.call \in UnderWay
    BY <2>1, ShellEnds
  <2> QED
    BY <2>1, <2>2, EndCallTranscript
<1>9. CASE Resolve \/ ChildExits \/ PipesClose \/ TimeLimit \/ Kill \/ UNCHANGED vars
  <2>1. /\ UNCHANGED <<messages, saved, todo, left>>
        /\ child' \in {child, Exited, Signalled, [child EXCEPT !.state = "closed"]}
    BY <1>9 DEF Resolve, ChildExits, PipesClose, TimeLimit, Kill, vars, session, durable
  <2>2. CallsInv' /\ UnderWay' = UnderWay
    BY <2>1, ChildKept
  <2> QED
    BY <2>1, <2>2 DEF TranscriptInv
<1>10. ASSUME NEW c \in Ids, Returns(c)
       PROVE  CallsInv' /\ TranscriptInv'
  BY <1>6, <1>10 DEF Returns
<1> QED
  BY <1>1, <1>2, <1>3, <1>4, <1>5, <1>6, <1>7, <1>8, <1>9, <1>10
     DEF Next, ShellStep, DurableStep, Fails, Suspend, Doing

\* Also after checkpoints, failures, aborts and suspensions the model is given transcripts
\* in which each result follows the call it belongs to and no call has two (messages.ts,
\* checkpointToPiMessages and piMessagesToCheckpoint).
THEOREM TranscriptsAreWhole == Spec => []ResultsFollowTheirCalls
<1>1. TranscriptInv => ResultsFollowTheirCalls
  BY DEF TranscriptInv, Transcript, Answered, IsResult, ResultsFollowTheirCalls
<1> QED
  BY <1>1, InitTranscript, NextTranscript, PTL DEF Spec

(***************************************************************************)
(* The invariant of suspensions.  It needs that the tracker speaks of the   *)
(* call under way, that this call has not been suspended before, and that   *)
(* what was suspended is in the transcript, so that a new id is new.        *)
(***************************************************************************)
SuspensionInv ==
    /\ SuspensionsAreTheirOwn
    /\ steps \in [Ids -> SUBSET STRING]
    /\ \A a \in asked : a.call \in CallsIn(messages)
    /\ \A c \in Ids : left[c] # None => tracker = c /\ \A a \in asked : a.call # c

\* A call that ends leaves the calls of the transcript, and drops those to be made or not.
LEMMA EndCallGrows ==
    ASSUME TranscriptInv, NEW id \in UnderWay, EndCall(id)
    PROVE  /\ CallsIn(messages) \subseteq CallsIn(messages')
           /\ \A i \in DOMAIN todo' : i \in DOMAIN todo /\ todo'[i] = todo[i]
<1>1. id \in 0..MaxCalls
  BY ToolAssumption DEF TranscriptInv, Open, CallsIn
<1> DEFINE m == Message("toolResult", <<Text>>, id)
<1>2. m \in Entry /\ messages' = Append(messages, m) /\ todo' \in {<<>>, todo}
  BY <1>1, ResultIsEntry DEF EndCall
<1> HIDE DEF m
<1>3. CallsIn(messages) \subseteq CallsIn(messages')
  BY <1>2, CallsOfAppend DEF TranscriptInv, Transcript
<1> QED
  BY <1>2, <1>3

\* What is there of suspended calls is kept by a step that adds no call to be made.
LEMMA SuspensionsKept ==
    ASSUME SuspensionInv, UNCHANGED <<steps, asked>>,
           CallsIn(messages) \subseteq CallsIn(messages'),
           requests' \cup answers' \subseteq requests \cup answers,
           \A i \in DOMAIN todo' : \E j \in DOMAIN todo : todo'[i] = todo[j],
           \A c \in Ids : left'[c] # None => tracker' = c /\ \A a \in asked : a.call # c
    PROVE  SuspensionInv'
BY DEF SuspensionInv, SuspensionsAreTheirOwn

LEMMA NextSuspension ==
    CallsInv /\ TranscriptInv /\ SuspensionInv /\ [Next]_vars => SuspensionInv'
<1> SUFFICES ASSUME CallsInv, TranscriptInv, SuspensionInv, [Next]_vars
             PROVE  SuspensionInv'
  OBVIOUS
<1> DEFINE Owned == \A c \in Ids : left'[c] # None =>
                        tracker' = c /\ \A a \in asked : a.call # c
           Fewer == \A i \in DOMAIN todo' : \E j \in DOMAIN todo : todo'[i] = todo[j]
<1>0. UNCHANGED <<left, tracker>> => Owned
  BY DEF SuspensionInv
<1>1. CASE Prompt
  <2> DEFINE m == Message("user", <<Text>>, 0)
  <2>1. /\ messages' = Append(messages, m) /\ messages \in Seq(Entry) /\ m \in Entry
        /\ UNCHANGED <<todo, left, tracker, steps, asked, requests, answers>>
    <3>1. 0 \in 0..MaxCalls
      BY ToolAssumption
    <3> QED
      BY <1>1, <3>1, ResultIsEntry DEF Prompt, durable, TranscriptInv, Transcript
  <2> HIDE DEF m
  <2>2. CallsIn(messages) \subseteq CallsIn(messages')
    BY <2>1, CallsOfAppend
  <2> QED
    BY <1>0, <2>1, <2>2, SuspensionsKept
<1>2. CASE Reply
  <2>1. UNCHANGED durable
    BY <1>2 DEF Reply
  <2>2. /\ CallsIn(messages) \subseteq CallsIn(messages')
        /\ \A i \in DOMAIN todo' : todo'[i] \notin CallsIn(messages)
    BY <1>2, ReplyTranscript
  <2> QED
    BY <2>1, <2>2 DEF SuspensionInv, SuspensionsAreTheirOwn, durable
<1>3. CASE EndRun \/ Abort
  <2>1. /\ UNCHANGED durable /\ messages' = messages /\ todo' \in {<<>>, todo}
    BY <1>3 DEF EndRun, Abort
  <2>2. Fewer
    BY <2>1
  <2> QED
    BY <1>0, <2>1, <2>2, SuspensionsKept DEF durable
<1>4. CASE Restore
  <2>1. /\ asked' = {} /\ requests' = {} /\ answers' = {} /\ steps' = [c \in Ids |-> {}]
        /\ left' = left /\ Idle
    BY <1>4 DEF Restore
  <2>2. \A c \in Ids : left'[c] = None
    BY <2>1 DEF Idle
  <2> QED
    BY <2>1, <2>2 DEF SuspensionInv, SuspensionsAreTheirOwn
<1>5. CASE BeginDurable
  <2>1. /\ todo # <<>> /\ todo' = Tail(todo) /\ tracker' = Head(todo) /\ Idle
        /\ UNCHANGED <<messages, steps, requests, asked, answers>>
    BY <1>5 DEF BeginDurable
  <2>2. PICK program \in Programs : left' = [left EXCEPT ![Head(todo)] = program]
    BY <1>5 DEF BeginDurable
  <2>3. /\ 1 \in DOMAIN todo /\ Head(todo) = todo[1]
        /\ \A i \in DOMAIN todo' : todo'[i] = todo[i + 1] /\ i + 1 \in DOMAIN todo
    BY <2>1 DEF TranscriptInv
  <2>4. \A c \in Ids : left'[c] # None => c = Head(todo)
    BY <2>1, <2>2 DEF CallsInv, Idle
  <2>5. \A a \in asked : a.call # Head(todo)
    BY <2>3 DEF SuspensionInv, SuspensionsAreTheirOwn
  <2>6. Owned /\ Fewer
    BY <2>1, <2>3, <2>4, <2>5
  <2> QED
    BY <2>1, <2>6, SuspensionsKept
<1>6. CASE BeginShell
  <2>1. /\ todo # <<>> /\ todo' = Tail(todo) /\ UNCHANGED <<messages, durable>>
    BY <1>6 DEF BeginShell
  <2>2. Fewer
    <3>1. \A i \in DOMAIN todo' : todo'[i] = todo[i + 1] /\ i + 1 \in DOMAIN todo
      BY <2>1 DEF TranscriptInv
    <3> QED
      BY <3>1
  <2> QED
    BY <1>0, <2>1, <2>2, SuspensionsKept DEF durable
<1>7. ASSUME NEW c \in Ids, Execute(c)
      PROVE  SuspensionInv'
  <2>1. /\ left[c] # None /\ left[c] # <<>>
        /\ steps' = [steps EXCEPT ![c] = @ \cup {Head(left[c]).name}]
        /\ left' = [left EXCEPT ![c] = Tail(@)]
        /\ UNCHANGED <<messages, todo, tracker, requests, asked, answers>>
    BY <1>7 DEF Execute, Doing, session
  <2>2. steps' \in [Ids -> SUBSET STRING]
    <3>1. left[c] \in Seq(Operation)
      BY <2>1 DEF CallsInv
    <3>2. Head(left[c]) \in Operation
      BY <2>1, <3>1
    <3>3. Head(left[c]).name \in STRING
      BY <3>2 DEF Operation
    <3> QED
      BY <2>1, <3>3 DEF SuspensionInv
  <2>3. \A a \in asked : a.call # c
    BY <2>1 DEF SuspensionInv
  <2>4. \A d \in Ids : d # c => steps'[d] = steps[d]
    BY <2>1 DEF SuspensionInv
  <2>5. \A a \in asked : a.call \in Ids
    BY DEF SuspensionInv, CallsIn, Ids
  <2>6. \A a \in asked : steps'[a.call] = steps[a.call]
    BY <2>3, <2>4, <2>5
  <2>7. \A d \in Ids : left'[d] # None => left[d] # None
    BY <2>1 DEF CallsInv
  <2> QED
    BY <2>1, <2>2, <2>6, <2>7 DEF SuspensionInv, SuspensionsAreTheirOwn
<1>8. ASSUME NEW c \in Ids, Fails(c) \/ Returns(c)
      PROVE  SuspensionInv'
  <2>1. /\ left[c] # None /\ Ended(c) /\ EndCall(c) /\ child' = child
        /\ UNCHANGED <<steps, requests, asked, answers>>
    BY <1>8 DEF Fails, Returns
  <2>2. c \in UnderWay
    BY <2>1 DEF UnderWay
  <2>3. CallsIn(messages) \subseteq CallsIn(messages') /\ Fewer
    BY <2>1, <2>2, EndCallGrows
  <2>4. Owned
    BY <2>1 DEF Ended, CallsInv
  <2> QED
    BY <2>1, <2>3, <2>4, SuspensionsKept
<1>9. ASSUME NEW c \in Ids, Suspend(c)
      PROVE  SuspensionInv'
  <2> DEFINE new == [call |-> c, input |-> tracker,
                     completed |-> IF tracker = NoCall THEN {} ELSE steps[tracker]]
  <2>1. /\ left[c] # None /\ Ended(c) /\ EndCall(c)
        /\ requests' = requests \cup {c} /\ asked' = asked \cup {new}
        /\ UNCHANGED <<steps, tracker, answers>>
    BY <1>9 DEF Suspend, Doing
  <2>2. c \in UnderWay /\ tracker = c /\ c # NoCall
    BY <2>1 DEF NoCall, UnderWay, SuspensionInv, Ids
  <2>3. /\ CallsIn(messages) \subseteq CallsIn(messages')
        /\ \A i \in DOMAIN todo' : i \in DOMAIN todo /\ todo'[i] = todo[i]
    BY <2>1, <2>2, EndCallGrows
  <2>4. c \in CallsIn(messages) /\ \A i \in DOMAIN todo : todo[i] # c
    BY <2>2 DEF TranscriptInv, Open
  <2>5. new.call = c /\ new.input = new.call /\ new.completed = steps[new.call]
    BY <2>2
  <2> HIDE DEF new
  <2>6. \A d \in Ids : left'[d] = None
    BY <2>1 DEF Ended, CallsInv
  <2>7. requests' \cup answers' \subseteq {a.call : a \in asked'}
    BY <2>1, <2>5 DEF SuspensionInv, SuspensionsAreTheirOwn
  <2> QED
    BY <2>1, <2>3, <2>4, <2>5, <2>6, <2>7 DEF SuspensionInv, SuspensionsAreTheirOwn
<1>10. CASE Resolve
  <2>1. /\ requests' \subseteq requests /\ answers' \subseteq answers \cup requests
        /\ UNCHANGED <<session, left, steps, tracker, asked>>
    BY <1>10 DEF Resolve
  <2>2. Fewer
    BY <2>1 DEF session
  <2> QED
    BY <1>0, <2>1, <2>2, SuspensionsKept DEF session
<1>11. CASE ShellResult \/ SpawnFails
  <2>1. Shell /\ EndCall(child.call) /\ UNCHANGED durable
    BY <1>11 DEF ShellResult, SpawnFails
  <2>2. child.call \in UnderWay
    BY <2>1 DEF UnderWay, Shell
  <2>3. CallsIn(messages) \subseteq CallsIn(messages') /\ Fewer
    BY <2>1, <2>2, EndCallGrows
  <2> QED
    BY <1>0, <2>1, <2>3, SuspensionsKept DEF durable
<1>12. CASE ChildExits \/ PipesClose \/ TimeLimit \/ Kill \/ UNCHANGED vars
  <2>1. UNCHANGED <<messages, todo, durable>>
    BY <1>12 DEF ChildExits, PipesClose, TimeLimit, Kill, vars, session
  <2> QED
    BY <1>0, <2>1, SuspensionsKept DEF durable
<1> QED
  BY <1>1, <1>2, <1>3, <1>4, <1>5, <1>6, <1>7, <1>8, <1>9, <1>10, <1>11, <1>12
     DEF Next, ShellStep, DurableStep

\* Whatever is suspended, answered, aborted or continued, what is kept of a suspended call
\* comes from that call alone (instance.ts, handleSuspension; guidance.ts, convertTool).
THEOREM SuspensionsHold == Spec => []SuspensionsAreTheirOwn
<1>1. Init => SuspensionInv
  <2> SUFFICES ASSUME Init PROVE SuspensionInv
    OBVIOUS
  <2>1. \A c \in Ids : left[c] = None
    BY DEF Init
  <2> QED
    BY <2>1 DEF Init, SuspensionInv, SuspensionsAreTheirOwn
<1>2. SuspensionInv => SuspensionsAreTheirOwn
  BY DEF SuspensionInv
<1> QED
  BY <1>1, <1>2, InitTranscript, NextTranscript, NextSuspension, PTL DEF Spec
=============================================================================
