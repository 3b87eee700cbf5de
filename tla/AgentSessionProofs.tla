------------------------- MODULE AgentSessionProofs -------------------------
(***************************************************************************)
(* Theorems about the two sides of an agent's output.  AgentSession, for   *)
(* any tool calls and any bounds: the callers of wait(), the output        *)
(* between the library and the subscribers, and what a pause holds back.   *)
(* AgentOutput, for any agents, clients, journals and numbers of records:  *)
(* what a tail prints, and whose the subscriptions are.                    *)
(***************************************************************************)
EXTENDS AgentSession, AgentOutput, FiniteSetTheorems, SequenceTheorems,
        WellFoundedInduction, TLAPS

Queued == {"running", "output"}

(***************************************************************************)
(* Lemmas about Count.                                                     *)
(***************************************************************************)
Places(seq, e) == {i \in DOMAIN seq : seq[i] = e}

LEMMA PlacesAreFinite ==
    ASSUME NEW S, NEW seq \in Seq(S), NEW e
    PROVE  IsFiniteSet(Places(seq, e)) /\ Count(seq, e) \in Nat
<1>1. IsFiniteSet(1..Len(seq))
  BY FS_Interval
<1>2. Places(seq, e) \in SUBSET (1..Len(seq))
  BY DEF Places
<1>3. IsFiniteSet(Places(seq, e))
  BY <1>1, <1>2, FS_Subset
<1> QED BY <1>3, FS_CardinalityType DEF Places, Count

LEMMA CountEmpty == ASSUME NEW e PROVE Count(<<>>, e) = 0
<1>1. {i \in DOMAIN <<>> : <<>>[i] = e} = {}
  OBVIOUS
<1> QED BY <1>1, FS_EmptySet DEF Count

LEMMA CountAppend ==
    ASSUME NEW S, NEW seq \in Seq(S), NEW x \in S, NEW e
    PROVE  Count(Append(seq, x), e) = Count(seq, e) + (IF x = e THEN 1 ELSE 0)
<1> DEFINE n == Len(seq) + 1
<1>0. /\ Count(seq, e) = Cardinality(Places(seq, e))
      /\ Count(Append(seq, x), e) = Cardinality(Places(Append(seq, x), e))
  BY DEF Places, Count
<1>1. IsFiniteSet(Places(seq, e)) /\ Count(seq, e) \in Nat
  BY PlacesAreFinite
<1>2. CASE x = e
  <2>1. Places(Append(seq, x), e) = Places(seq, e) \cup {n}
    BY <1>2 DEF Places
  <2>2. n \notin Places(seq, e)
    BY DEF Places
  <2> QED BY <1>0, <1>1, <1>2, <2>1, <2>2, FS_AddElement
<1>3. CASE x # e
  <2>1. Places(Append(seq, x), e) = Places(seq, e)
    BY <1>3 DEF Places
  <2> QED BY <1>0, <1>1, <1>3, <2>1
<1> QED BY <1>2, <1>3

LEMMA CountTail ==
    ASSUME NEW S, NEW seq \in Seq(S), seq # <<>>, NEW e
    PROVE  Count(seq, e) = Count(Tail(seq), e) + (IF Head(seq) = e THEN 1 ELSE 0)
<1> DEFINE late == Places(seq, e) \ {1}
           move == [i \in Places(Tail(seq), e) |-> i + 1]
<1>1. Tail(seq) \in Seq(S) /\ Len(seq) \in Nat \ {0} /\ Head(seq) = seq[1]
  BY HeadTailProperties
<1>2. DOMAIN Tail(seq) = 1..(Len(seq) - 1) /\ \A i \in 1..(Len(seq) - 1) : Tail(seq)[i] = seq[i + 1]
  BY <1>1
<1>3. /\ IsFiniteSet(Places(seq, e)) /\ Count(seq, e) \in Nat
      /\ IsFiniteSet(Places(Tail(seq), e)) /\ Count(Tail(seq), e) \in Nat
  BY <1>1, PlacesAreFinite
<1>4. move \in [Places(Tail(seq), e) -> late]
  BY <1>1, <1>2 DEF Places
<1>5. \A i, j \in Places(Tail(seq), e) : move[i] = move[j] => i = j
  BY <1>1, <1>2 DEF Places
<1>6. \A k \in late : \E i \in Places(Tail(seq), e) : move[i] = k
  <2> SUFFICES ASSUME NEW k \in late PROVE k - 1 \in Places(Tail(seq), e) /\ (k - 1) + 1 = k
    OBVIOUS
  <2>1. k \in 2..Len(seq) /\ seq[k] = e
    BY <1>1 DEF Places
  <2> QED BY <1>1, <1>2, <2>1 DEF Places
<1>7. ExistsBijection(Places(Tail(seq), e), late)
  BY <1>4, <1>5, <1>6 DEF ExistsBijection, Bijection, Injection, Surjection, IsInjective
<1>8. Cardinality(late) = Cardinality(Places(Tail(seq), e))
  BY <1>3, <1>7, FS_Bijection
<1>9. Cardinality(late) = IF 1 \in Places(seq, e) THEN Cardinality(Places(seq, e)) - 1
                          ELSE Cardinality(Places(seq, e))
  BY <1>3, FS_RemoveElement
<1>10. 1 \in Places(seq, e) <=> Head(seq) = e
  BY <1>1 DEF Places
<1>11. /\ Count(seq, e) = Cardinality(Places(seq, e))
       /\ Count(Tail(seq), e) = Cardinality(Places(Tail(seq), e))
  BY DEF Places, Count
<1> QED BY <1>3, <1>8, <1>9, <1>10, <1>11

(***************************************************************************)
(* What HandleEvents does with one event and with two.                     *)
(***************************************************************************)
Quiet == Events \ DoneEvents

LEMMA EventNames ==
    /\ StatusEvents \subseteq Quiet /\ "output" \in Quiet /\ "error" \in Quiet
    /\ "suspended" \in Quiet /\ "output" \notin StatusEvents
    /\ \A r \in Results : Done[r] \in Events \cap DoneEvents /\ Done[r] # "output"
    /\ \A r, q \in Results : Done[r] = Done[q] => r = q
  BY DEF Quiet, Events, DoneEvents, StatusEvents, Results, Done

LEMMA OneEvent ==
    ASSUME NEW e \in Events, HandleEvents(<<e>>), emitted \in Seq(Events)
    PROVE  /\ emitted' = Append(emitted, e)
           /\ status' = IF e \in StatusEvents THEN e ELSE status
           /\ e \in Quiet => UNCHANGED <<result, waiter>>
<1>1. DOMAIN <<e>> = {1} /\ <<e>>[1] = e
  OBVIOUS
<1>2. emitted' = Append(emitted, e)
  BY AppendIsConcat DEF HandleEvents
<1>3. status' = IF e \in StatusEvents THEN e ELSE status
  <2>1. CASE e \in StatusEvents
    <3>1. {i \in DOMAIN <<e>> : <<e>>[i] \in StatusEvents} = {1}
      BY <1>1, <2>1
    <3>2. (CHOOSE i \in {1} : \A j \in {1} : j <= i) = 1
      OBVIOUS
    <3> QED BY <1>1, <2>1, <3>1, <3>2 DEF HandleEvents
  <2>2. CASE e \notin StatusEvents
    BY <1>1, <2>2 DEF HandleEvents
  <2> QED BY <2>1, <2>2
<1>4. ASSUME e \in Quiet PROVE UNCHANGED <<result, waiter>>
  <2>1. ToSet(<<e>>) = {e}
    BY <1>1 DEF ToSet
  <2>2. {r \in Results : Done[r] \in ToSet(<<e>>)} = {}
    BY <1>4, <2>1, EventNames DEF Quiet
  <2> QED BY <2>2 DEF HandleEvents
<1> QED BY <1>2, <1>3, <1>4

LEMMA TwoEvents ==
    ASSUME NEW d \in Quiet, NEW e \in Events, HandleEvents(<<d, e>>), emitted \in Seq(Events)
    PROVE  /\ emitted' = Append(Append(emitted, d), e)
           /\ status' = IF e \in StatusEvents THEN e
                        ELSE IF d \in StatusEvents THEN d ELSE status
           /\ e \in Quiet => UNCHANGED <<result, waiter>>
           /\ \A r \in Results : e = Done[r] =>
                result' = r /\ waiter' = IF waiter = "waiting" THEN r ELSE waiter
<1> DEFINE es == <<d, e>>
<1>1. DOMAIN es = {1, 2} /\ es[1] = d /\ es[2] = e /\ d \in Events
  BY DEF Quiet
<1>2. emitted' = Append(Append(emitted, d), e)
  <2>1. emitted' = emitted \o es
    BY DEF HandleEvents
  <2> QED BY <1>1, <2>1
<1>3. status' = IF e \in StatusEvents THEN e ELSE IF d \in StatusEvents THEN d ELSE status
  <2> DEFINE states == {i \in DOMAIN es : es[i] \in StatusEvents}
             top == CHOOSE i \in states : \A j \in states : j <= i
  <2>1. status' = IF states = {} THEN status ELSE es[top]
    BY DEF HandleEvents
  <2>2. states = (IF d \in StatusEvents THEN {1} ELSE {}) \cup
                 (IF e \in StatusEvents THEN {2} ELSE {})
    BY <1>1
  <2>3. CASE e \in StatusEvents
    <3>1. 2 \in states /\ \A j \in states : j <= 2
      BY <2>2, <2>3
    <3>2. top \in states /\ \A j \in states : j <= top
      BY <3>1
    <3>3. top = 2
      BY <2>2, <3>1, <3>2
    <3> QED BY <1>1, <2>1, <2>3, <3>1, <3>3
  <2>4. CASE e \notin StatusEvents /\ d \in StatusEvents
    <3>1. states = {1}
      BY <2>2, <2>4
    <3>2. top = 1
      BY <3>1
    <3> QED BY <1>1, <2>1, <2>4, <3>1, <3>2
  <2>5. CASE e \notin StatusEvents /\ d \notin StatusEvents
    BY <2>1, <2>2, <2>5
  <2> QED BY <2>3, <2>4, <2>5
<1> DEFINE dones == {r \in Results : Done[r] \in ToSet(es)}
<1>4. ToSet(es) = {d, e}
  BY <1>1 DEF ToSet
<1>5. /\ result' = IF dones = {} THEN result ELSE CHOOSE r \in dones : TRUE
      /\ waiter' = IF waiter = "waiting" /\ dones # {}
                   THEN CHOOSE r \in dones : TRUE ELSE waiter
  BY DEF HandleEvents
<1>6. dones = {r \in Results : Done[r] = e}
  BY <1>4, EventNames DEF Quiet
<1>7. e \in Quiet => UNCHANGED <<result, waiter>>
  <2>1. e \in Quiet => dones = {}
    BY <1>6, EventNames DEF Quiet
  <2> QED BY <1>5, <2>1
<1>8. ASSUME NEW r \in Results, e = Done[r]
      PROVE  result' = r /\ waiter' = IF waiter = "waiting" THEN r ELSE waiter
  <2>1. dones = {r}
    BY <1>6, <1>8, EventNames
  <2>2. (CHOOSE q \in {r} : TRUE) = r
    OBVIOUS
  <2> QED BY <1>5, <2>1, <2>2
<1> QED BY <1>2, <1>3, <1>7, <1>8

(***************************************************************************)
(* The invariant.                                                          *)
(***************************************************************************)
\* A run that waits at a pause holds an event back.
EventIsHeld == pc = "held" => queue # <<>>

\* Before the start there is nothing to say.
Unstarted == pc = "unstarted" => queue = <<>> /\ prompt = "none"

\* What the callers of wait() may know from the events es: result r, answer w.
Answered(es, r, w) ==
    LET ended == \E i \in DOMAIN es : es[i] \in DoneEvents
    IN  /\ ended <=> r # "none"
        /\ ended => w # "waiting"
        /\ \A q \in {r, w} \cap Results : \E i \in DOMAIN es : es[i] = Done[q]

SessionInv ==
    /\ TypeOK /\ EventIsHeld /\ Unstarted /\ followUps <= sent
    /\ Answered(emitted, result, waiter)
    /\ OutputIsConserved

LEMMA QuietAnswered ==
    ASSUME NEW es \in Seq(Events), NEW e \in Quiet, NEW r, NEW w, Answered(es, r, w)
    PROVE  Answered(Append(es, e), r, w)
<1> DEFINE fs == Append(es, e)
<1>1. /\ Len(es) \in Nat /\ DOMAIN es = 1..Len(es) /\ DOMAIN fs = 1..(Len(es) + 1)
      /\ \A i \in DOMAIN es : i \in DOMAIN fs /\ fs[i] = es[i]
      /\ \A i \in DOMAIN fs : i \in DOMAIN es \/ fs[i] = e
  BY DEF Quiet
<1>2. (\E i \in DOMAIN fs : fs[i] \in DoneEvents) <=> \E i \in DOMAIN es : es[i] \in DoneEvents
  BY <1>1 DEF Quiet
<1>3. \A x : (\E i \in DOMAIN es : es[i] = x) => \E i \in DOMAIN fs : fs[i] = x
  BY <1>1
<1> QED BY <1>2, <1>3 DEF Answered

LEMMA EndAnswered ==
    ASSUME NEW es \in Seq(Events), NEW q \in Results, NEW r, NEW w, Answered(es, r, w)
    PROVE  Answered(Append(es, Done[q]), q, IF w = "waiting" THEN q ELSE w)
<1> DEFINE fs == Append(es, Done[q])
           v == IF w = "waiting" THEN q ELSE w
<1>0. Done[q] \in Events \cap DoneEvents
  BY EventNames
<1>1. /\ Len(es) \in Nat /\ DOMAIN es = 1..Len(es) /\ DOMAIN fs = 1..(Len(es) + 1)
      /\ \A i \in DOMAIN es : i \in DOMAIN fs /\ fs[i] = es[i]
      /\ Len(es) + 1 \in DOMAIN fs /\ fs[Len(es) + 1] = Done[q]
  BY <1>0
<1>2. (\E i \in DOMAIN fs : fs[i] \in DoneEvents) /\ q # "none" /\ v # "waiting"
  BY <1>0, <1>1 DEF Results
<1>3. \A x \in {q, v} \cap Results : \E i \in DOMAIN fs : fs[i] = Done[x]
  BY <1>1 DEF Answered
<1> QED BY <1>2, <1>3 DEF Answered
LEMMA WaitAnswered ==
    ASSUME NEW es, NEW r \in Results \cup {"none"}, Answered(es, r, "none")
    PROVE  Answered(es, r, IF r = "none" THEN "waiting" ELSE r)
  BY DEF Answered, Results

LEMMA SessionInit == Init => SessionInv
<1> SUFFICES ASSUME Init PROVE SessionInv
  OBVIOUS
<1>1. held \in BOOLEAN /\ aborted \in BOOLEAN
  BY DEF Init
<1>2. TypeOK
  BY <1>1, SessionAssumption, EmptySeq DEF Init, TypeOK
<1>3. EventIsHeld /\ Unstarted /\ followUps <= sent
  BY DEF Init, EventIsHeld, Unstarted
<1>4. Answered(emitted, result, waiter)
  <2>1. DOMAIN emitted = {} /\ result = "none" /\ waiter = "none"
    BY DEF Init
  <2> QED BY <2>1 DEF Answered, Results
<1>5. OutputIsConserved
  BY CountEmpty DEF Init, OutputIsConserved
<1> QED BY <1>2, <1>3, <1>4, <1>5 DEF SessionInv

\* Nothing is said and nothing is queued.
LEMMA SilentKept ==
    ASSUME SessionInv, TypeOK', EventIsHeld', Unstarted', (followUps <= sent)',
           UNCHANGED <<emitted, result, waiter, queue, produced>>
    PROVE  SessionInv'
  BY DEF SessionInv, Answered, OutputIsConserved, Count

\* What the counts are numbers of.
LEMMA OutputNat ==
    ASSUME TypeOK
    PROVE  /\ Count(emitted, "output") \in Nat /\ Count(queue, "output") \in Nat
           /\ emitted \in Seq(Events) /\ queue \in Seq(Events)
<1>1. emitted \in Seq(Events) /\ queue \in Seq(Queued)
  BY DEF TypeOK, Queued
<1>2. queue \in Seq(Events)
  BY <1>1, SeqMonotonic DEF Queued, Events
<1> QED BY <1>1, <1>2, PlacesAreFinite

LEMMA WaitKept == ASSUME SessionInv, Wait PROVE SessionInv'
<1> USE DEF SessionInv, Wait
<1>1. TypeOK'
  BY DEF TypeOK, libraryVars
<1>2. Answered(emitted', result', waiter')
  BY WaitAnswered DEF TypeOK
<1>3. EventIsHeld' /\ Unstarted' /\ (followUps <= sent)' /\ OutputIsConserved'
  BY DEF EventIsHeld, Unstarted, OutputIsConserved, Count, libraryVars
<1> QED BY <1>1, <1>2, <1>3

LEMMA ProduceKept == ASSUME SessionInv, Produce PROVE SessionInv'
<1> USE DEF SessionInv, Produce, handleVars
<1>1. queue' = Append(queue, "output") /\ "output" \in Queued /\ queue \in Seq(Queued)
  BY DEF TypeOK, Queued
<1>2. queue' \in Seq(Queued) /\ queue' # <<>>
  BY <1>1, AppendProperties
<1>3. TypeOK'
  <2>1. produced' \in 0..MaxOutputs
    BY SessionAssumption DEF TypeOK
  <2> QED BY <1>2, <2>1 DEF TypeOK, Queued
<1>4. OutputIsConserved'
  <2>1. Count(queue', "output") = Count(queue, "output") + 1
    BY <1>1, CountAppend
  <2>2. Count(emitted', "output") = Count(emitted, "output")
    BY DEF Count
  <2> QED BY <2>1, <2>2, OutputNat DEF OutputIsConserved
<1>5. Answered(emitted', result', waiter')
  BY DEF Answered
<1> QED BY <1>2, <1>3, <1>4, <1>5 DEF EventIsHeld, Unstarted, Streaming

LEMMA LibraryKept ==
    ASSUME SessionInv,
           TakeFollowUp \/ \E how \in {"ok", "error", "bad"} : SettlePrompt(how)
    PROVE  SessionInv'
<1> USE DEF SessionInv, handleVars, libraryVars
<1>1. CASE TakeFollowUp
  <2>1. followUps' \in 0..MaxSends /\ followUps' <= sent
    BY <1>1, SessionAssumption DEF TakeFollowUp, TypeOK
  <2>2. TypeOK'
    BY <1>1, <2>1 DEF TakeFollowUp, TypeOK
  <2>3. UNCHANGED <<emitted, result, waiter, queue, produced, pc, sent, prompt>>
    BY <1>1 DEF TakeFollowUp
  <2> QED BY <2>1, <2>2, <2>3, SilentKept DEF EventIsHeld, Unstarted, Streaming
<1>2. CASE \E how \in {"ok", "error", "bad"} : SettlePrompt(how)
  <2>1. TypeOK'
    BY <1>2 DEF SettlePrompt, TypeOK
  <2>2. UNCHANGED <<emitted, result, waiter, queue, produced, pc, sent, followUps>>
    BY <1>2 DEF SettlePrompt
  <2>3. pc # "unstarted"
    BY <1>2 DEF SettlePrompt, Unstarted, Streaming
  <2> QED BY <2>1, <2>2, <2>3, SilentKept DEF EventIsHeld, Unstarted
<1> QED BY <1>1, <1>2

LEMMA CallsKept ==
    ASSUME SessionInv, NEW t \in ToolCall, Suspend(t) \/ Resolve(t)
    PROVE  SessionInv'
<1> USE DEF SessionInv, handleVars, libraryVars
<1>1. TypeOK'
  BY DEF Suspend, Resolve, TypeOK
<1>2. UNCHANGED <<emitted, result, waiter, queue, produced, pc, sent, followUps, prompt>>
  BY DEF Suspend, Resolve
<1> QED BY <1>1, <1>2, SilentKept DEF EventIsHeld, Unstarted, Streaming

LEMMA SendKept == ASSUME SessionInv, Send PROVE SessionInv'
<1> USE DEF SessionInv, Send, handleVars
<1>1. /\ sent' \in 0..MaxSends /\ followUps' \in 0..MaxSends /\ followUps' <= sent'
  BY SessionAssumption DEF TypeOK
<1>2. TypeOK'
  BY <1>1 DEF TypeOK
<1>3. UNCHANGED <<emitted, result, waiter, queue, produced, pc>>
  OBVIOUS
<1> QED BY <1>1, <1>2, <1>3, SilentKept DEF EventIsHeld, Unstarted, Streaming

LEMMA PauseKept == ASSUME SessionInv, Pause PROVE SessionInv'
<1> USE DEF SessionInv, Pause, libraryVars
<1>1. used' \in 0..MaxOperator
  BY SessionAssumption DEF TypeOK, Operate
<1>2. held' \in BOOLEAN
  BY DEF TypeOK
<1>3. TypeOK'
  BY <1>1, <1>2 DEF TypeOK
<1>4. UNCHANGED <<emitted, result, waiter, queue, produced, pc, sent, followUps>>
  OBVIOUS
<1> QED BY <1>3, <1>4, SilentKept DEF EventIsHeld, Unstarted, Streaming

\* What the handle makes of one event that is no end of the run.
LEMMA OneSaid ==
    ASSUME SessionInv, NEW e \in Quiet \ {"error", "suspended"}, HandleEvents(<<e>>)
    PROVE  /\ emitted' \in Seq(Events) /\ Answered(emitted', result', waiter')
           /\ status' = IF e = "output" THEN status ELSE e
           /\ UNCHANGED <<result, waiter>>
           /\ Count(emitted', "output") =
                 Count(emitted, "output") + (IF e = "output" THEN 1 ELSE 0)
<1>1. e \in Events /\ emitted \in Seq(Events)
  BY DEF Quiet, SessionInv, TypeOK
<1>2. emitted' = Append(emitted, e) /\ UNCHANGED <<result, waiter>>
  BY <1>1, OneEvent
<1>3. emitted' \in Seq(Events)
  BY <1>1, <1>2, AppendProperties
<1>4. Answered(emitted', result', waiter')
  BY <1>1, <1>2, QuietAnswered DEF SessionInv
<1>5. status' = IF e = "output" THEN status ELSE e
  <2>1. e \in StatusEvents <=> e # "output"
    BY DEF Quiet, Events, DoneEvents, StatusEvents, Results, Done
  <2> QED BY <1>1, <2>1, OneEvent
<1> QED BY <1>1, <1>2, <1>3, <1>4, <1>5, CountAppend
LEMMA StartKept ==
    ASSUME SessionInv, NEW message \in BOOLEAN, Start(message) PROVE SessionInv'
<1>1. /\ HandleEvents(<<"running">>) /\ "running" \in Quiet \ {"error", "suspended"}
      /\ pc = "unstarted" /\ pc' = "forwarding"
      /\ UNCHANGED <<held, pending, sent, echo, followUps, aborted, produced, used>>
  BY EventNames DEF Start, StatusEvents
<1>2. /\ emitted' \in Seq(Events) /\ Answered(emitted', result', waiter')
      /\ status' = "running" /\ UNCHANGED <<result, waiter>>
      /\ Count(emitted', "output") = Count(emitted, "output")
  BY <1>1, OneSaid, OutputNat DEF SessionInv
<1>3. /\ queue' \in Seq(Queued) /\ Count(queue', "output") = 0
  <2>1. <<>> \in Seq(Queued) /\ Count(<<>>, "output") = 0
    BY CountEmpty, EmptySeq
  <2>2. <<"running">> \in Seq(Queued)
    BY DEF Queued
  <2>3. Count(<<"running">>, "output") = 0
    <3>1. {i \in DOMAIN <<"running">> : <<"running">>[i] = "output"} = {}
      OBVIOUS
    <3> QED BY <3>1, FS_EmptySet DEF Count
  <2> QED BY <2>1, <2>2, <2>3 DEF Start
<1>4. TypeOK'
  <2>1. prompt' \in {"streaming", "ok"} /\ inst' = "running"
    BY DEF Start
  <2> QED BY <1>1, <1>2, <1>3, <2>1 DEF SessionInv, TypeOK, Queued
<1>5. OutputIsConserved'
  <2>1. queue = <<>>
    BY <1>1 DEF SessionInv, Unstarted
  <2> QED BY <1>1, <1>2, <1>3, <2>1, CountEmpty DEF SessionInv, OutputIsConserved
<1> QED BY <1>1, <1>2, <1>4, <1>5 DEF SessionInv, EventIsHeld, Unstarted

LEMMA ForwardKept == ASSUME SessionInv, Forward PROVE SessionInv'
<1>1. /\ pc = "forwarding" /\ queue # <<>>
      /\ UNCHANGED <<inst, held, pending, sent, echo, followUps, prompt, produced, aborted, used>>
  BY DEF Forward, libraryVars
<1>2. queue \in Seq(Queued)
  BY DEF SessionInv, TypeOK, Queued
<1>3. CASE held
  <2>1. /\ HandleEvents(<<"paused">>) /\ "paused" \in Quiet \ {"error", "suspended"}
        /\ pc' = "held" /\ UNCHANGED queue
    BY <1>3, EventNames DEF Forward, StatusEvents
  <2>2. /\ emitted' \in Seq(Events) /\ Answered(emitted', result', waiter')
        /\ status' = "paused" /\ UNCHANGED <<result, waiter>>
        /\ Count(emitted', "output") = Count(emitted, "output")
    BY <2>1, OneSaid, OutputNat DEF SessionInv
  <2>3. TypeOK'
    BY <1>1, <2>1, <2>2 DEF SessionInv, TypeOK
  <2>4. OutputIsConserved'
    BY <1>1, <2>1, <2>2 DEF SessionInv, OutputIsConserved, Count
  <2> QED BY <1>1, <2>1, <2>2, <2>3, <2>4 DEF SessionInv, EventIsHeld, Unstarted
<1>4. CASE ~held
  <2> DEFINE e == Head(queue)
  <2>1. /\ HandleEvents(<<e>>) /\ queue' = Tail(queue) /\ UNCHANGED pc
    BY <1>4 DEF Forward
  <2>2. e \in Queued /\ Tail(queue) \in Seq(Queued)
    BY <1>1, <1>2, HeadTailProperties
  <2>3. e \in Quiet \ {"error", "suspended"}
    BY <2>2, EventNames DEF Queued, StatusEvents
  <2>4. /\ emitted' \in Seq(Events) /\ Answered(emitted', result', waiter')
        /\ status' = (IF e = "output" THEN status ELSE e) /\ UNCHANGED <<result, waiter>>
        /\ Count(emitted', "output") =
              Count(emitted, "output") + (IF e = "output" THEN 1 ELSE 0)
    BY <2>1, <2>3, OneSaid
  <2>5. TypeOK'
    <3>1. status' \in {"initializing", "running", "paused", "waiting", "completed",
                       "terminated"}
      BY <2>2, <2>4 DEF SessionInv, TypeOK, Queued
    <3> QED BY <1>1, <2>1, <2>2, <2>4, <3>1 DEF SessionInv, TypeOK, Queued
  <2>6. OutputIsConserved'
    <3>1. Count(queue, "output") =
            Count(queue', "output") + (IF e = "output" THEN 1 ELSE 0)
      BY <1>1, <1>2, <2>1, CountTail
    <3>2. Count(queue', "output") \in Nat
      BY <2>1, <2>2, PlacesAreFinite
    <3> QED BY <1>1, <2>4, <3>1, <3>2, OutputNat DEF SessionInv, OutputIsConserved
  <2> QED BY <1>1, <2>1, <2>4, <2>5, <2>6 DEF SessionInv, EventIsHeld, Unstarted
<1> QED BY <1>3, <1>4

\* What the handle makes of two events, the second of which may be an end.
LEMMA TwoSaid ==
    ASSUME SessionInv, NEW d \in Quiet \ {"output"}, NEW e \in Events \ {"output"},
           HandleEvents(<<d, e>>)
    PROVE  /\ emitted' \in Seq(Events) /\ Answered(emitted', result', waiter')
           /\ result' \in Results \cup {"none"}
           /\ waiter' \in Results \cup {"none", "waiting"}
           /\ status' = IF e \in StatusEvents THEN e
                        ELSE IF d \in StatusEvents THEN d ELSE status
           /\ Count(emitted', "output") = Count(emitted, "output")
<1> DEFINE mid == Append(emitted, d)
<1>1. d \in Events /\ emitted \in Seq(Events) /\ Answered(emitted, result, waiter)
  BY DEF Quiet, SessionInv, TypeOK
<1>2. mid \in Seq(Events) /\ Answered(mid, result, waiter)
  BY <1>1, AppendProperties, QuietAnswered
<1>3. emitted' = Append(mid, e)
  BY <1>1, TwoEvents
<1>4. emitted' \in Seq(Events)
  BY <1>2, <1>3, AppendProperties
<1>5. /\ result' \in Results \cup {"none"} /\ waiter' \in Results \cup {"none", "waiting"}
      /\ Answered(emitted', result', waiter')
  <2>1. CASE e \in Quiet
    <3>1. UNCHANGED <<result, waiter>>
      BY <1>1, <2>1, TwoEvents
    <3>2. Answered(emitted', result, waiter)
      BY <1>2, <1>3, <2>1, QuietAnswered
    <3> QED BY <3>1, <3>2 DEF SessionInv, TypeOK
  <2>2. CASE e \notin Quiet
    <3>1. PICK q \in Results : e = Done[q]
      BY <2>2 DEF Quiet, DoneEvents
    <3>2. result' = q /\ waiter' = IF waiter = "waiting" THEN q ELSE waiter
      BY <1>1, <3>1, TwoEvents
    <3>3. Answered(emitted', result', waiter')
      BY <1>2, <1>3, <3>1, <3>2, EndAnswered
    <3> QED BY <3>2, <3>3 DEF SessionInv, TypeOK
  <2> QED BY <2>1, <2>2
<1>6. Count(emitted', "output") = Count(emitted, "output")
  <2>1. Count(mid, "output") = Count(emitted, "output")
    BY <1>1, CountAppend, OutputNat DEF SessionInv
  <2>2. Count(Append(mid, e), "output") = Count(mid, "output") + 0
    <3> HIDE DEF mid
    <3> QED BY <1>2, CountAppend
  <2> QED BY <1>3, <2>1, <2>2, OutputNat DEF SessionInv
<1> QED BY <1>1, <1>4, <1>5, <1>6, TwoEvents
LEMMA FinishKept == ASSUME SessionInv, Finish PROVE SessionInv'
<1>1. /\ pc' = "ended" /\ inst' \in {"failed", "waiting", "completed"}
      /\ UNCHANGED <<queue, held, pending, sent, followUps, prompt, produced, aborted, used>>
  BY DEF Finish, libraryVars
<1>7. echo' \in 0..MaxOutputs
  BY SessionAssumption DEF Finish, SessionInv, TypeOK
<1>2. PICK d \in {"error", "waiting", "completed"},
           e \in {"done:failed", "suspended", "done:completed"} : HandleEvents(<<d, e>>)
  BY DEF Finish
<1>3. /\ d \in Quiet \ {"output"} /\ e \in Events \ {"output"} /\ e \notin StatusEvents
      /\ d \in StatusEvents => d \in {"waiting", "completed"}
  BY EventNames DEF StatusEvents, Events, DoneEvents, Results, Done
<1>4. /\ emitted' \in Seq(Events) /\ Answered(emitted', result', waiter')
      /\ result' \in Results \cup {"none"} /\ waiter' \in Results \cup {"none", "waiting"}
      /\ status' \in {status, "waiting", "completed"}
      /\ Count(emitted', "output") = Count(emitted, "output")
  BY <1>2, <1>3, TwoSaid
<1>5. TypeOK'
  BY <1>1, <1>4, <1>7 DEF SessionInv, TypeOK
<1>6. OutputIsConserved'
  BY <1>1, <1>4 DEF SessionInv, OutputIsConserved, Count
<1> QED BY <1>1, <1>4, <1>5, <1>6 DEF SessionInv, EventIsHeld, Unstarted

LEMMA ResumeKept == ASSUME SessionInv, Resume PROVE SessionInv'
<1>1. /\ used' \in 0..MaxOperator /\ held' \in BOOLEAN
      /\ inst' \in {inst, "running"}
      /\ UNCHANGED <<pending, sent, echo, followUps, prompt, produced, aborted>>
  <2>1. used' \in 0..MaxOperator
    BY SessionAssumption DEF Resume, Operate, SessionInv, TypeOK
  <2>2. held' \in BOOLEAN
    BY DEF Resume, SessionInv, TypeOK
  <2> QED BY <2>1, <2>2 DEF Resume, libraryVars
<1>2. queue \in Seq(Queued)
  BY DEF SessionInv, TypeOK, Queued
<1>3. CASE pc = "held" /\ held
  <2> DEFINE e == Head(queue)
  <2>1. /\ HandleEvents(<<"running", e>>) /\ queue' = Tail(queue) /\ pc' = "forwarding"
    BY <1>3 DEF Resume
  <2>2. queue # <<>>
    BY <1>3 DEF SessionInv, EventIsHeld
  <2>3. e \in Queued /\ Tail(queue) \in Seq(Queued)
    BY <1>2, <2>2, HeadTailProperties
  <2>4. "running" \in Quiet \ {"error", "suspended"} /\ e \in Quiet \ {"error", "suspended"}
    BY <2>3, EventNames DEF Queued, StatusEvents
  <2>5. /\ emitted' = Append(Append(emitted, "running"), e)
        /\ status' = "running" /\ UNCHANGED <<result, waiter>>
    <3>1. emitted \in Seq(Events) /\ e \in Events /\ "running" \in StatusEvents
      BY <2>4 DEF SessionInv, TypeOK, Quiet, StatusEvents
    <3>2. e = "running" \/ e \notin StatusEvents
      BY <2>3, EventNames DEF Queued
    <3> QED BY <2>1, <2>4, <3>1, <3>2, TwoEvents
  <2> DEFINE mid == Append(emitted, "running")
  <2>6. mid \in Seq(Events) /\ Answered(mid, result, waiter)
    BY <2>4, QuietAnswered, AppendProperties DEF SessionInv, TypeOK, Quiet
  <2>7. emitted' \in Seq(Events) /\ Answered(emitted', result', waiter')
    BY <2>4, <2>5, <2>6, QuietAnswered, AppendProperties DEF Quiet
  <2>8. Count(mid, "output") = Count(emitted, "output") + 0
    BY <2>4, CountAppend DEF SessionInv, TypeOK, Quiet
  <2>9. Count(emitted', "output") = Count(mid, "output") + (IF e = "output" THEN 1 ELSE 0)
    <3>1. emitted' = Append(mid, e) /\ mid \in Seq(Events) /\ e \in Events
      BY <2>4, <2>5, <2>6 DEF Quiet
    <3> HIDE DEF mid, e
    <3> QED BY <3>1, CountAppend
  <2>10. Count(queue, "output") = Count(queue', "output") + (IF e = "output" THEN 1 ELSE 0)
    BY <1>2, <2>1, <2>2, CountTail
  <2>11. Count(queue', "output") \in Nat
    BY <2>1, <2>3, PlacesAreFinite
  <2>12. OutputIsConserved'
    <3> HIDE DEF e, mid
    <3> QED
      BY <1>1, <2>8, <2>9, <2>10, <2>11, OutputNat DEF SessionInv, OutputIsConserved
  <2>13. TypeOK'
    BY <1>1, <2>1, <2>3, <2>5, <2>7 DEF SessionInv, TypeOK, Queued
  <2> QED BY <1>1, <2>1, <2>7, <2>12, <2>13 DEF SessionInv, EventIsHeld, Unstarted
<1>4. CASE ~(pc = "held" /\ held)
  <2>1. status' = "running" /\ UNCHANGED <<result, waiter, emitted, pc, queue>>
    BY <1>4 DEF Resume
  <2>2. TypeOK'
    BY <1>1, <2>1 DEF SessionInv, TypeOK
  <2> QED BY <1>1, <2>1, <2>2, SilentKept DEF SessionInv, EventIsHeld, Unstarted
<1> QED BY <1>3, <1>4

LEMMA TerminateKept == ASSUME SessionInv, Terminate PROVE SessionInv'
<1>1. /\ emitted' = Append(emitted, Done["terminated"])
      /\ inst' = "aborted" /\ status' = "terminated" /\ result' = "terminated"
      /\ waiter' = IF waiter = "waiting" THEN "terminated" ELSE waiter
      /\ UNCHANGED <<pc, queue, held, pending, sent, echo, prompt, followUps, produced>>
  BY DEF Terminate, Done, Results
<1>2. used' \in 0..MaxOperator
  BY SessionAssumption DEF Terminate, Operate, SessionInv, TypeOK
<1>3. aborted' \in BOOLEAN
  BY DEF Terminate
<1>4. "terminated" \in Results /\ Done["terminated"] \in Events
      /\ Done["terminated"] # "output" /\ emitted \in Seq(Events)
  BY EventNames DEF Results, SessionInv, TypeOK
<1>5. emitted' \in Seq(Events) /\ Answered(emitted', result', waiter')
  BY <1>1, <1>4, EndAnswered, AppendProperties DEF SessionInv
<1>6. Count(emitted', "output") = Count(emitted, "output") + 0
  BY <1>1, <1>4, CountAppend
<1>7. TypeOK'
  BY <1>1, <1>2, <1>3, <1>4, <1>5 DEF SessionInv, TypeOK
<1>8. OutputIsConserved'
  <2>1. Count(queue', "output") = Count(queue, "output") /\ produced' = produced
    BY <1>1
  <2> QED BY <1>6, <2>1, OutputNat DEF SessionInv, OutputIsConserved
<1> QED BY <1>1, <1>5, <1>7, <1>8 DEF SessionInv, EventIsHeld, Unstarted

LEMMA SessionNext == ASSUME SessionInv, [Next]_vars PROVE SessionInv'
<1>1. CASE \E message \in BOOLEAN : Start(message)
  BY <1>1, StartKept
<1>2. CASE Library
  BY <1>2, ProduceKept, LibraryKept DEF Library
<1>3. CASE Forward \/ Finish
  BY <1>3, ForwardKept, FinishKept
<1>4. CASE Wait \/ Send \/ Pause \/ Resume \/ Terminate
  BY <1>4, WaitKept, SendKept, PauseKept, ResumeKept, TerminateKept
<1>5. CASE \E t \in ToolCall : Suspend(t) \/ Resolve(t)
  BY <1>5, CallsKept
<1>6. CASE UNCHANGED vars
  <2>1. TypeOK' /\ EventIsHeld' /\ Unstarted' /\ (followUps <= sent)'
    BY <1>6 DEF vars, handleVars, libraryVars, SessionInv, TypeOK, EventIsHeld, Unstarted
  <2> QED BY <1>6, <2>1, SilentKept DEF vars, handleVars, libraryVars
<1> QED BY <1>1, <1>2, <1>3, <1>4, <1>5, <1>6 DEF Next

THEOREM SessionInvariant == Spec => []SessionInv
<1>1. SessionInv /\ [Next]_vars => SessionInv'
  BY SessionNext
<1> QED BY <1>1, SessionInit, PTL DEF Spec

(***************************************************************************)
(* The properties.                                                         *)
(***************************************************************************)
\* Every variable has its type: an event of a run is one of those the subscribers know,
\* and what the library keeps in its follow-up queue was sent.
THEOREM TypesAreRight == Spec => []TypeOK
<1>1. SessionInv => TypeOK
  BY DEF SessionInv
<1> QED BY <1>1, SessionInvariant, PTL

\* What the model says reaches the subscribers once, however often the session is paused,
\* resumed, fed and terminated and however much it says.
THEOREM NoOutputIsLost == Spec => []OutputIsConserved
<1>1. SessionInv => OutputIsConserved
  BY DEF SessionInv
<1> QED BY <1>1, SessionInvariant, PTL

\* wait() is answered when a done event has been seen, with what one of them said.
THEOREM WaitersGetTheEnd == Spec => []WaitersAreAnswered
<1>1. SessionInv => WaitersAreAnswered
  BY DEF SessionInv, Answered, WaitersAreAnswered
<1> QED BY <1>1, SessionInvariant, PTL

\* Between pause() and resume() the subscribers get nothing that had not come through
\* before: no output, and a done event only of a run whose every output they have, which
\* then repeats what they have.
THEOREM PausesHold == Spec => PauseHoldsBack
<1> DEFINE NoOutput == Count(emitted', "output") = Count(emitted, "output")
           Repeats == echo' # echo => echo' <= Count(emitted, "output")
           Step == held /\ held' => NoOutput /\ Repeats
<1>1. SessionInv /\ [Next]_vars => [Step]_vars
  <2> SUFFICES ASSUME SessionInv, Next, held, held'
               PROVE  NoOutput /\ Repeats
    BY DEF vars
  <2>1. CASE emitted' = emitted /\ echo' = echo
    BY <2>1 DEF Count
  <2>2. ASSUME NEW message \in BOOLEAN, Start(message)
        PROVE  NoOutput /\ Repeats
    <3>1. HandleEvents(<<"running">>) /\ "running" \in Quiet \ {"error", "suspended"}
      BY <2>2, EventNames DEF Start, StatusEvents
    <3>2. echo' = echo
      BY <2>2 DEF Start
    <3> QED BY <3>1, <3>2, OneSaid, OutputNat DEF SessionInv
  <2>3. CASE Forward
    <3>1. HandleEvents(<<"paused">>) /\ "paused" \in Quiet \ {"error", "suspended"}
      BY <2>3, EventNames DEF Forward, StatusEvents
    <3>2. echo' = echo
      BY <2>3 DEF Forward
    <3> QED BY <3>1, <3>2, OneSaid, OutputNat DEF SessionInv
  <2>4. CASE Finish
    <3>1. PICK d \in {"error", "waiting", "completed"},
               e \in {"done:failed", "suspended", "done:completed"} : HandleEvents(<<d, e>>)
      BY <2>4 DEF Finish
    <3>2. d \in Quiet \ {"output"} /\ e \in Events \ {"output"}
      BY EventNames DEF StatusEvents, Events
    <3>3. NoOutput
      BY <3>1, <3>2, TwoSaid
    <3>4. Count(emitted, "output") = produced
      <4>1. Count(queue, "output") = 0
        BY <2>4, CountEmpty DEF Finish
      <4> QED BY <4>1, OutputNat DEF SessionInv, OutputIsConserved
    <3>5. echo' # echo => echo' \in 0..produced /\ produced \in Nat
      BY <2>4, SessionAssumption DEF Finish, SessionInv, TypeOK
    <3> QED BY <3>3, <3>4, <3>5
  <2>5. CASE Resume
    BY <2>5 DEF Resume
  <2>6. CASE Terminate
    <3>1. /\ emitted' = Append(emitted, Done["terminated"]) /\ emitted \in Seq(Events)
          /\ Done["terminated"] \in Events /\ Done["terminated"] # "output"
          /\ echo' = echo
      BY <2>6, EventNames DEF Terminate, Done, Results, SessionInv, TypeOK
    <3>2. Count(emitted', "output") = Count(emitted, "output") + 0
      BY <3>1, CountAppend
    <3> QED BY <3>1, <3>2, OutputNat DEF SessionInv
  <2> QED
    BY <2>1, <2>2, <2>3, <2>4, <2>5, <2>6
    DEF Next, Library, Produce, TakeFollowUp, SettlePrompt, Wait, Send, Pause, Suspend,
        Resolve, handleVars
<1> QED BY <1>1, SessionInvariant, PTL DEF Spec, PauseHoldsBack

(***************************************************************************)
(* The output that clients follow (AgentOutput).                           *)
(***************************************************************************)

\* A set of numbers has a least one.
LEMMA Least ==
    ASSUME NEW T, T \subseteq Nat, T # {}
    PROVE  \E m \in T : \A y \in T : m <= y
<1> DEFINE less == OpToRel(<, Nat)
<1>1. IsWellFoundedOn(less, Nat)
  BY NatLessThanWellFounded
<1>2. \E m \in T : \A y \in T : ~(<<y, m>> \in less)
  <2> HIDE DEF less
  <2> QED BY <1>1, WFMin
<1>3. \E m \in T : \A y \in T : ~(y < m)
  BY <1>2 DEF OpToRel
<1> QED
  BY <1>3

\* Induction from 0 to n over the set of the numbers that are as they should be.
LEMMA FromZero ==
    ASSUME NEW n \in Nat, NEW good, 0 \in good,
           \A k \in 1..n : k - 1 \in good => k \in good
    PROVE  0..n \subseteq good
<1> DEFINE bad == {k \in 0..n : k \notin good}
<1>1. SUFFICES ASSUME bad # {} PROVE FALSE
  OBVIOUS
<1>2. PICK m \in bad : \A y \in bad : m <= y
  <2>1. bad \subseteq Nat
    OBVIOUS
  <2> HIDE DEF bad
  <2> QED BY <1>1, <2>1, Least
<1>3. m \in 1..n /\ m - 1 \in 0..n /\ ~(m <= m - 1)
  OBVIOUS
<1>4. m - 1 \in good
  BY <1>2, <1>3
<1> QED
  BY <1>3, <1>4

(***************************************************************************)
(* Sequences that only go up.                                              *)
(***************************************************************************)
Increasing(s) == \A i, j \in DOMAIN s : i < j => s[i] < s[j]

LEMMA UpTo ==
    ASSUME NEW n \in Nat
    PROVE  IsFiniteSet(1..n) /\ Cardinality(1..n) = n
<1>1. 1 \in Int /\ n \in Int
  OBVIOUS
<1>2. IsFiniteSet(1..n) /\ Cardinality(1..n) = IF 1 > n THEN 0 ELSE n - 1 + 1
  BY <1>1, FS_Interval
<1> QED
  BY <1>2

LEMMA NthOfOne == ASSUME NEW x \in Nat PROVE Nth({x}, 1) = x
<1>1. {y \in {x} : y <= x} = {x}
  OBVIOUS
<1>2. Cardinality({x}) = 1
  BY FS_Singleton
<1> QED
  BY <1>1, <1>2 DEF Nth

LEMMA NthOfInterval ==
    ASSUME NEW n \in Nat, NEW i \in 1..n
    PROVE  Nth(1..n, i) = i
<1>1. ASSUME NEW x \in 1..n PROVE Cardinality({y \in 1..n : y <= x}) = x
  <2>1. {y \in 1..n : y <= x} = 1..x
    OBVIOUS
  <2>2. x \in Nat
    OBVIOUS
  <2> QED
    BY <2>1, <2>2, UpTo
<1>2. Cardinality({y \in 1..n : y <= i}) = i
  BY <1>1
<1> DEFINE P(x) == Cardinality({y \in 1..n : y <= x}) = i
<1>3. \A x \in 1..n : P(x) => x = i
  BY <1>1
<1>4. P(i)
  BY <1>2
<1>5. Nth(1..n, i) = CHOOSE x \in 1..n : P(x)
  BY DEF Nth
<1> HIDE DEF P
<1> QED
  BY <1>3, <1>4, <1>5

\* What goes up is sorted already.
LEMMA IncreasingIsOrdered ==
    ASSUME NEW s \in Seq(Nat), Increasing(s)
    PROVE  Ordered(s) = s
<1> DEFINE n == Len(s)
           P(i, x) == /\ Cardinality({j \in DOMAIN s : s[j] < x}) < i
                      /\ Cardinality({j \in DOMAIN s : s[j] <= x}) >= i
<1>1. n \in Nat /\ DOMAIN s = 1..n /\ \A i \in 1..n : s[i] \in Nat
  OBVIOUS
<1>2. ASSUME NEW p \in 1..n
      PROVE  /\ Cardinality({j \in DOMAIN s : s[j] < s[p]}) = p - 1
             /\ Cardinality({j \in DOMAIN s : s[j] <= s[p]}) = p
  <2>0. \A j \in 1..n : /\ s[j] < s[p] <=> j < p
                        /\ s[j] <= s[p] <=> j <= p
    <3> TAKE j \in 1..n
    <3>1. j < p => s[j] < s[p]
      BY <1>1 DEF Increasing
    <3>2. p < j => s[p] < s[j]
      BY <1>1 DEF Increasing
    <3>3. s[j] \in Nat /\ s[p] \in Nat /\ j \in Int /\ p \in Int
      BY <1>1
    <3> QED
      BY <3>1, <3>2, <3>3
  <2>1. {j \in DOMAIN s : s[j] < s[p]} = 1..(p - 1)
    BY <1>1, <2>0
  <2>2. {j \in DOMAIN s : s[j] <= s[p]} = 1..p
    BY <1>1, <2>0
  <2>3. p - 1 \in Nat /\ p \in Nat
    OBVIOUS
  <2> QED
    BY <2>1, <2>2, <2>3, UpTo
<1>3. ASSUME NEW i \in 1..n PROVE (CHOOSE x \in ToSet(s) : P(i, x)) = s[i]
  <2>1. P(i, s[i])
    <3>1. i \in 1..n /\ i - 1 < i /\ i >= i
      BY <1>1
    <3> QED
      BY <1>2, <3>1
  <2>2. s[i] \in ToSet(s)
    BY <1>1 DEF ToSet
  <2>3. \A x \in ToSet(s) : P(i, x) => x = s[i]
    <3> TAKE x \in ToSet(s)
    <3>1. PICK p \in 1..n : x = s[p]
      BY <1>1 DEF ToSet
    <3>2. P(i, x) => p - 1 < i /\ p >= i
      BY <1>2, <3>1
    <3> QED
      BY <3>1, <3>2
  <2> HIDE DEF P
  <2> QED
    BY <2>1, <2>2, <2>3
<1>4. Ordered(s) = [i \in 1..n |-> CHOOSE x \in ToSet(s) : P(i, x)]
  BY <1>1 DEF Ordered
<1>5. s = [i \in 1..n |-> s[i]]
  BY <1>1
<1> HIDE DEF P, n
<1> QED
  BY <1>3, <1>4, <1>5

\* It has as many elements as places.
LEMMA IncreasingSize ==
    ASSUME NEW s \in Seq(Nat), Increasing(s)
    PROVE  IsFiniteSet(ToSet(s)) /\ Cardinality(ToSet(s)) = Len(s)
<1> DEFINE n == Len(s)
<1>1. n \in Nat /\ DOMAIN s = 1..n /\ \A i \in 1..n : s[i] \in Nat
  OBVIOUS
<1>2. IsFiniteSet(1..n) /\ Cardinality(1..n) = n
  BY <1>1, UpTo
<1>3. \A i, j \in 1..n : s[i] = s[j] => i = j
  <2> SUFFICES ASSUME NEW i \in 1..n, NEW j \in 1..n, s[i] = s[j], i # j PROVE FALSE
    OBVIOUS
  <2>1. i < j \/ j < i
    OBVIOUS
  <2>2. s[i] < s[j] \/ s[j] < s[i]
    BY <1>1, <2>1 DEF Increasing
  <2> QED
    BY <1>1, <2>2
<1>4. s \in Bijection(1..n, ToSet(s))
  <2>1. s \in [1..n -> ToSet(s)]
    BY <1>1 DEF ToSet
  <2>2. \A x \in ToSet(s) : \E i \in 1..n : s[i] = x
    BY <1>1 DEF ToSet
  <2> QED
    BY <1>3, <2>1, <2>2 DEF Bijection, Injection, Surjection, IsInjective
<1>5. ExistsBijection(1..n, ToSet(s))
  BY <1>4 DEF ExistsBijection
<1> QED
  BY <1>2, <1>5, FS_Bijection

LEMMA IncreasingChain ==
    ASSUME NEW s \in Seq(Nat), Increasing(s), NEW t \in Seq(Nat), Increasing(t),
           \A x \in ToSet(s), y \in ToSet(t) : x < y
    PROVE  /\ s \o t \in Seq(Nat) /\ Increasing(s \o t)
           /\ ToSet(s \o t) = ToSet(s) \cup ToSet(t)
           /\ Len(s \o t) = Len(s) + Len(t)
<1> DEFINE r == s \o t  m == Len(s)  n == Len(t)
<1>1. /\ m \in Nat /\ n \in Nat /\ r \in Seq(Nat) /\ Len(r) = m + n
      /\ DOMAIN s = 1..m /\ DOMAIN t = 1..n /\ DOMAIN r = 1..(m + n)
  OBVIOUS
<1>2. /\ \A i \in 1..m : r[i] = s[i]
      /\ \A i \in (m + 1)..(m + n) : r[i] = t[i - m]
  OBVIOUS
<1>3. /\ \A i \in 1..m : s[i] \in ToSet(s)
      /\ \A i \in 1..n : t[i] \in ToSet(t)
  BY <1>1 DEF ToSet
<1> HIDE DEF r, m, n
<1>4. Increasing(r)
  <2> SUFFICES ASSUME NEW i \in 1..(m + n), NEW j \in 1..(m + n), i < j
               PROVE  r[i] < r[j]
    BY <1>1 DEF Increasing
  <2>1. CASE j <= m
    <3>1. i \in 1..m /\ j \in 1..m
      BY <1>1, <2>1
    <3> QED
      BY <1>1, <1>2, <3>1 DEF Increasing
  <2>2. CASE i > m
    <3>1. i \in (m + 1)..(m + n) /\ j \in (m + 1)..(m + n)
      BY <1>1, <2>2
    <3>2. i - m \in 1..n /\ j - m \in 1..n /\ i - m < j - m
      BY <1>1, <3>1
    <3>3. t[i - m] < t[j - m]
      BY <1>1, <3>2 DEF Increasing
    <3> QED
      BY <1>2, <3>1, <3>3
  <2>3. CASE i <= m /\ j > m
    <3>1. i \in 1..m /\ j \in (m + 1)..(m + n) /\ j - m \in 1..n
      BY <1>1, <2>3
    <3>2. s[i] < t[j - m]
      BY <1>3, <3>1
    <3> QED
      BY <1>2, <3>1, <3>2
  <2> QED
    BY <1>1, <2>1, <2>2, <2>3
<1>5. ToSet(r) \subseteq ToSet(s) \cup ToSet(t)
  <2> SUFFICES ASSUME NEW i \in 1..(m + n) PROVE r[i] \in ToSet(s) \cup ToSet(t)
    BY <1>1 DEF ToSet
  <2>1. CASE i <= m
    BY <1>1, <1>2, <1>3, <2>1
  <2>2. CASE i > m
    <3>1. i \in (m + 1)..(m + n) /\ i - m \in 1..n
      BY <1>1, <2>2
    <3> QED
      BY <1>2, <1>3, <3>1
  <2> QED
    BY <1>1, <2>1, <2>2
<1>6. ToSet(s) \subseteq ToSet(r)
  <2>1. \A i \in 1..m : i \in 1..(m + n)
    BY <1>1
  <2> QED
    BY <1>1, <1>2, <2>1 DEF ToSet
<1>7. ToSet(t) \subseteq ToSet(r)
  <2>1. \A i \in 1..n : i + m \in (m + 1)..(m + n) /\ (i + m) - m = i /\ i + m \in 1..(m + n)
    BY <1>1
  <2>2. \A i \in 1..n : r[i + m] = t[i]
    BY <1>2, <2>1
  <2>3. \A i \in 1..n : t[i] \in ToSet(r)
    BY <1>1, <2>1, <2>2 DEF ToSet
  <2> QED
    BY <1>1, <2>3 DEF ToSet
<1> QED
  BY <1>1, <1>4, <1>5, <1>6, <1>7 DEF r, m, n

LEMMA IncreasingAppend ==
    ASSUME NEW s \in Seq(Nat), Increasing(s), NEW k \in Nat,
           \A x \in ToSet(s) : x < k
    PROVE  /\ Append(s, k) \in Seq(Nat) /\ Increasing(Append(s, k))
           /\ ToSet(Append(s, k)) = ToSet(s) \cup {k}
           /\ Len(Append(s, k)) = Len(s) + 1
<1>1. <<k>> \in Seq(Nat) /\ Increasing(<<k>>) /\ Len(<<k>>) = 1
  BY DEF Increasing
<1>2. ToSet(<<k>>) = {k}
  BY DEF ToSet
<1>3. Append(s, k) = s \o <<k>>
  OBVIOUS
<1> QED
  BY <1>1, <1>2, <1>3, IncreasingChain

\* Without its first element, which is the least.
LEMMA IncreasingTail ==
    ASSUME NEW s \in Seq(Nat), Increasing(s), s # <<>>
    PROVE  /\ SubSeq(s, 2, Len(s)) \in Seq(Nat)
           /\ Len(SubSeq(s, 2, Len(s))) = Len(s) - 1
           /\ Increasing(SubSeq(s, 2, Len(s)))
           /\ ToSet(SubSeq(s, 2, Len(s))) = ToSet(s) \ {s[1]}
           /\ s[1] \in ToSet(s) /\ \A x \in ToSet(s) : s[1] <= x
<1> DEFINE n == Len(s)  r == SubSeq(s, 2, n)
<1>1. n \in Nat /\ n >= 1 /\ DOMAIN s = 1..n /\ \A i \in 1..n : s[i] \in Nat
  OBVIOUS
<1>2. /\ r \in Seq(Nat) /\ Len(r) = n - 1 /\ DOMAIN r = 1..(n - 1)
      /\ \A i \in 1..(n - 1) : r[i] = s[i + 1]
  BY <1>1
<1> HIDE DEF n, r
<1>3. Increasing(r)
  <2> SUFFICES ASSUME NEW i \in 1..(n - 1), NEW j \in 1..(n - 1), i < j PROVE r[i] < r[j]
    BY <1>2 DEF Increasing
  <2>1. i + 1 \in 1..n /\ j + 1 \in 1..n /\ i + 1 < j + 1
    BY <1>1
  <2> QED
    BY <1>1, <1>2, <2>1 DEF Increasing
<1>4. \A i \in 1..n : i # 1 => s[1] < s[i]
  <2>1. \A i \in 1..n : i # 1 => 1 < i /\ 1 \in 1..n
    BY <1>1
  <2> QED
    BY <1>1, <2>1 DEF Increasing
<1>5. ToSet(r) = {s[i + 1] : i \in 1..(n - 1)}
  BY <1>2 DEF ToSet
<1>6. ToSet(s) = {s[i] : i \in 1..n}
  BY <1>1 DEF ToSet
<1>7. \A i \in 1..n : i # 1 => i - 1 \in 1..(n - 1) /\ (i - 1) + 1 = i
  BY <1>1
<1>8. \A i \in 1..(n - 1) : i + 1 \in 1..n /\ i + 1 # 1
  BY <1>1
<1>9. ToSet(r) \subseteq ToSet(s) \ {s[1]}
  <2> SUFFICES ASSUME NEW i \in 1..(n - 1) PROVE s[i + 1] \in ToSet(s) /\ s[i + 1] # s[1]
    BY <1>5
  <2>1. s[1] < s[i + 1] /\ s[i + 1] \in Nat /\ s[1] \in Nat /\ s[i + 1] \in ToSet(s)
    BY <1>1, <1>4, <1>6, <1>8
  <2> QED
    BY <2>1
<1>10. ToSet(s) \ {s[1]} \subseteq ToSet(r)
  BY <1>5, <1>6, <1>7
<1>11. s[1] \in ToSet(s) /\ \A x \in ToSet(s) : s[1] <= x
  BY <1>1, <1>4, <1>6
<1> QED
  BY <1>2, <1>3, <1>9, <1>10, <1>11 DEF n, r

(***************************************************************************)
(* What the loop of writeOrderedRecords prints.                            *)
(***************************************************************************)
TailState == [pc : Stages,
              agent : Agent \cup {Absent},
              answer : Answer \cup {Absent},
              buffered : Seq(Note),
              last : 0..MaxRecords,
              printed : Seq(Sequence),
              completed : BOOLEAN]

WritingTo(t, s, n, f) ==
    f = [i \in 0..n |-> IF i = 0 THEN t ELSE WriteRecord(f[i - 1], s[i])]

LEMMA WritingExists ==
    ASSUME NEW t, NEW s, NEW n \in Nat
    PROVE  \E f : WritingTo(t, s, n, f)
<1> DEFINE good == {k \in Nat : \E f : WritingTo(t, s, k, f)}
<1>1. 0 \in good
  <2> DEFINE f == [i \in 0..0 |-> t]
  <2>1. f = [i \in 0..0 |-> IF i = 0 THEN t ELSE WriteRecord(f[i - 1], s[i])]
    OBVIOUS
  <2>2. WritingTo(t, s, 0, f)
    BY <2>1 DEF WritingTo
  <2> QED
    BY <2>2
<1>2. ASSUME NEW k \in 1..n, k - 1 \in good PROVE k \in good
  <2>1. PICK f : WritingTo(t, s, k - 1, f)
    BY <1>2
  <2> DEFINE next == WriteRecord(f[k - 1], s[k])
             g == [i \in 0..k |-> IF i = k THEN next ELSE f[i]]
  <2>2. \A i \in 0..(k - 1) : g[i] = f[i]
    BY SMT
  <2>3. g[k] = next
    BY SMT
  <2>4. \A i \in 0..k : g[i] = IF i = 0 THEN t ELSE WriteRecord(g[i - 1], s[i])
    <3> SUFFICES ASSUME NEW i \in 0..k
                 PROVE  g[i] = IF i = 0 THEN t ELSE WriteRecord(g[i - 1], s[i])
      OBVIOUS
    <3>1. CASE i = k
      <4>1. g[i - 1] = f[k - 1] /\ i # 0
        BY <2>2, <3>1
      <4> HIDE DEF g
      <4> QED
        BY <2>3, <3>1, <4>1
    <3>2. CASE i # k /\ i # 0
      <4>1. i \in 0..(k - 1) /\ i - 1 \in 0..(k - 1)
        BY <3>2
      <4>2. f[i] = WriteRecord(f[i - 1], s[i])
        BY <2>1, <3>2, <4>1 DEF WritingTo
      <4> HIDE DEF g
      <4> QED
        BY <2>2, <3>2, <4>1, <4>2
    <3>3. CASE i # k /\ i = 0
      <4>1. i \in 0..(k - 1)
        BY <3>3
      <4>2. f[i] = t
        BY <2>1, <3>3, <4>1 DEF WritingTo
      <4> HIDE DEF g
      <4> QED
        BY <2>2, <3>3, <4>1, <4>2
    <3> QED
      BY <3>1, <3>2, <3>3
  <2>5. g = [i \in 0..k |-> g[i]]
    OBVIOUS
  <2> HIDE DEF g
  <2>6. WritingTo(t, s, k, g)
    BY <2>4, <2>5 DEF WritingTo
  <2> QED
    BY <2>6
<1> HIDE DEF good
<1>3. 0..n \subseteq good
  BY <1>1, <1>2, FromZero
<1>4. n \in good
  BY <1>3
<1> QED
  BY <1>4 DEF good

\* A record above the last one is printed.
LEMMA WriteAbove ==
    ASSUME NEW t \in TailState, NEW k \in DOMAIN log, k > t.last,
           log \in Seq(Record), Len(log) <= MaxRecords, MaxRecords \in Nat
    PROVE  /\ WriteRecord(t, k) \in TailState
           /\ WriteRecord(t, k).pc = t.pc /\ WriteRecord(t, k).agent = t.agent
           /\ WriteRecord(t, k).answer = t.answer
           /\ WriteRecord(t, k).buffered = t.buffered
           /\ WriteRecord(t, k).last = k
           /\ WriteRecord(t, k).printed = Append(t.printed, k)
<1> DEFINE done == t.completed \/ log[k].final
           r == [t EXCEPT !.last = k, !.printed = Append(t.printed, k), !.completed = done]
<1>1. k \in Sequence /\ k \in 0..MaxRecords /\ log[k] \in Record
  BY DEF Sequence
<1>2. log[k].final \in BOOLEAN /\ t.completed \in BOOLEAN
  BY <1>1 DEF Record, TailState
<1>3. done \in BOOLEAN
  OBVIOUS
<1>4. ~(k <= t.last)
  BY <1>1 DEF TailState, Sequence
<1>5. WriteRecord(t, k) = r
  BY <1>4 DEF WriteRecord
<1>6. Append(t.printed, k) \in Seq(Sequence)
  BY <1>1 DEF TailState
<1> HIDE DEF done
<1>7. r \in TailState
  BY <1>1, <1>3, <1>6 DEF TailState
<1>8. r.pc = t.pc /\ r.agent = t.agent /\ r.answer = t.answer /\ r.buffered = t.buffered
      /\ r.last = k /\ r.printed = Append(t.printed, k)
  BY DEF TailState
<1> QED
  BY <1>5, <1>7, <1>8

\* Of records that go up, by a tail that has printed nothing, each is printed.
LEMMA WrittenIs ==
    ASSUME NEW t \in TailState, t.printed = <<>>, t.last = 0,
           NEW s \in Seq(Nat), Increasing(s), ToSet(s) \subseteq DOMAIN log,
           log \in Seq(Record), Len(log) <= MaxRecords, MaxRecords \in Nat
    PROVE  /\ Written(t, s) \in TailState
           /\ Written(t, s).pc = t.pc /\ Written(t, s).agent = t.agent
           /\ Written(t, s).answer = t.answer /\ Written(t, s).buffered = t.buffered
           /\ Written(t, s).last = IF s = <<>> THEN 0 ELSE s[Len(s)]
           /\ Written(t, s).printed = s
<1> DEFINE n == Len(s)
<1>1. n \in Nat /\ DOMAIN s = 1..n /\ \A i \in 1..n : s[i] \in Nat /\ s[i] \in DOMAIN log
  BY DEF ToSet
<1>2. PICK f : WritingTo(t, s, n, f) /\ Written(t, s) = f[n]
  <2> DEFINE after == CHOOSE f : WritingTo(t, s, n, f)
  <2>1. WritingTo(t, s, n, after)
    BY <1>1, WritingExists
  <2>2. Written(t, s) = after[n]
    BY DEF Written, WritingTo
  <2> QED
    BY <2>1, <2>2
<1> DEFINE Good(k) == /\ f[k] \in TailState
                      /\ f[k].pc = t.pc /\ f[k].agent = t.agent
                      /\ f[k].answer = t.answer /\ f[k].buffered = t.buffered
                      /\ f[k].last = IF k = 0 THEN 0 ELSE s[k]
                      /\ f[k].printed = SubSeq(s, 1, k)
           good == {k \in 0..n : Good(k)}
<1>3. 0 \in good
  <2>1. f[0] = t
    BY <1>1, <1>2 DEF WritingTo
  <2>2. SubSeq(s, 1, 0) = <<>>
    OBVIOUS
  <2>3. 0 \in 0..n
    BY <1>1
  <2> QED
    BY <2>1, <2>2, <2>3
<1>4. ASSUME NEW k \in 1..n, k - 1 \in good PROVE k \in good
  <2>1. f[k] = WriteRecord(f[k - 1], s[k])
    <3>1. k \in 0..n /\ k # 0
      BY <1>1
    <3> QED
      BY <1>2, <3>1 DEF WritingTo
  <2>2. Good(k - 1)
    BY <1>4
  <2> DEFINE u == f[k - 1]
  <2>3. u \in TailState /\ u.last = (IF k - 1 = 0 THEN 0 ELSE s[k - 1])
        /\ u.printed = SubSeq(s, 1, k - 1)
        /\ u.pc = t.pc /\ u.agent = t.agent /\ u.answer = t.answer /\ u.buffered = t.buffered
    BY <2>2
  <2> HIDE DEF u, Good, n
  <2>4. s[k] \in DOMAIN log /\ s[k] > u.last
    <3>1. k \in DOMAIN s /\ s[k] \in DOMAIN log /\ DOMAIN log \subseteq 1..Len(log)
      BY <1>1
    <3>2. CASE k = 1
      BY <2>3, <3>1, <3>2
    <3>3. CASE k # 1
      <4>1. k - 1 \in 1..n /\ k - 1 < k
        BY <1>1, <3>3
      <4>2. s[k - 1] < s[k]
        BY <1>1, <4>1 DEF Increasing
      <4>3. s[k - 1] \in Nat /\ s[k] \in Nat /\ u.last = s[k - 1]
        BY <1>1, <2>3, <3>3, <4>1
      <4> QED
        BY <3>1, <4>2, <4>3
    <3> QED
      BY <3>2, <3>3
  <2>5. /\ f[k] \in TailState
        /\ f[k].pc = u.pc /\ f[k].agent = u.agent /\ f[k].answer = u.answer
        /\ f[k].buffered = u.buffered
        /\ f[k].last = s[k] /\ f[k].printed = Append(u.printed, s[k])
    <3>1. f[k] = WriteRecord(u, s[k])
      BY <2>1 DEF u
    <3>2. u \in TailState /\ s[k] \in DOMAIN log /\ s[k] > u.last
      BY <2>3, <2>4
    <3>3. /\ WriteRecord(u, s[k]) \in TailState
          /\ WriteRecord(u, s[k]).pc = u.pc /\ WriteRecord(u, s[k]).agent = u.agent
          /\ WriteRecord(u, s[k]).answer = u.answer
          /\ WriteRecord(u, s[k]).buffered = u.buffered
          /\ WriteRecord(u, s[k]).last = s[k]
          /\ WriteRecord(u, s[k]).printed = Append(u.printed, s[k])
      BY <3>2, WriteAbove
    <3> QED
      BY <3>1, <3>3, Zenon
  <2>6. Append(SubSeq(s, 1, k - 1), s[k]) = SubSeq(s, 1, k)
    <3>1. k \in 1..Len(s)
      BY DEF n
    <3> QED
      BY <3>1
  <2>7. Good(k)
    BY <2>3, <2>5, <2>6 DEF Good
  <2>8. k \in 0..n
    BY <1>1
  <2> QED
    BY <2>7, <2>8
<1>5. Good(n)
  <2> HIDE DEF Good
  <2>1. 0..n \subseteq good
    <3> HIDE DEF good
    <3> QED
      BY <1>1, <1>3, <1>4, FromZero
  <2>2. n \in 0..n
    BY <1>1
  <2> QED
    BY <2>1, <2>2
<1>6. SubSeq(s, 1, n) = s
  OBVIOUS
<1>7. n = 0 <=> s = <<>>
  OBVIOUS
<1> QED
  BY <1>2, <1>5, <1>6, <1>7

(***************************************************************************)
(* The journal.                                                            *)
(***************************************************************************)
\* The records of an agent from k to n, and the newest Capacity of them up to n.
Window(a, k, n) == {j \in Of(a) : k <= j /\ j <= n}
Old(a, n) == {k \in Of(a) : k <= n /\ Cardinality(Window(a, k, n)) <= setup.capacity}

\* A journal holds the newest records of its agent, all of them while there is room.
JournalOf(a) ==
    LET s == journal[a]
    IN  /\ Increasing(s) /\ Len(s) <= setup.capacity
        /\ ToSet(s) \subseteq Of(a)
        /\ \A k \in ToSet(s), j \in Of(a) : k <= j => j \in ToSet(s)
        /\ Len(s) = setup.capacity \/ Of(a) \subseteq ToSet(s)

LEMMA OutputFacts ==
    ASSUME OutputTypeOK
    PROVE  /\ MaxRecords \in Nat /\ setup.agents \subseteq Agent /\ setup.clients \subseteq Client
           /\ setup.finals \subseteq BOOLEAN /\ setup.capacity \in Nat /\ setup.capacity > 0
           /\ setup.records \in 0..MaxRecords
           /\ IsFiniteSet(Client) /\ Cardinality(Client) \in Nat
           /\ log \in Seq(Record) /\ Len(log) \in 0..MaxRecords
           /\ \A a : Of(a) \subseteq 1..Len(log)
           /\ \A a : Of(a) \subseteq Sequence /\ Of(a) \subseteq DOMAIN log
<1>1. MaxRecords \in Nat /\ IsFiniteSet(Client)
  BY OutputAssumption
<1>2. setup \in [agents : SUBSET Agent, clients : SUBSET Client, finals : SUBSET BOOLEAN,
                 capacity : Nat \ {0}, records : 0..MaxRecords]
  BY OutputAssumption DEF OutputTypeOK
<1>3. log \in Seq(Record) /\ Len(log) <= MaxRecords
  BY DEF OutputTypeOK
<1>4. Len(log) \in 0..MaxRecords /\ DOMAIN log = 1..Len(log)
  BY <1>1, <1>3
<1>5. Cardinality(Client) \in Nat
  BY <1>1, FS_CardinalityType
<1>6. setup.capacity \in Nat /\ setup.capacity > 0
  BY <1>2
<1>7. \A a : Of(a) \subseteq 1..Len(log)
  BY <1>4 DEF Of
<1>8. 1..Len(log) \subseteq Sequence
  BY <1>1, <1>4 DEF Sequence
<1> QED
  BY <1>1, <1>2, <1>3, <1>4, <1>5, <1>6, <1>7, <1>8

\* The snapshot of subscribe.agent.output is the newest Capacity records.
LEMMA OldOfJournal ==
    ASSUME OutputTypeOK, NEW a \in Agent, JournalOf(a)
    PROVE  ToSet(journal[a]) = Old(a, Len(log))
<1> DEFINE s == journal[a]  n == Len(log)
<1>1. /\ n \in Nat /\ Of(a) \subseteq 1..n /\ setup.capacity \in Nat
      /\ s \in Seq(Sequence) /\ MaxRecords \in Nat
  BY OutputFacts DEF OutputTypeOK
<1>2. Sequence \subseteq Nat
  BY <1>1 DEF Sequence
<1>3. s \in Seq(Nat)
  <2> HIDE DEF s
  <2> QED
    BY <1>1, <1>2, SeqMonotonic
<1>4. /\ Increasing(s) /\ Len(s) <= setup.capacity
      /\ ToSet(s) \subseteq Of(a)
      /\ \A k \in ToSet(s), j \in Of(a) : k <= j => j \in ToSet(s)
      /\ Len(s) = setup.capacity \/ Of(a) \subseteq ToSet(s)
  BY DEF JournalOf
<1> HIDE DEF s, n
<1>5. IsFiniteSet(ToSet(s)) /\ Cardinality(ToSet(s)) = Len(s) /\ Len(s) \in Nat
  BY <1>3, <1>4, IncreasingSize
<1>6. ASSUME NEW k \in ToSet(s) PROVE k \in Old(a, n)
  <2>1. Window(a, k, n) \subseteq ToSet(s)
    BY <1>4, <1>6 DEF Window
  <2>2. Cardinality(Window(a, k, n)) <= Len(s) /\ IsFiniteSet(Window(a, k, n))
    BY <1>5, <2>1, FS_Subset
  <2>3. Cardinality(Window(a, k, n)) \in Nat
    BY <2>2, FS_CardinalityType
  <2>4. k \in Of(a) /\ k <= n
    BY <1>1, <1>4, <1>6
  <2>5. Cardinality(Window(a, k, n)) <= setup.capacity
    BY <1>1, <1>4, <1>5, <2>2, <2>3
  <2> QED
    BY <2>4, <2>5 DEF Old
<1>7. ASSUME NEW k \in Old(a, n), k \notin ToSet(s) PROVE FALSE
  <2>1. k \in Of(a) /\ k <= n /\ Cardinality(Window(a, k, n)) <= setup.capacity
    BY DEF Old
  <2>2. Len(s) = setup.capacity
    BY <1>4, <1>7, <2>1
  <2>3. \A x \in ToSet(s) : x \in Of(a) /\ k <= x /\ x <= n
    <3> SUFFICES ASSUME NEW x \in ToSet(s) PROVE x \in Of(a) /\ k <= x /\ x <= n
      OBVIOUS
    <3>1. x \in Of(a) /\ x \in 1..n /\ k \in 1..n
      BY <1>1, <1>4, <2>1
    <3>2. ~(x <= k)
      BY <1>4, <1>7, <2>1
    <3> QED
      BY <1>1, <3>1, <3>2
  <2>4. ToSet(s) \cup {k} \subseteq Window(a, k, n)
    <3>1. k <= k
      BY <1>1, <2>1
    <3> QED
      BY <2>1, <2>3, <3>1 DEF Window
  <2>5. IsFiniteSet(ToSet(s) \cup {k}) /\ Cardinality(ToSet(s) \cup {k}) = Len(s) + 1
    BY <1>5, <1>7, FS_AddElement
  <2>6. IsFiniteSet(1..n)
    BY <1>1, UpTo
  <2>7. Window(a, k, n) \subseteq 1..n
    BY <1>1 DEF Window
  <2>8. IsFiniteSet(Window(a, k, n)) /\ Cardinality(Window(a, k, n)) \in Nat
    BY <2>6, <2>7, FS_Subset, FS_CardinalityType
  <2>9. Len(s) + 1 <= Cardinality(Window(a, k, n))
    BY <2>4, <2>5, <2>8, FS_Subset
  <2> QED
    BY <1>1, <1>5, <2>1, <2>2, <2>8, <2>9
<1> QED
  BY <1>6, <1>7 DEF s, n

\* What a record adds, and what it leaves as it was.
LEMMA LogGrows ==
    ASSUME OutputTypeOK, NEW a \in setup.agents, NEW final \in setup.finals, Publish(a, final)
    PROVE  /\ Len(log) + 1 \in 1..MaxRecords
           /\ log' \in Seq(Record) /\ Len(log') = Len(log) + 1
           /\ \A b : Of(b)' = IF b = a THEN Of(b) \cup {Len(log) + 1} ELSE Of(b)
           /\ setup' = setup
           /\ \A b : \A n \in 0..Len(log) : Old(b, n)' = Old(b, n)
<1> DEFINE k == Len(log) + 1
<1>1. /\ MaxRecords \in Nat /\ setup.agents \subseteq Agent /\ setup.finals \subseteq BOOLEAN
      /\ setup.records \in 0..MaxRecords /\ log \in Seq(Record) /\ Len(log) \in 0..MaxRecords
      /\ \A b : Of(b) \subseteq 1..Len(log)
  BY OutputFacts
<1>2. k <= setup.records /\ log' = Append(log, [agent |-> a, final |-> final]) /\ setup' = setup
  BY DEF Publish, history
<1>3. [agent |-> a, final |-> final] \in Record
  BY <1>1 DEF Record
<1>4. log' \in Seq(Record) /\ Len(log') = k /\ k \in 1..MaxRecords
  BY <1>1, <1>2, <1>3
<1>5. /\ DOMAIN log = 1..Len(log) /\ DOMAIN log' = 1..k
      /\ \A j \in 1..Len(log) : log'[j] = log[j]
      /\ log'[k].agent = a
  BY <1>1, <1>2, <1>4
<1>6. ASSUME NEW b
      PROVE  Of(b)' = IF b = a THEN Of(b) \cup {k} ELSE Of(b)
  <2>1. Of(b) = {j \in 1..Len(log) : log[j].agent = b}
    BY <1>5 DEF Of
  <2>2. Of(b)' = {j \in 1..k : log'[j].agent = b}
    BY <1>5 DEF Of
  <2>3. \A j \in 1..k : j = k \/ j \in 1..Len(log)
    BY <1>1
  <2>4. \A j \in 1..Len(log) : j \in 1..k
    BY <1>1
  <2>5. k \in 1..k
    BY <1>1
  <2> HIDE DEF k
  <2>6. Of(b)' \subseteq IF b = a THEN Of(b) \cup {k} ELSE Of(b)
    BY <1>5, <2>1, <2>2, <2>3
  <2>7. (IF b = a THEN Of(b) \cup {k} ELSE Of(b)) \subseteq Of(b)'
    BY <1>5, <2>1, <2>2, <2>4, <2>5
  <2> QED
    BY <2>6, <2>7
<1>7. ASSUME NEW b, NEW n \in 0..Len(log) PROVE Old(b, n)' = Old(b, n)
  <2>1. \A j : j <= n /\ j \in Of(b)' => j \in Of(b)
    BY <1>1, <1>6
  <2>2. \A j : j \in Of(b) => j \in Of(b)'
    BY <1>6
  <2>3. \A j : Window(b, j, n)' = Window(b, j, n)
    BY <2>1, <2>2 DEF Window
  <2> QED
    BY <1>2, <2>1, <2>2, <2>3 DEF Old
<1> QED
  BY <1>2, <1>4, <1>6, <1>7

\* append() keeps the newest.
LEMMA JournalGrows ==
    ASSUME OutputTypeOK, NEW a \in setup.agents, NEW final \in setup.finals, Publish(a, final),
           NEW b \in Agent, JournalOf(b)
    PROVE  JournalOf(b)' /\ journal'[b] \in Seq(Sequence)
<1> DEFINE s == journal[b]  k == Len(log) + 1  c == setup.capacity
<1>1. /\ k \in 1..MaxRecords /\ setup' = setup
      /\ Of(b)' = IF b = a THEN Of(b) \cup {k} ELSE Of(b)
  BY LogGrows
<1>2. /\ MaxRecords \in Nat /\ c \in Nat /\ c > 0 /\ Of(b) \subseteq 1..Len(log) /\ a \in Agent
      /\ journal \in [Agent -> Seq(Sequence)] /\ s \in Seq(Sequence) /\ Len(log) \in Nat
  <2>1. /\ MaxRecords \in Nat /\ setup.capacity \in Nat /\ setup.capacity > 0
        /\ setup.agents \subseteq Agent /\ Len(log) \in 0..MaxRecords
        /\ Of(b) \subseteq 1..Len(log)
    BY OutputFacts
  <2>2. journal \in [Agent -> Seq(Sequence)]
    BY DEF OutputTypeOK
  <2> QED
    BY <2>1, <2>2
<1>3. journal' = [journal EXCEPT ![a] = Retained(Append(journal[a], k))]
  BY DEF Publish
<1>4. /\ Increasing(s) /\ Len(s) <= c /\ ToSet(s) \subseteq Of(b)
      /\ \A x \in ToSet(s), j \in Of(b) : x <= j => j \in ToSet(s)
      /\ Len(s) = c \/ Of(b) \subseteq ToSet(s)
  BY DEF JournalOf
<1>5. CASE b # a
  <2>1. journal'[b] = s
    BY <1>2, <1>3, <1>5
  <2> QED
    BY <1>1, <1>2, <1>4, <1>5, <2>1 DEF JournalOf
<1>6. CASE b = a
  <2> DEFINE r == Append(s, k)
  <2>1. journal'[b] = Retained(r) /\ Of(b)' = Of(b) \cup {k}
    BY <1>1, <1>2, <1>3, <1>6
  <2>2. s \in Seq(Nat) /\ k \in Nat /\ \A x \in ToSet(s) : x \in Nat /\ x < k
    <3>1. Sequence \subseteq Nat
      BY <1>2 DEF Sequence
    <3>2. \A x \in Of(b) : x \in Nat /\ x < k
      BY <1>2
    <3>3. s \in Seq(Nat)
      <4> HIDE DEF s
      <4> QED
        BY <1>2, <3>1, SeqMonotonic
    <3> HIDE DEF s, k
    <3>4. k \in Nat
      BY <1>2 DEF k
    <3> QED
      BY <1>4, <3>2, <3>3, <3>4
  <2>3. /\ r \in Seq(Nat) /\ Increasing(r) /\ ToSet(r) = ToSet(s) \cup {k}
        /\ Len(r) = Len(s) + 1
    <3> HIDE DEF s, k
    <3> QED
      BY <1>4, <2>2, IncreasingAppend
  <2>4. r \in Seq(Sequence) /\ r # <<>> /\ Len(s) \in Nat
    <3>1. k \in Sequence
      BY <1>1 DEF Sequence
    <3> HIDE DEF s, k
    <3> QED
      BY <1>2, <3>1, AppendProperties, LenProperties
  <2>5. CASE Len(s) + 1 <= c
    <3>1. Retained(r) = r
      BY <1>2, <2>3, <2>4, <2>5 DEF Retained
    <3>2. Len(s) # c
      BY <1>2, <2>4, <2>5
    <3> HIDE DEF r, s, k, c
    <3>3. ToSet(r) = Of(b)'
      BY <1>4, <2>1, <2>3, <3>2
    <3> QED
      BY <1>1, <2>1, <2>3, <2>4, <2>5, <3>1, <3>3 DEF JournalOf, c
  <2>6. CASE Len(s) + 1 > c
    <3>1. Len(s) = c /\ Len(r) = c + 1 /\ Len(r) - setup.capacity + 1 = 2
      BY <1>2, <1>4, <2>3, <2>4, <2>6
    <3>2. Retained(r) = SubSeq(r, 2, Len(r))
      <4>1. Len(r) > setup.capacity
        BY <1>2, <3>1
      <4> HIDE DEF r
      <4>2. Retained(r) = SubSeq(r, Len(r) - setup.capacity + 1, Len(r))
        BY <4>1 DEF Retained
      <4> QED
        BY <3>1, <4>2
    <3> DEFINE q == SubSeq(r, 2, Len(r))
    <3> HIDE DEF r
    <3>3. /\ q \in Seq(Nat) /\ Increasing(q) /\ ToSet(q) = ToSet(r) \ {r[1]}
          /\ Len(q) = Len(r) - 1 /\ r[1] \in ToSet(r) /\ \A x \in ToSet(r) : r[1] <= x
      BY <2>3, <2>4, IncreasingTail
    <3>4. q \in Seq(Sequence)
      <4>1. Len(r) \in Nat /\ 2 \in 1..(Len(r) + 1) /\ DOMAIN r = 1..Len(r)
        BY <1>2, <2>4, <3>1
      <4>2. \A i \in 2..Len(r) : r[i] \in Sequence
        BY <2>4, <4>1
      <4> QED
        BY <2>4, <4>1, <4>2
    <3>5. Len(q) = c
      BY <1>2, <3>1, <3>3
    <3>6. ToSet(q) \subseteq Of(b)'
      BY <1>4, <2>1, <2>3, <3>3
    <3>7. \A x \in ToSet(q), j \in Of(b)' : x <= j => j \in ToSet(q)
      <4> SUFFICES ASSUME NEW x \in ToSet(q), NEW j \in Of(b)', x <= j
                   PROVE  j \in ToSet(q)
        OBVIOUS
      <4> HIDE DEF q, s, k
      <4>1. x \in ToSet(r) /\ x # r[1] /\ r[1] <= x
        BY <3>3
      <4>2. x \in Nat /\ r[1] \in Nat
        <5>1. \A y \in ToSet(r) : y \in Nat
          BY <2>2, <2>3
        <5> QED
          BY <3>3, <4>1, <5>1
      <4>3. j # r[1]
        BY <4>1, <4>2
      <4>4. j \in ToSet(r)
        <5>1. CASE j = k
          BY <2>3, <5>1
        <5>2. CASE j # k
          <6>1. j \in Of(b)
            BY <2>1, <5>2
          <6>2. j < k
            BY <1>2, <6>1 DEF k
          <6>3. x # k
            <7>1. j \in Nat /\ k \in Nat
              BY <1>2, <2>2, <6>1
            <7> QED
              BY <6>2, <7>1
          <6>4. x \in ToSet(s)
            BY <2>3, <4>1, <6>3
          <6> QED
            BY <1>4, <2>3, <6>1, <6>4
        <5> QED
          BY <5>1, <5>2
      <4> QED
        BY <3>3, <4>3, <4>4
    <3> HIDE DEF q
    <3>8. journal'[b] = q
      BY <2>1, <3>2 DEF q
    <3> QED
      BY <1>1, <1>2, <3>3, <3>4, <3>5, <3>6, <3>7, <3>8 DEF JournalOf
  <2> QED
    BY <1>2, <2>4, <2>5, <2>6
<1> QED
  BY <1>5, <1>6

(***************************************************************************)
(* The invariant.                                                          *)
(***************************************************************************)
IsAnswer(m) == "events" \in DOMAIN m

Stored == {i \in Ids : subscriptions[i] # Absent}
SubsOf(c) == {i \in Stored : subscriptions[i].conn = c}

\* The places of the notifications on a socket, and the answers of a connection.
Notes(c) == {j \in DOMAIN wire[c] : ~IsAnswer(wire[c][j])}
Answers(c) ==
    {wire[c][j] : j \in DOMAIN wire[c] \ Notes(c)}
        \cup ({reply[c], tail[c].answer} \ {Absent})

\* The subscription ids that are a connection's, wherever they are named.
IdsOf(c) ==
    SubsOf(c) \cup {wire[c][j].sub : j \in DOMAIN wire[c]}
              \cup {tail[c].buffered[j].sub : j \in DOMAIN tail[c].buffered}
              \cup {m.sub : m \in Answers(c)}

\* What a tail has received, or will, of the records since it was subscribed.
OnTheWire(c) == {wire[c][j].sequence : j \in Notes(c)}
Buffered(c) == {tail[c].buffered[j].sequence : j \in DOMAIN tail[c].buffered}
Sent(c) == OnTheWire(c) \cup Buffered(c) \cup {k \in ToSet(tail[c].printed) : k > joined[c]}

\* A tail that has not been subscribed, and the ones that have.
Fresh(c) == tail[c].pc = "idle" \/ request[c].method = "subscribe"
SubscribedOnce == {c \in Client : ~Fresh(c)}

\* The indexes name the stored subscriptions, whose connections are open.
Indexed ==
    /\ byType = Stored
    /\ \A c \in Client : byConnection[c] = SubsOf(c)
    /\ \A i \in Stored : subscriptions[i].conn \in open

\* Ids are not used twice, and there is one for every tail.
Counted ==
    /\ nextId <= Cardinality(SubscribedOnce) + 1
    /\ \A i \in Stored : /\ i < nextId
                         /\ subscriptions[i].agent = tail[subscriptions[i].conn].agent

OneId(c) == \A i, j \in IdsOf(c) : i = j

\* The stages of a tail, and what its connection carries in them.
Connections(c) ==
    /\ tail[c].pc = "idle" => c \notin open
    /\ tail[c].pc # "idle" => tail[c].agent \in Agent
    /\ request[c].method # "none" => c \in open
    /\ reply[c] # Absent => c \in open
    /\ request[c].method = "subscribe" =>
          request[c].agent = tail[c].agent /\ tail[c].pc \in {"subscribing", "closing", "gone"}
    /\ request[c].method = "unsubscribe" => tail[c].pc \in {"unsubscribing", "gone"}
    /\ Fresh(c) => IdsOf(c) = {} /\ tail[c].printed = <<>> /\ tail[c].last = 0
    /\ tail[c].pc \in {"idle", "subscribing", "answered"} =>
          tail[c].printed = <<>> /\ tail[c].last = 0
    /\ tail[c].pc \in {"answered", "following", "unsubscribing"} => tail[c].answer # Absent
    /\ joined[c] <= Len(log) /\ tail[c].last <= Len(log)

\* An answer holds what the journal held, of a subscription that stays.
AnswersAre(c) ==
    \A m \in Answers(c) :
        /\ Increasing(m.events) /\ ToSet(m.events) = Old(tail[c].agent, joined[c])
        /\ c \in open /\ tail[c].pc \in Tailing => m.sub \in SubsOf(c)

\* The records since the subscription are on their way, in order and without a gap.
NoGap(c) ==
    /\ \A k \in Sent(c) :
          /\ k \in Of(tail[c].agent) /\ k > joined[c]
          /\ \A j \in Of(tail[c].agent) : joined[c] < j /\ j < k => j \in Sent(c)
    /\ SubsOf(c) # {} => \A k \in Of(tail[c].agent) : k > joined[c] => k \in Sent(c)
InOrder(c) ==
    /\ \A i, j \in Notes(c) : i < j => wire[c][i].sequence < wire[c][j].sequence
    /\ \A i, j \in DOMAIN tail[c].buffered :
          i < j => tail[c].buffered[i].sequence < tail[c].buffered[j].sequence
    /\ \A k \in Buffered(c), j \in OnTheWire(c) : k < j
    /\ tail[c].pc = "following" =>
          tail[c].buffered = <<>> /\ \A j \in OnTheWire(c) : tail[c].last < j
LiveRecords(c) == tail[c].pc \in Tailing => NoGap(c) /\ InOrder(c)

\* What is printed.
PrintedRecords(c) ==
    /\ Increasing(tail[c].printed)
    /\ ToSet(tail[c].printed) = Due(tail[c].agent, joined[c], tail[c].last)
    /\ tail[c].pc = "following" => Old(tail[c].agent, joined[c]) \subseteq ToSet(tail[c].printed)

PerClient(c) ==
    Connections(c) /\ OneId(c) /\ AnswersAre(c) /\ LiveRecords(c) /\ PrintedRecords(c)

OutputInv ==
    /\ OutputTypeOK
    /\ \A a \in Agent : JournalOf(a)
    /\ Indexed /\ Counted
    /\ \A c \in Client : PerClient(c)

LEMMA Kinds ==
    /\ \A m \in Answer : IsAnswer(m) /\ m.sub \in Ids /\ m.events \in Seq(Sequence)
    /\ \A m \in Note : ~IsAnswer(m) /\ m.sub \in Ids /\ m.sequence \in Sequence
    /\ Absent \notin Answer
    /\ \A c \in Client, a \in Agent : [conn |-> c, agent |-> a] # Absent
<1>1. \A m \in Answer : DOMAIN m = {"sub", "events"} /\ m.sub \in Ids /\ m.events \in Seq(Sequence)
  BY DEF Answer
<1>2. \A m \in Note : DOMAIN m = {"sub", "sequence"} /\ m.sub \in Ids /\ m.sequence \in Sequence
  BY DEF Note
<1>3. Absent \notin Answer
  <2>1. Ids \subseteq Nat /\ Sequence \subseteq Nat
    <3>1. MaxRecords \in Nat /\ Cardinality(Client) \in Nat
      BY OutputAssumption, FS_CardinalityType
    <3> QED
      BY <3>1 DEF Ids, Sequence
  <2>2. ASSUME NEW m \in Answer PROVE m \in [sub : Nat, events : Seq(Nat)]
    <3>1. m.events \in Seq(Nat)
      BY <1>1, <2>1, SeqMonotonic
    <3> QED
      BY <2>1, <3>1 DEF Answer
  <2> QED
    BY <2>2, OutputAssumption
<1>4. \A c \in Client, a \in Agent : [conn |-> c, agent |-> a] # Absent
  BY OutputAssumption
<1>5. "events" \notin {"sub", "sequence"} /\ "events" \in {"sub", "events"}
  OBVIOUS
<1> QED
  BY <1>1, <1>2, <1>3, <1>4, <1>5 DEF IsAnswer

\* What is on a socket is an answer or a notification.
LEMMA OnASocket ==
    ASSUME OutputTypeOK, NEW c \in Client
    PROVE  /\ wire[c] \in Seq(Answer \cup Note)
           /\ \A j \in DOMAIN wire[c] :
                 /\ j \in Notes(c) => wire[c][j] \in Note
                 /\ j \notin Notes(c) => wire[c][j] \in Answer
           /\ Answers(c) \subseteq Answer
           /\ tail[c] \in TailState
           /\ \A j \in DOMAIN tail[c].buffered : tail[c].buffered[j] \in Note
           /\ Buffered(c) \subseteq Sequence /\ OnTheWire(c) \subseteq Sequence
<1>1. wire[c] \in Seq(Answer \cup Note)
  BY DEF OutputTypeOK
<1>2. \A j \in DOMAIN wire[c] : wire[c][j] \in Answer \cup Note
  BY <1>1
<1>3. \A j \in DOMAIN wire[c] : /\ j \in Notes(c) => wire[c][j] \in Note
                                /\ j \notin Notes(c) => wire[c][j] \in Answer
  BY <1>2, Kinds DEF Notes
<1>4. tail[c] \in TailState /\ reply[c] \in Answer \cup {Absent}
  BY DEF OutputTypeOK, TailState
<1>5. tail[c].answer \in Answer \cup {Absent} /\ tail[c].buffered \in Seq(Note)
  BY <1>4 DEF TailState
<1>6. Answers(c) \subseteq Answer
  BY <1>3, <1>4, <1>5 DEF Answers
<1>7. \A j \in DOMAIN tail[c].buffered : tail[c].buffered[j] \in Note
  BY <1>5
<1>8. Buffered(c) \subseteq Sequence
  BY <1>7, Kinds DEF Buffered
<1>9. OnTheWire(c) \subseteq Sequence
  BY <1>3, Kinds DEF OnTheWire, Notes
<1> QED
  BY <1>1, <1>3, <1>4, <1>6, <1>7, <1>8, <1>9

\* A step that brings a client nothing new, and may end its tail.
Steady(c) ==
    /\ log' = log /\ setup' = setup /\ joined'[c] = joined[c]
    /\ Notes(c)' = Notes(c) /\ \A j \in Notes(c) : wire'[c][j] = wire[c][j]
    /\ Answers(c)' \subseteq Answers(c) /\ IdsOf(c)' \subseteq IdsOf(c)
    /\ tail'[c].agent = tail[c].agent /\ tail'[c].answer = tail[c].answer
    /\ tail'[c].buffered = tail[c].buffered
    /\ tail'[c].printed = tail[c].printed /\ tail'[c].last = tail[c].last
    /\ tail'[c].pc = tail[c].pc \/ tail'[c].pc \notin Tailing
    /\ SubsOf(c)' \subseteq SubsOf(c)
    /\ c \in open' /\ tail'[c].pc \in Tailing => c \in open /\ SubsOf(c)' = SubsOf(c)

LEMMA SteadyKeeps ==
    ASSUME NEW c \in Client, Steady(c), OneId(c), AnswersAre(c), LiveRecords(c), PrintedRecords(c)
    PROVE  OneId(c)' /\ AnswersAre(c)' /\ LiveRecords(c)' /\ PrintedRecords(c)'
<1>1. /\ Notes(c)' = Notes(c) /\ OnTheWire(c)' = OnTheWire(c)
      /\ Buffered(c)' = Buffered(c) /\ Sent(c)' = Sent(c)
  <2>1. Notes(c)' = Notes(c) /\ OnTheWire(c)' = OnTheWire(c)
    BY DEF Steady, OnTheWire
  <2>2. Buffered(c)' = Buffered(c)
    BY DEF Steady, Buffered
  <2> QED
    BY <2>1, <2>2 DEF Steady, Sent
<1>2. Answers(c)' \subseteq Answers(c) /\ IdsOf(c)' \subseteq IdsOf(c)
  BY DEF Steady
<1>4. /\ \A a : Of(a)' = Of(a)
      /\ \A a, n : Old(a, n)' = Old(a, n)
      /\ \A a, n, l : Due(a, n, l)' = Due(a, n, l)
  <2>1. \A a : Of(a)' = Of(a)
    BY DEF Steady, Of
  <2>2. \A a, k, n : Window(a, k, n)' = Window(a, k, n)
    BY <2>1 DEF Window
  <2>3. \A a, n : Old(a, n)' = Old(a, n)
    BY <2>1, <2>2 DEF Old, Steady
  <2>4. \A a, n, l : Due(a, n, l)' = Due(a, n, l)
    BY <2>1 DEF Due, Steady
  <2> QED
    BY <2>1, <2>3, <2>4
<1>5. OneId(c)'
  BY <1>2 DEF OneId
<1>6. AnswersAre(c)'
  <2> SUFFICES ASSUME NEW m \in Answers(c)'
               PROVE  /\ Increasing(m.events)
                      /\ ToSet(m.events) = Old(tail[c].agent, joined[c])'
                      /\ c \in open' /\ tail'[c].pc \in Tailing => m.sub \in SubsOf(c)'
    BY DEF AnswersAre, Increasing, ToSet
  <2>1. m \in Answers(c)
    BY <1>2
  <2>2. Increasing(m.events) /\ ToSet(m.events) = Old(tail[c].agent, joined[c])
    BY <2>1 DEF AnswersAre
  <2>3. Old(tail[c].agent, joined[c])' = Old(tail[c].agent, joined[c])
    BY <1>4 DEF Steady
  <2>4. c \in open' /\ tail'[c].pc \in Tailing => m.sub \in SubsOf(c)'
    BY <2>1 DEF AnswersAre, Steady
  <2> QED
    BY <2>2, <2>3, <2>4
<1>7. LiveRecords(c)'
  <2> SUFFICES ASSUME tail'[c].pc \in Tailing PROVE NoGap(c)' /\ InOrder(c)'
    BY DEF LiveRecords
  <2>1. tail'[c].pc = tail[c].pc /\ NoGap(c) /\ InOrder(c)
    BY DEF Steady, LiveRecords
  <2>2. NoGap(c)'
    <3>1. tail'[c].agent = tail[c].agent /\ joined'[c] = joined[c]
          /\ Of(tail[c].agent)' = Of(tail[c].agent)
      BY <1>4 DEF Steady
    <3>2. SubsOf(c)' # {} => SubsOf(c) # {}
      BY DEF Steady
    <3> QED
      BY <1>1, <2>1, <3>1, <3>2 DEF NoGap
  <2>3. InOrder(c)'
    BY <1>1, <2>1 DEF InOrder, Steady
  <2> QED
    BY <2>2, <2>3
<1>8. PrintedRecords(c)'
  <2>1. /\ tail'[c].printed = tail[c].printed
        /\ Due(tail[c].agent, joined[c], tail[c].last)' = Due(tail[c].agent, joined[c], tail[c].last)
        /\ Old(tail[c].agent, joined[c])' = Old(tail[c].agent, joined[c])
        /\ tail'[c].pc = "following" => tail[c].pc = "following"
    BY <1>4 DEF Steady, Tailing
  <2> QED
    BY <2>1 DEF PrintedRecords, Increasing, ToSet
<1> QED
  BY <1>5, <1>6, <1>7, <1>8

\* Such a step that leaves the socket alone.
Calm(c) ==
    /\ log' = log /\ setup' = setup /\ joined'[c] = joined[c] /\ wire'[c] = wire[c]
    /\ reply'[c] = reply[c] \/ reply'[c] = Absent
    /\ tail'[c].agent = tail[c].agent /\ tail'[c].answer = tail[c].answer
    /\ tail'[c].buffered = tail[c].buffered
    /\ tail'[c].printed = tail[c].printed /\ tail'[c].last = tail[c].last
    /\ tail'[c].pc = tail[c].pc \/ tail'[c].pc \notin Tailing
    /\ SubsOf(c)' \subseteq SubsOf(c)
    /\ c \in open' /\ tail'[c].pc \in Tailing => c \in open /\ SubsOf(c)' = SubsOf(c)

LEMMA CalmKeeps ==
    ASSUME NEW c \in Client, Calm(c), OneId(c), AnswersAre(c), LiveRecords(c), PrintedRecords(c)
    PROVE  /\ IdsOf(c)' \subseteq IdsOf(c)
           /\ OneId(c)' /\ AnswersAre(c)' /\ LiveRecords(c)' /\ PrintedRecords(c)'
<1>1. Notes(c)' = Notes(c)
  BY DEF Calm, Notes
<1>2. Answers(c)' \subseteq Answers(c)
  BY <1>1 DEF Calm, Answers
<1>3. IdsOf(c)' \subseteq IdsOf(c)
  BY <1>2 DEF Calm, IdsOf
<1>4. Steady(c)
  BY <1>1, <1>2, <1>3 DEF Calm, Steady
<1> QED
  BY <1>3, <1>4, SteadyKeeps

\* A step that does not concern a client.
Still(c) ==
    /\ log' = log /\ setup' = setup /\ joined'[c] = joined[c] /\ wire'[c] = wire[c]
    /\ reply'[c] = reply[c] /\ request'[c] = request[c] /\ tail'[c] = tail[c]
    /\ c \in open' <=> c \in open
    /\ SubsOf(c)' = SubsOf(c)

LEMMA StillKeeps == ASSUME NEW c \in Client, Still(c), PerClient(c) PROVE PerClient(c)'
<1>1. Calm(c)
  BY DEF Still, Calm
<1>2. IdsOf(c)' \subseteq IdsOf(c)
      /\ OneId(c)' /\ AnswersAre(c)' /\ LiveRecords(c)' /\ PrintedRecords(c)'
  BY <1>1, CalmKeeps DEF PerClient
<1>3. Connections(c)'
  BY <1>2 DEF Still, PerClient, Connections, Fresh
<1> QED
  BY <1>2, <1>3 DEF PerClient

\* Release takes these ids out of everything.
LEMMA Releases ==
    ASSUME OutputTypeOK, Indexed, NEW ids \in SUBSET Ids, Release(ids)
    PROVE  /\ Stored' = Stored \ ids
           /\ \A i \in Stored' : subscriptions'[i] = subscriptions[i]
           /\ \A c \in Client : SubsOf(c)' = SubsOf(c) \ ids
           /\ byType' = Stored'
           /\ \A c \in Client : byConnection'[c] = SubsOf(c)'
           /\ subscriptions' \in [Ids -> [conn : Client, agent : Agent] \cup {Absent}]
           /\ byConnection' \in [Client -> SUBSET Ids] /\ byType' \subseteq Ids
<1>1. /\ subscriptions \in [Ids -> [conn : Client, agent : Agent] \cup {Absent}]
      /\ byConnection \in [Client -> SUBSET Ids] /\ byType \subseteq Ids
  BY DEF OutputTypeOK
<1>2. /\ subscriptions' = [i \in Ids |-> IF i \in ids THEN Absent ELSE subscriptions[i]]
      /\ byConnection' = [c \in Client |-> byConnection[c] \ ids]
      /\ byType' = byType \ ids
  BY DEF Release
<1>3. Stored' = Stored \ ids /\ \A i \in Stored' : subscriptions'[i] = subscriptions[i]
  BY <1>2 DEF Stored
<1>4. \A c \in Client : SubsOf(c)' = SubsOf(c) \ ids
  BY <1>3 DEF SubsOf
<1>5. byType' = Stored' /\ \A c \in Client : byConnection'[c] = SubsOf(c)'
  BY <1>2, <1>3, <1>4 DEF Indexed
<1>6. subscriptions' \in [Ids -> [conn : Client, agent : Agent] \cup {Absent}]
  BY <1>1, <1>2
<1>7. byConnection' \in [Client -> SUBSET Ids] /\ byType' \subseteq Ids
  BY <1>1, <1>2
<1> QED
  BY <1>3, <1>4, <1>5, <1>6, <1>7

LEMMA JournalsStay ==
    ASSUME \A a \in Agent : JournalOf(a), UNCHANGED <<log, journal, setup>>
    PROVE  \A a \in Agent : JournalOf(a)'
<1>1. \A a : Of(a)' = Of(a)
  BY DEF Of
<1> QED
  BY <1>1 DEF JournalOf, Increasing, ToSet

\* Tails that have been subscribed stay so, and the ids keep to their number.
LEMMA CountedStays ==
    ASSUME OutputTypeOK, Counted, nextId' = nextId, SubscribedOnce \subseteq SubscribedOnce',
           Stored' \subseteq Stored, \A i \in Stored' : subscriptions'[i] = subscriptions[i],
           \A i \in Stored' : tail'[subscriptions[i].conn].agent = tail[subscriptions[i].conn].agent
    PROVE  Counted'
<1>1. IsFiniteSet(Client) /\ nextId \in 1..(Cardinality(Client) + 1) /\ Cardinality(Client) \in Nat
  BY OutputFacts DEF OutputTypeOK
<1>2. SubscribedOnce' \subseteq Client
  BY DEF SubscribedOnce
<1>3. /\ Cardinality(SubscribedOnce) <= Cardinality(SubscribedOnce')
      /\ Cardinality(SubscribedOnce) \in Nat /\ Cardinality(SubscribedOnce') \in Nat
  <2>1. IsFiniteSet(SubscribedOnce')
    BY <1>1, <1>2, FS_Subset
  <2> QED
    BY <2>1, FS_Subset, FS_CardinalityType
<1>4. nextId' <= Cardinality(SubscribedOnce') + 1
  BY <1>1, <1>3 DEF Counted
<1>5. \A i \in Stored' : /\ i < nextId'
                         /\ subscriptions'[i].agent = tail'[subscriptions'[i].conn].agent
  BY DEF Counted
<1> QED
  BY <1>4, <1>5 DEF Counted

\* A step of one client, which stores no subscription.
LEMMA OneTail ==
    ASSUME OutputInv, NEW c \in Client, OutputTypeOK', Indexed', PerClient(c)',
           UNCHANGED <<log, journal, setup, nextId>>,
           Stored' \subseteq Stored, \A i \in Stored' : subscriptions'[i] = subscriptions[i],
           SubsOf(c)' # {} => tail'[c].agent = tail[c].agent,
           ~Fresh(c) => ~Fresh(c)',
           \A d \in Client \ {c} : Still(d)
    PROVE  OutputInv'
<1>1. \A d \in Client : PerClient(d)'
  BY StillKeeps DEF OutputInv
<1>2. \A a \in Agent : JournalOf(a)'
  BY JournalsStay DEF OutputInv
<1>3. SubscribedOnce \subseteq SubscribedOnce'
  <2>1. \A d \in Client \ {c} : Fresh(d)' = Fresh(d)
    BY DEF Still, Fresh
  <2> QED
    BY <2>1 DEF SubscribedOnce
<1>4. \A i \in Stored' : tail'[subscriptions[i].conn].agent = tail[subscriptions[i].conn].agent
  <2> SUFFICES ASSUME NEW i \in Stored'
               PROVE  tail'[subscriptions[i].conn].agent = tail[subscriptions[i].conn].agent
    OBVIOUS
  <2>1. subscriptions[i] \in [conn : Client, agent : Agent]
    BY DEF Stored, OutputInv, OutputTypeOK
  <2>2. subscriptions[i].conn \in Client
    BY <2>1
  <2>3. CASE subscriptions[i].conn = c
    <3>1. i \in SubsOf(c)'
      BY <2>3 DEF SubsOf
    <3> QED
      BY <2>3, <3>1
  <2>4. CASE subscriptions[i].conn # c
    BY <2>2, <2>4 DEF Still
  <2> QED
    BY <2>3, <2>4
<1>5. Counted'
  BY <1>3, <1>4, CountedStays DEF OutputInv
<1> QED
  BY <1>1, <1>2, <1>5 DEF OutputInv

\* The conjuncts of the types that a step of a tail changes.
LEMMA TypesOfATail ==
    ASSUME OutputTypeOK, NEW c \in Client, UNCHANGED <<daemonVars, serving, joined, setup>>,
           NEW t \in TailState, tail' = [tail EXCEPT ![c] = t],
           open' \subseteq Client,
           reply' \in [Client -> Answer \cup {Absent}],
           request' \in [Client -> [method : {"subscribe"}, agent : Agent]
                                   \cup [method : {"unsubscribe"}, sub : Ids] \cup {NoRequest}],
           wire' \in [Client -> Seq(Answer \cup Note)]
    PROVE  OutputTypeOK'
<1>1. tail' \in [Client -> TailState]
  BY DEF OutputTypeOK, TailState
<1> QED
  BY <1>1 DEF OutputTypeOK, TailState, daemonVars

\* The subscriptions when no step has touched them.
LEMMA IndexedStays ==
    ASSUME OutputTypeOK, Indexed, UNCHANGED <<subscriptions, byConnection, byType>>, open \subseteq open'
    PROVE  /\ Indexed' /\ Stored' = Stored
           /\ \A i \in Stored' : subscriptions'[i] = subscriptions[i]
           /\ \A c \in Client : SubsOf(c)' = SubsOf(c)
<1>1. Stored' = Stored
  BY DEF Stored
<1>2. \A c : SubsOf(c)' = SubsOf(c)
  BY <1>1 DEF SubsOf
<1> QED
  BY <1>1, <1>2 DEF Indexed

LEMMA NoPlaces ==
    ASSUME NEW S, NEW s \in Seq(S), DOMAIN s = {}
    PROVE  s = <<>>
<1>1. Len(s) \in Nat /\ DOMAIN s = 1..Len(s)
  OBVIOUS
<1>2. Len(s) = 0
  <2>1. 1 \notin 1..Len(s)
    BY <1>1
  <2> QED
    BY <1>1, <2>1
<1> QED
  BY <1>2

LEMMA FreshIsEmpty ==
    ASSUME OutputTypeOK, NEW c \in Client, IdsOf(c) = {}
    PROVE  /\ SubsOf(c) = {} /\ Answers(c) = {} /\ Notes(c) = {} /\ wire[c] = <<>>
           /\ OnTheWire(c) = {} /\ Buffered(c) = {} /\ tail[c].buffered = <<>>
           /\ reply[c] = Absent /\ tail[c].answer = Absent
<1>1. DOMAIN wire[c] = {} /\ Answers(c) = {} /\ SubsOf(c) = {} /\ DOMAIN tail[c].buffered = {}
  BY DEF IdsOf
<1>2. wire[c] \in Seq(Answer \cup Note) /\ tail[c] \in TailState
  BY OnASocket
<1>3. wire[c] = <<>>
  BY <1>1, <1>2, NoPlaces
<1>4. tail[c].buffered \in Seq(Note)
  BY <1>2 DEF TailState
<1>5. tail[c].buffered = <<>>
  BY <1>1, <1>4, NoPlaces
<1>6. reply[c] = Absent /\ tail[c].answer = Absent
  BY <1>1 DEF Answers
<1> QED
  BY <1>1, <1>3, <1>5, <1>6 DEF Notes, OnTheWire, Buffered

LEMMA StartKeeps ==
    ASSUME OutputInv, NEW c \in setup.clients, NEW a \in setup.agents, StartTail(c, a)
    PROVE  OutputInv'
<1>1. OutputTypeOK /\ Indexed /\ PerClient(c) /\ c \in Client /\ a \in Agent
  BY OutputFacts DEF OutputInv
<1> DEFINE t == [tail[c] EXCEPT !.pc = "subscribing", !.agent = a]
           q == [method |-> "subscribe", agent |-> a]
<1>2. tail[c] \in TailState /\ tail[c].pc = "idle"
  BY <1>1, OnASocket DEF StartTail
<1>3. /\ t \in TailState /\ t.pc = "subscribing" /\ t.agent = a /\ t.answer = tail[c].answer
      /\ t.buffered = tail[c].buffered /\ t.printed = tail[c].printed /\ t.last = tail[c].last
  BY <1>1, <1>2 DEF TailState, Stages, Tailing
<1> HIDE DEF t
<1>4. /\ tail' = [tail EXCEPT ![c] = t] /\ request' = [request EXCEPT ![c] = q]
      /\ open' = open \cup {c} /\ UNCHANGED <<daemonVars, serving, reply, wire, history>>
  <2>1. tail' = [tail EXCEPT ![c].pc = "subscribing", ![c].agent = a]
    BY DEF StartTail
  <2>2. tail \in [Client -> TailState]
    BY <1>1 DEF OutputTypeOK, TailState
  <2>3. tail' = [tail EXCEPT ![c] = t]
    BY <1>1, <2>1, <2>2 DEF t
  <2> QED
    BY <2>3 DEF StartTail
<1>5. OutputTypeOK'
  <2>1. open' \subseteq Client /\ reply' \in [Client -> Answer \cup {Absent}]
        /\ wire' \in [Client -> Seq(Answer \cup Note)]
    BY <1>1, <1>4 DEF OutputTypeOK
  <2>2. q \in [method : {"subscribe"}, agent : Agent]
    BY <1>1
  <2>3. request' \in [Client -> [method : {"subscribe"}, agent : Agent]
                                \cup [method : {"unsubscribe"}, sub : Ids] \cup {NoRequest}]
    BY <1>1, <1>4, <2>2 DEF OutputTypeOK
  <2> QED
    BY <1>1, <1>3, <1>4, <2>1, <2>3, TypesOfATail DEF history
<1>6. /\ Indexed' /\ Stored' = Stored /\ \A i \in Stored' : subscriptions'[i] = subscriptions[i]
      /\ \A d \in Client : SubsOf(d)' = SubsOf(d)
  BY <1>1, <1>4, IndexedStays DEF daemonVars
<1>7. tail'[c] = t /\ request'[c] = q /\ \A d \in Client \ {c} : tail'[d] = tail[d] /\ request'[d] = request[d]
  BY <1>1, <1>4 DEF OutputTypeOK
<1>8. \A d \in Client \ {c} : Still(d)
  BY <1>4, <1>6, <1>7 DEF Still, daemonVars, history
<1>9. Fresh(c) /\ Connections(c) /\ IdsOf(c) = {}
  BY <1>1, <1>2 DEF PerClient, Connections, Fresh
<1>10. /\ SubsOf(c) = {} /\ Answers(c) = {} /\ Notes(c) = {} /\ wire[c] = <<>>
       /\ OnTheWire(c) = {} /\ Buffered(c) = {} /\ tail[c].buffered = <<>>
       /\ reply[c] = Absent /\ tail[c].answer = Absent
       /\ tail[c].printed = <<>> /\ tail[c].last = 0
  BY <1>1, <1>9, FreshIsEmpty DEF Connections
<1>11. /\ wire'[c] = <<>> /\ reply'[c] = Absent /\ joined'[c] = joined[c] /\ log' = log
  BY <1>4, <1>10 DEF daemonVars, history
<1>12. /\ Notes(c)' = {} /\ OnTheWire(c)' = {} /\ Buffered(c)' = {} /\ Answers(c)' = {}
       /\ SubsOf(c)' = {} /\ IdsOf(c)' = {} /\ Sent(c)' = {}
  <2>1. Notes(c)' = {} /\ OnTheWire(c)' = {}
    BY <1>11 DEF Notes, OnTheWire
  <2>2. Answers(c)' = {}
    BY <1>3, <1>7, <1>10, <1>11 DEF Answers
  <2>3. Buffered(c)' = {}
    BY <1>3, <1>7, <1>10 DEF Buffered
  <2>4. SubsOf(c)' = {}
    BY <1>1, <1>6, <1>10
  <2>5. IdsOf(c)' = {}
    BY <1>3, <1>7, <1>10, <1>11, <2>2, <2>4 DEF IdsOf
  <2>6. tail'[c].printed = <<>>
    BY <1>3, <1>7, <1>10
  <2>7. Sent(c)' = {}
    BY <2>1, <2>3, <2>6 DEF Sent, ToSet
  <2> QED
    BY <2>1, <2>2, <2>3, <2>4, <2>5, <2>7
<1>13. PerClient(c)'
  <2>1. Connections(c)'
    <3>1. joined[c] <= Len(log) /\ Len(log) \in Nat
      BY <1>1, <1>9, OutputFacts DEF Connections
    <3> QED
      BY <1>1, <1>3, <1>4, <1>7, <1>10, <1>11, <1>12, <3>1 DEF Connections
  <2>2. OneId(c)' /\ AnswersAre(c)'
    BY <1>12 DEF OneId, AnswersAre
  <2>3. LiveRecords(c)'
    BY <1>3, <1>7, <1>10, <1>12 DEF LiveRecords, NoGap, InOrder
  <2>4. PrintedRecords(c)'
    <3>1. tail'[c].printed = <<>> /\ tail'[c].last = 0 /\ tail'[c].pc = "subscribing"
      BY <1>3, <1>7, <1>10
    <3>2. Due(tail[c].agent, joined[c], tail[c].last)' = {}
      <4>1. \A k \in Of(tail[c].agent)' : k \in Nat /\ k > 0
        <5>1. DOMAIN log = 1..Len(log) /\ Len(log) \in Nat
          BY <1>1, OutputFacts
        <5> QED
          BY <1>11, <5>1 DEF Of
      <4> QED
        BY <3>1, <4>1 DEF Due
    <3> QED
      BY <3>1, <3>2 DEF PrintedRecords, Increasing, ToSet
  <2> QED
    BY <2>1, <2>2, <2>3, <2>4 DEF PerClient
<1>14. ~Fresh(c) => ~Fresh(c)'
  BY <1>9
<1> QED
  BY <1>1, <1>4, <1>5, <1>6, <1>8, <1>12, <1>13, <1>14, OneTail DEF daemonVars, history

\* A tail of which only the stage changes.
LEMMA StageChanges ==
    ASSUME OutputTypeOK, NEW c \in Client, NEW p \in Stages
    PROVE  LET t == [tail[c] EXCEPT !.pc = p]
           IN  /\ t \in TailState /\ t.pc = p /\ t.agent = tail[c].agent /\ t.answer = tail[c].answer
               /\ t.buffered = tail[c].buffered /\ t.printed = tail[c].printed
               /\ t.last = tail[c].last
               /\ [tail EXCEPT ![c].pc = p] = [tail EXCEPT ![c] = t]
               /\ [tail EXCEPT ![c].pc = p][c] = t
               /\ \A d \in Client \ {c} : [tail EXCEPT ![c].pc = p][d] = tail[d]
<1>1. tail \in [Client -> TailState]
  BY DEF OutputTypeOK, TailState
<1>2. tail[c] \in TailState
  BY <1>1
<1> DEFINE t == [tail[c] EXCEPT !.pc = p]
<1>3. /\ t \in TailState /\ t.pc = p /\ t.agent = tail[c].agent /\ t.answer = tail[c].answer
      /\ t.buffered = tail[c].buffered /\ t.printed = tail[c].printed /\ t.last = tail[c].last
  BY <1>2 DEF TailState
<1>4. [tail EXCEPT ![c].pc = p] = [tail EXCEPT ![c] = t]
  BY <1>1
<1>5. [tail EXCEPT ![c] = t][c] = t /\ \A d \in Client \ {c} : [tail EXCEPT ![c] = t][d] = tail[d]
  <2> HIDE DEF t
  <2> QED
    BY <1>1
<1> QED
  BY <1>3, <1>4, <1>5

\* A signal, a death, or the unsubscribe request: no subscription is touched.
LEMMA StageKeeps ==
    ASSUME OutputInv, NEW c \in Client, NEW p \in {"unsubscribing", "closing", "gone"},
           tail[c].pc # "idle", tail' = [tail EXCEPT ![c].pc = p],
           p = "unsubscribing" => tail[c].pc = "following",
           UNCHANGED <<daemonVars, serving, open, reply, wire, history>>,
           \/ /\ request' = request /\ p # "unsubscribing"
              /\ p = "closing" => tail[c].pc \in {"following", "subscribing"}
           \/ /\ c \in open /\ p = "unsubscribing"
              /\ request' = [request EXCEPT ![c] = [method |-> "unsubscribe", sub |-> tail[c].answer.sub]]
    PROVE  OutputInv'
<1>1. OutputTypeOK /\ Indexed /\ PerClient(c) /\ p \in Stages
  BY DEF OutputInv, Stages
<1> DEFINE t == [tail[c] EXCEPT !.pc = p]
<1>2. /\ t \in TailState /\ t.pc = p /\ t.agent = tail[c].agent /\ t.answer = tail[c].answer
      /\ t.buffered = tail[c].buffered /\ t.printed = tail[c].printed /\ t.last = tail[c].last
      /\ tail' = [tail EXCEPT ![c] = t] /\ tail'[c] = t
      /\ \A d \in Client \ {c} : tail'[d] = tail[d]
  BY <1>1, StageChanges
<1> HIDE DEF t
<1>3. Connections(c)
  BY <1>1 DEF PerClient
<1>4. tail[c].pc = "following" => tail[c].answer \in Answer
  BY <1>1, <1>3 DEF Connections, OutputTypeOK
<1>5. /\ request' \in [Client -> [method : {"subscribe"}, agent : Agent]
                                 \cup [method : {"unsubscribe"}, sub : Ids] \cup {NoRequest}]
      /\ \A d \in Client \ {c} : request'[d] = request[d]
      /\ request'[c] = request[c] \/ (request'[c].method = "unsubscribe" /\ p = "unsubscribing" /\ c \in open)
  <2>1. CASE request' = request
    BY <1>1, <2>1 DEF OutputTypeOK
  <2>2. CASE request' # request
    <3> DEFINE q == [method |-> "unsubscribe", sub |-> tail[c].answer.sub]
    <3>1. q \in [method : {"unsubscribe"}, sub : Ids] /\ q.method = "unsubscribe"
      BY <1>4, <2>2, Kinds
    <3>2. request' = [request EXCEPT ![c] = q] /\ p = "unsubscribing" /\ c \in open
      BY <2>2
    <3> HIDE DEF q
    <3> QED
      BY <1>1, <3>1, <3>2 DEF OutputTypeOK
  <2> QED
    BY <2>1, <2>2
<1>6. OutputTypeOK'
  <2>1. open' \subseteq Client /\ reply' \in [Client -> Answer \cup {Absent}]
        /\ wire' \in [Client -> Seq(Answer \cup Note)]
    BY <1>1 DEF OutputTypeOK
  <2> QED
    BY <1>1, <1>2, <1>5, <2>1, TypesOfATail DEF history
<1>7. /\ Indexed' /\ Stored' = Stored /\ \A i \in Stored' : subscriptions'[i] = subscriptions[i]
      /\ \A d \in Client : SubsOf(d)' = SubsOf(d)
  BY <1>1, IndexedStays DEF daemonVars
<1>8. \A d \in Client \ {c} : Still(d)
  BY <1>2, <1>5, <1>7 DEF Still, daemonVars, history
<1>9. Calm(c)
  BY <1>2, <1>7 DEF Calm, daemonVars, history, Tailing
<1>10. IdsOf(c)' \subseteq IdsOf(c)
       /\ OneId(c)' /\ AnswersAre(c)' /\ LiveRecords(c)' /\ PrintedRecords(c)'
  BY <1>1, <1>9, CalmKeeps DEF PerClient
<1>11. Connections(c)' /\ (~Fresh(c) => ~Fresh(c)')
  <2>1. ~Fresh(c) => ~Fresh(c)'
    BY <1>2, <1>5 DEF Fresh
  <2>2. /\ tail'[c].pc = p /\ p \in {"unsubscribing", "closing", "gone"}
        /\ tail'[c].agent = tail[c].agent /\ tail'[c].answer = tail[c].answer
        /\ tail'[c].printed = tail[c].printed /\ tail'[c].last = tail[c].last
        /\ open' = open /\ reply' = reply /\ joined' = joined /\ log' = log
    BY <1>2 DEF daemonVars, history
  <2>3. \/ request'[c] = request[c] /\ p # "unsubscribing"
           /\ (p = "closing" => tail[c].pc \in {"following", "subscribing"})
        \/ request'[c].method = "unsubscribe" /\ p = "unsubscribing" /\ c \in open
    BY <1>5
  <2> QED
    BY <1>3, <1>10, <2>1, <2>2, <2>3 DEF Connections
<1> QED
  BY <1>1, <1>2, <1>6, <1>7, <1>8, <1>10, <1>11, OneTail DEF PerClient, daemonVars, history

LEMMA VanishKeeps ==
    ASSUME OutputInv, NEW c \in Client, Vanish(c)
    PROVE  OutputInv'
<1>1. tail[c].pc # "idle" /\ tail' = [tail EXCEPT ![c].pc = "gone"]
      /\ UNCHANGED <<daemonVars, serving, open, reply, request, wire, history>>
  BY DEF Vanish
<1> QED
  BY <1>1, StageKeeps

LEMMA FinishKeeps ==
    ASSUME OutputInv, NEW c \in Client, FinishTail(c)
    PROVE  OutputInv'
<1>1. tail[c].pc = "following" /\ UNCHANGED <<daemonVars, serving, open, reply, wire, history>>
  BY DEF FinishTail
<1>2. CASE c \in open
  BY <1>1, <1>2, StageKeeps DEF FinishTail
<1>3. CASE c \notin open
  BY <1>1, <1>3, StageKeeps DEF FinishTail
<1> QED
  BY <1>2, <1>3

LEMMA InterruptKeeps ==
    ASSUME OutputInv, NEW c \in Client, Interrupt(c)
    PROVE  OutputInv'
<1>1. CASE FinishTail(c)
  BY <1>1, FinishKeeps
<1>2. CASE /\ tail[c].pc = "subscribing"
           /\ tail' = [tail EXCEPT ![c].pc = "closing"]
           /\ UNCHANGED <<daemonVars, serving, open, reply, request, wire, history>>
  BY <1>2, StageKeeps
<1> QED
  BY <1>1, <1>2 DEF Interrupt

LEMMA UnsubscribeKeeps ==
    ASSUME OutputInv, NEW c \in Client, HandleUnsubscribe(c)
    PROVE  OutputInv'
<1>1. OutputTypeOK /\ Indexed /\ PerClient(c) /\ Connections(c)
  BY DEF OutputInv, PerClient
<1> DEFINE i == request[c].sub
           p == IF tail[c].pc = "gone" THEN "gone" ELSE "closing"
           t == [tail[c] EXCEPT !.pc = p]
<1>2. /\ c \in open /\ request[c].method = "unsubscribe"
      /\ request' = [request EXCEPT ![c] = NoRequest]
      /\ IF subscriptions[i] # Absent /\ subscriptions[i].conn = c
         THEN Release({i})
         ELSE UNCHANGED <<subscriptions, byConnection, byType>>
      /\ tail' = [tail EXCEPT ![c].pc = IF @ = "gone" THEN @ ELSE "closing"]
      /\ UNCHANGED <<log, journal, nextId, serving, open, reply, wire, history>>
  BY DEF HandleUnsubscribe
<1>3. tail' = [tail EXCEPT ![c].pc = p]
  <2>1. tail \in [Client -> TailState] /\ tail[c] \in TailState
    BY <1>1 DEF OutputTypeOK, TailState
  <2> QED
    BY <1>2, <2>1
<1>4. i \in Ids /\ p \in Stages /\ p \in {"gone", "closing"}
  <2>1. request[c] \in [method : {"unsubscribe"}, sub : Ids]
    BY <1>1, <1>2 DEF OutputTypeOK, NoRequest
  <2>2. i \in Ids
    BY <2>1
  <2> QED
    BY <2>2 DEF Stages
<1> HIDE DEF p, i
<1>5. /\ t \in TailState /\ t.pc = p /\ t.agent = tail[c].agent /\ t.answer = tail[c].answer
      /\ t.buffered = tail[c].buffered /\ t.printed = tail[c].printed /\ t.last = tail[c].last
      /\ tail' = [tail EXCEPT ![c] = t] /\ tail'[c] = t
      /\ \A d \in Client \ {c} : tail'[d] = tail[d]
  BY <1>1, <1>3, <1>4, StageChanges
<1> HIDE DEF t
<1>6. /\ Stored' \subseteq Stored
      /\ \A j \in Stored' : subscriptions'[j] = subscriptions[j]
      /\ byType' = Stored'
      /\ \A d \in Client : byConnection'[d] = SubsOf(d)'
      /\ subscriptions' \in [Ids -> [conn : Client, agent : Agent] \cup {Absent}]
      /\ byConnection' \in [Client -> SUBSET Ids] /\ byType' \subseteq Ids
      /\ SubsOf(c)' \subseteq SubsOf(c)
      /\ \A d \in Client \ {c} : SubsOf(d)' = SubsOf(d)
  <2>1. CASE subscriptions[i] # Absent /\ subscriptions[i].conn = c
    <3>1. Release({i}) /\ {i} \in SUBSET Ids
      BY <1>2, <1>4, <2>1
    <3>2. \A d \in Client \ {c} : i \notin SubsOf(d)
      BY <2>1 DEF SubsOf
    <3>3. /\ Stored' = Stored \ {i}
          /\ \A j \in Stored' : subscriptions'[j] = subscriptions[j]
          /\ \A d \in Client : SubsOf(d)' = SubsOf(d) \ {i}
          /\ byType' = Stored'
          /\ \A d \in Client : byConnection'[d] = SubsOf(d)'
          /\ subscriptions' \in [Ids -> [conn : Client, agent : Agent] \cup {Absent}]
          /\ byConnection' \in [Client -> SUBSET Ids] /\ byType' \subseteq Ids
      BY <1>1, <3>1, Releases
    <3> QED
      BY <3>2, <3>3
  <2>2. CASE ~(subscriptions[i] # Absent /\ subscriptions[i].conn = c)
    <3>1. UNCHANGED <<subscriptions, byConnection, byType>> /\ open' = open
      BY <1>2, <2>2
    <3>2. /\ Indexed' /\ Stored' = Stored /\ \A j \in Stored' : subscriptions'[j] = subscriptions[j]
          /\ \A d \in Client : SubsOf(d)' = SubsOf(d)
      BY <1>1, <3>1, IndexedStays
    <3> QED
      BY <1>1, <3>1, <3>2 DEF Indexed, OutputTypeOK
  <2> QED
    BY <2>1, <2>2
<1>7. Indexed'
  <2>1. \A j \in Stored' : subscriptions'[j].conn \in open'
    BY <1>1, <1>2, <1>6 DEF Indexed
  <2> QED
    BY <1>6, <2>1 DEF Indexed
<1>8. request'[c] = NoRequest /\ \A d \in Client \ {c} : request'[d] = request[d]
  BY <1>1, <1>2 DEF OutputTypeOK
<1>9. OutputTypeOK'
  <2>1. tail' \in [Client -> TailState]
    BY <1>1, <1>5 DEF OutputTypeOK, TailState
  <2>2. request' \in [Client -> [method : {"subscribe"}, agent : Agent]
                                \cup [method : {"unsubscribe"}, sub : Ids] \cup {NoRequest}]
    BY <1>1, <1>2 DEF OutputTypeOK
  <2> QED
    BY <1>1, <1>2, <1>6, <2>1, <2>2 DEF OutputTypeOK, TailState, history
<1>10. \A d \in Client \ {c} : Still(d)
  BY <1>2, <1>5, <1>6, <1>8 DEF Still, history
<1>11. Calm(c)
  BY <1>2, <1>4, <1>5, <1>6 DEF Calm, history, Tailing
<1>12. IdsOf(c)' \subseteq IdsOf(c)
       /\ OneId(c)' /\ AnswersAre(c)' /\ LiveRecords(c)' /\ PrintedRecords(c)'
  BY <1>1, <1>11, CalmKeeps DEF PerClient
<1>13. Connections(c)' /\ (~Fresh(c) => ~Fresh(c)')
  <2>1. ~Fresh(c)'
    BY <1>4, <1>5, <1>8 DEF Fresh, NoRequest
  <2>2. /\ tail'[c].pc = p /\ tail'[c].agent = tail[c].agent
        /\ tail'[c].printed = tail[c].printed /\ tail'[c].last = tail[c].last
        /\ open' = open /\ reply' = reply /\ joined' = joined /\ log' = log
    BY <1>2, <1>5 DEF history
  <2>3. request'[c].method = "none"
    BY <1>8 DEF NoRequest
  <2>4. tail[c].pc # "idle"
    BY <1>1, <1>2 DEF Connections
  <2> QED
    BY <1>1, <1>4, <2>1, <2>2, <2>3, <2>4 DEF Connections
<1> QED
  BY <1>2, <1>5, <1>6, <1>7, <1>9, <1>10, <1>12, <1>13, OneTail DEF PerClient, history

\* The end of connections: nothing is read or answered after it.
LEMMA CloseKeeps ==
    ASSUME OutputInv, NEW c \in Client, CloseConnection(c)
    PROVE  OutputInv'
<1>1. OutputTypeOK /\ Indexed /\ PerClient(c) /\ Connections(c)
  BY DEF OutputInv, PerClient
<1> DEFINE t == [tail[c] EXCEPT !.pc = "gone"]
<1>2. /\ c \in open /\ tail[c].pc \in {"closing", "gone"}
      /\ open' = open \ {c} /\ Release(byConnection[c])
      /\ reply' = [reply EXCEPT ![c] = Absent]
      /\ request' = [request EXCEPT ![c] = NoRequest]
      /\ tail' = [tail EXCEPT ![c].pc = "gone"]
      /\ UNCHANGED <<log, journal, nextId, serving, wire, history>>
  BY DEF CloseConnection
<1>3. /\ t \in TailState /\ t.pc = "gone" /\ t.agent = tail[c].agent /\ t.answer = tail[c].answer
      /\ t.buffered = tail[c].buffered /\ t.printed = tail[c].printed /\ t.last = tail[c].last
      /\ tail' = [tail EXCEPT ![c] = t] /\ tail'[c] = t
      /\ \A d \in Client \ {c} : tail'[d] = tail[d]
  <2>1. "gone" \in Stages
    BY DEF Stages
  <2> QED
    BY <1>1, <1>2, <2>1, StageChanges
<1> HIDE DEF t
<1>4. byConnection[c] = SubsOf(c) /\ SubsOf(c) \in SUBSET Ids
  BY <1>1 DEF Indexed, SubsOf, Stored
<1>5. /\ Stored' = Stored \ SubsOf(c)
      /\ \A j \in Stored' : subscriptions'[j] = subscriptions[j]
      /\ \A d \in Client : SubsOf(d)' = SubsOf(d) \ SubsOf(c)
      /\ byType' = Stored'
      /\ \A d \in Client : byConnection'[d] = SubsOf(d)'
      /\ subscriptions' \in [Ids -> [conn : Client, agent : Agent] \cup {Absent}]
      /\ byConnection' \in [Client -> SUBSET Ids] /\ byType' \subseteq Ids
  BY <1>1, <1>2, <1>4, Releases
<1>6. \A d \in Client \ {c} : SubsOf(d)' = SubsOf(d)
  <2>1. \A d \in Client \ {c} : SubsOf(d) \cap SubsOf(c) = {}
    BY DEF SubsOf
  <2> QED
    BY <1>5, <2>1
<1>7. Indexed'
  <2>1. \A j \in Stored' : subscriptions'[j].conn \in open /\ subscriptions'[j].conn # c
    BY <1>1, <1>5 DEF Indexed, SubsOf
  <2> QED
    BY <1>2, <1>5, <2>1 DEF Indexed
<1>8. /\ request'[c] = NoRequest /\ reply'[c] = Absent
      /\ \A d \in Client \ {c} : request'[d] = request[d] /\ reply'[d] = reply[d]
  BY <1>1, <1>2 DEF OutputTypeOK
<1>9. OutputTypeOK'
  <2>1. tail' \in [Client -> TailState]
    BY <1>1, <1>3 DEF OutputTypeOK, TailState
  <2>2. /\ request' \in [Client -> [method : {"subscribe"}, agent : Agent]
                                   \cup [method : {"unsubscribe"}, sub : Ids] \cup {NoRequest}]
        /\ reply' \in [Client -> Answer \cup {Absent}] /\ open' \subseteq Client
    BY <1>1, <1>2 DEF OutputTypeOK
  <2> QED
    BY <1>1, <1>2, <1>5, <2>1, <2>2 DEF OutputTypeOK, TailState, history
<1>10. \A d \in Client \ {c} : Still(d)
  BY <1>2, <1>3, <1>6, <1>8 DEF Still, history
<1>11. Calm(c)
  BY <1>2, <1>3, <1>5, <1>8 DEF Calm, history, Tailing
<1>12. IdsOf(c)' \subseteq IdsOf(c)
       /\ OneId(c)' /\ AnswersAre(c)' /\ LiveRecords(c)' /\ PrintedRecords(c)'
  BY <1>1, <1>11, CalmKeeps DEF PerClient
<1>13. Connections(c)' /\ (~Fresh(c) => ~Fresh(c)')
  <2>1. ~Fresh(c)'
    BY <1>3, <1>8 DEF Fresh, NoRequest
  <2>2. /\ tail'[c].pc = "gone" /\ tail'[c].agent = tail[c].agent
        /\ tail'[c].printed = tail[c].printed /\ tail'[c].last = tail[c].last
        /\ joined' = joined /\ log' = log /\ reply'[c] = Absent
        /\ request'[c].method = "none" /\ tail[c].pc # "idle"
    BY <1>1, <1>2, <1>3, <1>8 DEF history, NoRequest, Connections
  <2> QED
    BY <1>1, <2>1, <2>2 DEF Connections
<1> QED
  BY <1>2, <1>3, <1>5, <1>7, <1>9, <1>10, <1>12, <1>13, OneTail DEF PerClient, history

LEMMA StopKeeps ==
    ASSUME OutputInv, StopServer
    PROVE  OutputInv'
<1>1. OutputTypeOK /\ Indexed /\ \A c \in Client : PerClient(c) /\ Connections(c)
  BY DEF OutputInv, PerClient
<1> DEFINE ids == UNION {byConnection[c] : c \in open}
<1>2. /\ serving' = FALSE /\ Release(ids) /\ open' = {}
      /\ reply' = [c \in Client |-> Absent] /\ request' = [c \in Client |-> NoRequest]
      /\ UNCHANGED <<log, journal, nextId, wire, tail, history>>
  BY DEF StopServer
<1>3. ids \in SUBSET Ids /\ open \subseteq Client
  BY <1>1 DEF OutputTypeOK
<1>4. Stored \subseteq ids
  <2> SUFFICES ASSUME NEW i \in Stored PROVE i \in ids
    OBVIOUS
  <2>1. subscriptions[i].conn \in open /\ subscriptions[i].conn \in Client
    BY <1>1, <1>3 DEF Indexed
  <2>2. i \in byConnection[subscriptions[i].conn]
    BY <1>1, <2>1 DEF Indexed, SubsOf
  <2> QED
    BY <2>1, <2>2
<1> HIDE DEF ids
<1>5. /\ Stored' = {}
      /\ \A j \in Stored' : subscriptions'[j] = subscriptions[j]
      /\ \A d \in Client : SubsOf(d)' = {}
      /\ byType' = Stored'
      /\ \A d \in Client : byConnection'[d] = SubsOf(d)'
      /\ subscriptions' \in [Ids -> [conn : Client, agent : Agent] \cup {Absent}]
      /\ byConnection' \in [Client -> SUBSET Ids] /\ byType' \subseteq Ids
  <2>1. /\ Stored' = Stored \ ids
        /\ byType' = Stored'
        /\ \A d \in Client : SubsOf(d)' = SubsOf(d) \ ids
        /\ \A d \in Client : byConnection'[d] = SubsOf(d)'
        /\ subscriptions' \in [Ids -> [conn : Client, agent : Agent] \cup {Absent}]
        /\ byConnection' \in [Client -> SUBSET Ids] /\ byType' \subseteq Ids
    BY <1>1, <1>2, <1>3, Releases
  <2>2. \A d \in Client : SubsOf(d) \subseteq ids
    BY <1>4 DEF SubsOf
  <2> QED
    BY <1>4, <2>1, <2>2
<1>6. Indexed'
  BY <1>5 DEF Indexed
<1>7. OutputTypeOK'
  BY <1>1, <1>2, <1>5 DEF OutputTypeOK, history
<1>8. ASSUME NEW c \in Client PROVE PerClient(c)'
  <2>1. Calm(c)
    BY <1>2, <1>5 DEF Calm, history
  <2>2. IdsOf(c)' \subseteq IdsOf(c)
        /\ OneId(c)' /\ AnswersAre(c)' /\ LiveRecords(c)' /\ PrintedRecords(c)'
    BY <1>1, <2>1, CalmKeeps DEF PerClient
  <2>3. Fresh(c)' => Fresh(c)
    BY <1>2 DEF Fresh, NoRequest
  <2>4. tail' = tail /\ request'[c].method = "none" /\ reply'[c] = Absent /\ open' = {}
        /\ joined' = joined /\ log' = log
    BY <1>2 DEF NoRequest, history
  <2>5. Connections(c)'
    BY <1>1, <2>2, <2>3, <2>4 DEF Connections
  <2> QED
    BY <2>2, <2>5 DEF PerClient
<1>9. \A a \in Agent : JournalOf(a)'
  BY <1>2, JournalsStay DEF OutputInv, history
<1>10. Counted'
  <2>1. SubscribedOnce \subseteq SubscribedOnce'
    BY <1>2 DEF SubscribedOnce, Fresh, NoRequest
  <2> QED
    BY <1>1, <1>2, <1>5, <2>1, CountedStays DEF OutputInv
<1> QED
  BY <1>6, <1>7, <1>8, <1>9, <1>10 DEF OutputInv

LEMMA SendKeeps ==
    ASSUME OutputInv, NEW c \in Client, SendReply(c)
    PROVE  OutputInv'
<1>1. OutputTypeOK /\ Indexed /\ PerClient(c) /\ Connections(c)
  BY DEF OutputInv, PerClient
<1> DEFINE w == wire[c]  n == Len(w)  m == reply[c]
<1>2. /\ c \in open /\ m # Absent /\ wire' = [wire EXCEPT ![c] = Append(w, m)]
      /\ reply' = [reply EXCEPT ![c] = Absent]
      /\ UNCHANGED <<daemonVars, serving, open, request, tail, history>>
  BY DEF SendReply
<1>3. m \in Answer /\ IsAnswer(m) /\ w \in Seq(Answer \cup Note)
  BY <1>1, <1>2, Kinds, OnASocket DEF OutputTypeOK
<1>4. /\ wire'[c] = Append(w, m) /\ reply'[c] = Absent
      /\ \A d \in Client \ {c} : wire'[d] = wire[d] /\ reply'[d] = reply[d]
  BY <1>1, <1>2 DEF OutputTypeOK
<1>5. /\ n \in Nat /\ DOMAIN w = 1..n /\ DOMAIN Append(w, m) = 1..(n + 1)
      /\ \A j \in 1..n : Append(w, m)[j] = w[j]
      /\ Append(w, m)[n + 1] = m
      /\ Append(w, m) \in Seq(Answer \cup Note)
  BY <1>3
<1> HIDE DEF n, w
<1>6. \A j \in 1..(n + 1) : j \in 1..n \/ j = n + 1
  BY <1>5
<1>7. \A j \in 1..n : j \in 1..(n + 1)
  BY <1>5
<1>8. Notes(c)' = Notes(c) /\ \A j \in Notes(c) : wire'[c][j] = wire[c][j]
  <2>1. Notes(c) = {j \in 1..n : ~IsAnswer(w[j])}
    BY <1>5 DEF Notes, w
  <2>2. Notes(c)' = {j \in 1..(n + 1) : ~IsAnswer(Append(w, m)[j])}
    BY <1>4, <1>5 DEF Notes, IsAnswer
  <2> HIDE DEF m
  <2>3. Notes(c)' = Notes(c)
    BY <1>3, <1>5, <1>6, <1>7, <2>1, <2>2
  <2>4. \A j \in Notes(c) : wire'[c][j] = wire[c][j]
    BY <1>4, <1>5, <2>1 DEF w
  <2> QED
    BY <2>3, <2>4
<1>9. Answers(c)' \subseteq Answers(c)
  <2>1. m \in Answers(c)
    BY <1>2 DEF Answers
  <2>2. tail' = tail
    BY <1>2
  <2>3. \A j \in DOMAIN wire'[c] \ Notes(c)' : wire'[c][j] \in Answers(c)
    BY <1>4, <1>5, <1>6, <1>8, <2>1 DEF Answers, w
  <2>4. tail[c].answer # Absent => tail[c].answer \in Answers(c)
    BY DEF Answers
  <2> QED
    BY <1>4, <2>2, <2>3, <2>4 DEF Answers
<1>10. OutputTypeOK'
  BY <1>1, <1>2, <1>3, <1>5 DEF OutputTypeOK, daemonVars, history, w
<1>11. /\ Indexed' /\ Stored' = Stored /\ \A i \in Stored' : subscriptions'[i] = subscriptions[i]
       /\ \A d \in Client : SubsOf(d)' = SubsOf(d)
  BY <1>1, <1>2, IndexedStays DEF daemonVars
<1>12. IdsOf(c)' \subseteq IdsOf(c)
  <2>1. m.sub \in IdsOf(c)
    BY <1>2 DEF IdsOf, Answers
  <2>2. \A j \in DOMAIN wire'[c] : wire'[c][j].sub \in IdsOf(c)
    <3>1. \A j \in 1..n : wire[c][j].sub \in IdsOf(c)
      BY <1>5 DEF IdsOf, w
    <3> QED
      BY <1>4, <1>5, <1>6, <2>1, <3>1 DEF w
  <2>3. tail' = tail
    BY <1>2
  <2> QED
    BY <1>9, <1>11, <2>2, <2>3 DEF IdsOf
<1>13. Steady(c)
  BY <1>2, <1>8, <1>9, <1>11, <1>12 DEF Steady, daemonVars, history
<1>14. OneId(c)' /\ AnswersAre(c)' /\ LiveRecords(c)' /\ PrintedRecords(c)'
  BY <1>1, <1>13, SteadyKeeps DEF PerClient
<1>15. Connections(c)' /\ Fresh(c)' = Fresh(c)
  <2>1. Fresh(c)' = Fresh(c)
    BY <1>2 DEF Fresh
  <2> QED
    BY <1>1, <1>2, <1>4, <1>12, <2>1 DEF Connections, daemonVars, history
<1>16. \A d \in Client \ {c} : Still(d)
  BY <1>2, <1>4, <1>11 DEF Still, daemonVars, history
<1> QED
  BY <1>2, <1>10, <1>11, <1>14, <1>15, <1>16, OneTail DEF PerClient, daemonVars, history

\* The subscription and the snapshot are of one moment.
LEMMA SubscribeKeeps ==
    ASSUME OutputInv, NEW c \in Client, HandleSubscribe(c)
    PROVE  OutputInv'
<1>1. OutputTypeOK /\ Indexed /\ Counted /\ \A d \in Client : PerClient(d)
  BY DEF OutputInv
<1> DEFINE a == request[c].agent
           sub == [conn |-> c, agent |-> a]
           ans == [sub |-> nextId, events |-> journal[a]]
<1>2. /\ c \in open /\ request[c].method = "subscribe"
      /\ request' = [request EXCEPT ![c] = NoRequest]
      /\ nextId' = nextId + 1
      /\ subscriptions' = [subscriptions EXCEPT ![nextId] = sub]
      /\ byConnection' = [byConnection EXCEPT ![c] = @ \cup {nextId}]
      /\ byType' = byType \cup {nextId}
      /\ reply' = [reply EXCEPT ![c] = ans]
      /\ joined' = [joined EXCEPT ![c] = Len(log)]
      /\ UNCHANGED <<log, journal, serving, open, wire, tail, setup>>
  BY DEF HandleSubscribe
<1>3. Connections(c) /\ Fresh(c) /\ IdsOf(c) = {} /\ tail[c].pc # "idle"
      /\ tail[c].agent = a /\ a \in Agent /\ tail[c].printed = <<>> /\ tail[c].last = 0
      /\ tail[c].pc \in {"subscribing", "closing", "gone"}
  BY <1>1, <1>2 DEF PerClient, Connections, Fresh
<1>4. /\ SubsOf(c) = {} /\ Answers(c) = {} /\ Notes(c) = {} /\ wire[c] = <<>>
      /\ OnTheWire(c) = {} /\ Buffered(c) = {} /\ tail[c].buffered = <<>>
      /\ reply[c] = Absent /\ tail[c].answer = Absent
  BY <1>1, <1>3, FreshIsEmpty
<1>5. /\ IsFiniteSet(Client) /\ Cardinality(Client) \in Nat /\ Len(log) \in 0..MaxRecords
      /\ MaxRecords \in Nat /\ nextId \in 1..(Cardinality(Client) + 1) /\ DOMAIN log = 1..Len(log)
  <2>1. nextId \in 1..(Cardinality(Client) + 1)
    BY <1>1 DEF OutputTypeOK
  <2>2. /\ IsFiniteSet(Client) /\ Cardinality(Client) \in Nat /\ Len(log) \in 0..MaxRecords
        /\ MaxRecords \in Nat /\ log \in Seq(Record)
    BY <1>1, OutputFacts
  <2> QED
    BY <2>1, <2>2
<1>6. Fresh(c)' = FALSE /\ \A d \in Client \ {c} : Fresh(d)' = Fresh(d) /\ request'[d] = request[d]
  BY <1>1, <1>2, <1>3 DEF Fresh, NoRequest, OutputTypeOK
<1>7. /\ nextId \in Ids /\ nextId' <= Cardinality(SubscribedOnce') + 1
      /\ nextId' \in 1..(Cardinality(Client) + 1)
  <2>1. SubscribedOnce' = SubscribedOnce \cup {c} /\ c \notin SubscribedOnce
    BY <1>3, <1>6 DEF SubscribedOnce
  <2>2. SubscribedOnce \cup {c} \subseteq Client /\ SubscribedOnce \subseteq Client
    BY DEF SubscribedOnce
  <2>3. IsFiniteSet(SubscribedOnce) /\ Cardinality(SubscribedOnce) \in Nat
    BY <1>5, <2>2, FS_Subset, FS_CardinalityType
  <2>4. Cardinality(SubscribedOnce \cup {c}) = Cardinality(SubscribedOnce) + 1
    BY <2>1, <2>3, FS_AddElement
  <2>5. Cardinality(SubscribedOnce \cup {c}) <= Cardinality(Client)
    BY <1>5, <2>2, FS_Subset
  <2>6. nextId <= Cardinality(SubscribedOnce) + 1
    BY <1>1 DEF Counted
  <2> QED
    BY <1>2, <1>5, <2>1, <2>3, <2>4, <2>5, <2>6 DEF Ids
<1>8. nextId \notin Stored
  <2>1. nextId \in Stored => nextId < nextId
    BY <1>1 DEF Counted
  <2> QED
    BY <1>5, <2>1
<1>9. /\ subscriptions'[nextId] = sub /\ \A i \in Ids \ {nextId} : subscriptions'[i] = subscriptions[i]
      /\ sub # Absent /\ sub.conn = c /\ sub.agent = a
      /\ subscriptions' \in [Ids -> [conn : Client, agent : Agent] \cup {Absent}]
  <2>1. sub \in [conn : Client, agent : Agent] /\ sub.conn = c /\ sub.agent = a
    BY <1>3
  <2>2. sub # Absent
    BY <1>3, Kinds
  <2> HIDE DEF sub
  <2> QED
    BY <1>1, <1>2, <1>7, <2>1, <2>2 DEF OutputTypeOK
<1>10. Stored' = Stored \cup {nextId} /\ \A i \in Stored : subscriptions'[i] = subscriptions[i]
  BY <1>7, <1>8, <1>9 DEF Stored
<1>11. SubsOf(c)' = {nextId} /\ \A d \in Client \ {c} : SubsOf(d)' = SubsOf(d)
  <2>1. SubsOf(c)' = {nextId}
    BY <1>4, <1>9, <1>10 DEF SubsOf
  <2>2. \A d \in Client \ {c} : SubsOf(d)' = SubsOf(d)
    BY <1>9, <1>10 DEF SubsOf
  <2> QED
    BY <2>1, <2>2
<1>12. Indexed' /\ byConnection' \in [Client -> SUBSET Ids] /\ byType' \subseteq Ids
  <2>1. byConnection' \in [Client -> SUBSET Ids] /\ byType' \subseteq Ids
    BY <1>1, <1>2, <1>7 DEF OutputTypeOK
  <2>2. \A d \in Client : byConnection'[d] = SubsOf(d)'
    <3>1. byConnection'[c] = byConnection[c] \cup {nextId}
          /\ \A d \in Client \ {c} : byConnection'[d] = byConnection[d]
      BY <1>1, <1>2 DEF OutputTypeOK
    <3>2. byConnection[c] = {} /\ \A d \in Client : byConnection[d] = SubsOf(d)
      BY <1>1, <1>4 DEF Indexed
    <3>3. byConnection'[c] = SubsOf(c)'
      BY <1>11, <3>1, <3>2
    <3>4. \A d \in Client \ {c} : byConnection'[d] = SubsOf(d)'
      BY <1>11, <3>1, <3>2
    <3> QED
      BY <3>3, <3>4
  <2>3. \A i \in Stored' : subscriptions'[i].conn \in open'
    BY <1>1, <1>2, <1>9, <1>10 DEF Indexed
  <2> QED
    BY <1>1, <1>2, <1>10, <2>1, <2>2, <2>3 DEF Indexed
<1>13. Counted'
  <2>1. \A i \in Stored' : i < nextId' /\ subscriptions'[i].agent = tail'[subscriptions'[i].conn].agent
    <3> SUFFICES ASSUME NEW i \in Stored'
                 PROVE  i < nextId' /\ subscriptions'[i].agent = tail'[subscriptions'[i].conn].agent
      OBVIOUS
    <3>1. CASE i = nextId
      BY <1>2, <1>3, <1>5, <1>9, <3>1
    <3>2. CASE i \in Stored
      <4>1. i < nextId /\ i \in Nat
        BY <1>1, <3>2 DEF Counted, Stored, Ids
      <4> QED
        BY <1>1, <1>2, <1>5, <1>10, <3>2, <4>1 DEF Counted
    <3> QED
      BY <1>10, <3>1, <3>2
  <2> QED
    BY <1>7, <2>1 DEF Counted
<1>14. ans \in Answer /\ ans.sub = nextId /\ ans.events = journal[a]
  BY <1>1, <1>3, <1>7 DEF OutputTypeOK, Answer
<1>15. reply'[c] = ans /\ joined'[c] = Len(log) /\ request'[c] = NoRequest
       /\ \A d \in Client \ {c} : reply'[d] = reply[d] /\ joined'[d] = joined[d]
  <2> HIDE DEF ans
  <2> QED
    BY <1>1, <1>2 DEF OutputTypeOK
<1>16. OutputTypeOK'
  <2>1. /\ reply' \in [Client -> Answer \cup {Absent}] /\ joined' \in [Client -> 0..MaxRecords]
        /\ request' \in [Client -> [method : {"subscribe"}, agent : Agent]
                                   \cup [method : {"unsubscribe"}, sub : Ids] \cup {NoRequest}]
    <3> HIDE DEF ans
    <3> QED
      BY <1>1, <1>2, <1>5, <1>14 DEF OutputTypeOK
  <2> QED
    BY <1>1, <1>2, <1>7, <1>9, <1>12, <2>1 DEF OutputTypeOK
<1>17. \A d \in Client \ {c} : Still(d)
  BY <1>2, <1>6, <1>11, <1>15 DEF Still
<1>18. /\ Notes(c)' = {} /\ OnTheWire(c)' = {} /\ Buffered(c)' = {} /\ Sent(c)' = {}
       /\ Answers(c)' = {ans} /\ IdsOf(c)' = {nextId}
  <2>1. Notes(c)' = {} /\ OnTheWire(c)' = {} /\ Buffered(c)' = {}
    BY <1>2, <1>4 DEF Notes, OnTheWire, Buffered
  <2>2. Sent(c)' = {}
    BY <1>2, <1>3, <2>1 DEF Sent, ToSet
  <2>3. ans # Absent
    BY <1>14, Kinds
  <2>4. Answers(c)' = {ans}
    <3> HIDE DEF ans
    <3> QED
      BY <1>2, <1>4, <1>15, <2>3 DEF Answers
  <2>5. IdsOf(c)' = {nextId}
    BY <1>2, <1>4, <1>11, <1>14, <2>4 DEF IdsOf
  <2> QED
    BY <2>1, <2>2, <2>4, <2>5
<1>19. PerClient(c)'
  <2>1. Connections(c)'
    BY <1>2, <1>3, <1>5, <1>6, <1>15 DEF Connections, NoRequest
  <2>2. OneId(c)'
    BY <1>18 DEF OneId
  <2>3. AnswersAre(c)'
    <3>1. JournalOf(a)
      BY <1>3 DEF OutputInv
    <3>2. Increasing(ans.events) /\ ToSet(ans.events) = Old(a, Len(log))
      BY <1>1, <1>3, <1>14, <3>1, OldOfJournal DEF JournalOf
    <3>3. Old(tail[c].agent, joined[c])' = Old(a, Len(log))
      <4>1. /\ tail'[c].agent = a /\ joined'[c] = Len(log) /\ setup' = setup
            /\ \A b : Of(b)' = Of(b)
        BY <1>2, <1>3, <1>15 DEF Of
      <4>2. \A b, k, n : Window(b, k, n)' = Window(b, k, n)
        BY <4>1 DEF Window
      <4> HIDE DEF a
      <4>3. Old(tail[c].agent, joined[c])'
               = {k \in Of(a) : k <= Len(log) /\ Cardinality(Window(a, k, Len(log))) <= setup.capacity}
        BY <4>1, <4>2 DEF Old
      <4> QED
        BY <4>3 DEF Old
    <3> HIDE DEF ans
    <3> QED
      BY <1>11, <1>14, <1>18, <3>2, <3>3 DEF AnswersAre, Increasing, ToSet
  <2>4. LiveRecords(c)'
    <3>1. tail'[c].pc # "following"
      BY <1>2, <1>3
    <3>2. \A k \in Of(tail[c].agent)' : ~(k > joined'[c])
      BY <1>2, <1>5, <1>15 DEF Of
    <3>3. NoGap(c)'
      BY <1>18, <3>2 DEF NoGap
    <3>4. InOrder(c)'
      <4>1. tail'[c].buffered = <<>>
        BY <1>2, <1>4
      <4> QED
        BY <1>18, <3>1, <4>1 DEF InOrder
    <3> QED
      BY <3>3, <3>4 DEF LiveRecords
  <2>5. PrintedRecords(c)'
    <3>1. tail'[c].printed = <<>> /\ tail'[c].last = 0 /\ tail'[c].pc # "following"
      BY <1>2, <1>3
    <3>2. Due(tail[c].agent, joined[c], tail[c].last)' = {}
      <4>1. \A k \in Of(tail[c].agent)' : k \in Nat /\ k > 0
        BY <1>2, <1>5 DEF Of
      <4> QED
        BY <3>1, <4>1 DEF Due
    <3> QED
      BY <3>1, <3>2 DEF PrintedRecords, Increasing, ToSet
  <2> QED
    BY <2>1, <2>2, <2>3, <2>4, <2>5 DEF PerClient
<1>20. \A d \in Client : PerClient(d)'
  BY <1>1, <1>17, <1>19, StillKeeps
<1>21. \A b \in Agent : JournalOf(b)'
  BY <1>2, JournalsStay DEF OutputInv
<1> QED
  BY <1>12, <1>13, <1>16, <1>20, <1>21 DEF OutputInv

LEMMA DueStays ==
    ASSUME OutputTypeOK, NEW a \in setup.agents, NEW final \in setup.finals, Publish(a, final),
           NEW b, NEW n \in 0..Len(log), NEW l \in 0..Len(log)
    PROVE  Due(b, n, l)' = Due(b, n, l)
<1>1. /\ setup' = setup /\ Len(log) \in Nat /\ Of(b) \subseteq 1..Len(log)
      /\ Of(b)' = IF b = a THEN Of(b) \cup {Len(log) + 1} ELSE Of(b)
  <2>1. Len(log) \in Nat /\ Of(b) \subseteq 1..Len(log)
    BY OutputFacts
  <2> QED
    BY <2>1, LogGrows
<1>2. \A j : j <= l \/ j <= n => (j \in Of(b)' <=> j \in Of(b))
  BY <1>1
<1>3. \A k : {j \in Of(b)' : k <= j /\ j <= n} = {j \in Of(b) : k <= j /\ j <= n}
  BY <1>2
<1> QED
  BY <1>1, <1>2, <1>3 DEF Due

\* notifyAgentOutput: a subscription of the agent is told, once, and nobody else.
LEMMA ToldIs ==
    ASSUME OutputInv, NEW a \in setup.agents, NEW final \in setup.finals, Publish(a, final),
           NEW c \in Client
    PROVE  \/ /\ SubsOf(c) = {} \/ tail[c].agent # a
              /\ wire'[c] = wire[c]
           \/ \E i \in SubsOf(c) :
                 /\ c \in open /\ tail[c].agent = a
                 /\ [sub |-> i, sequence |-> Len(log) + 1] \in Note
                 /\ wire'[c] = Append(wire[c], [sub |-> i, sequence |-> Len(log) + 1])
<1> DEFINE k == Len(log) + 1
           note(i) == [sub |-> Nth(Told(c, a), i), sequence |-> k]
<1>1. OutputTypeOK /\ Indexed /\ Counted /\ OneId(c)
  BY DEF OutputInv, PerClient
<1>2. wire'[c] = IF c \in open
                 THEN wire[c] \o [i \in 1..Cardinality(Told(c, a)) |-> note(i)]
                 ELSE wire[c]
  BY DEF Publish
<1>3. Told(c, a) = {i \in SubsOf(c) : subscriptions[i].agent = a}
  BY <1>1 DEF Told, SubsOf, Indexed, Stored
<1>4. \A i \in SubsOf(c) : subscriptions[i].agent = tail[c].agent /\ c \in open
  BY <1>1 DEF SubsOf, Counted, Indexed
<1>5. \A i, j \in SubsOf(c) : i = j
  BY <1>1 DEF OneId, IdsOf
<1>6. wire[c] \in Seq(Answer \cup Note)
  BY <1>1, OnASocket
<1>7. CASE SubsOf(c) = {} \/ tail[c].agent # a
  <2>1. Told(c, a) = {}
    BY <1>3, <1>4, <1>7
  <2>2. Cardinality(Told(c, a)) = 0
    BY <2>1, FS_EmptySet
  <2>3. [i \in 1..Cardinality(Told(c, a)) |-> note(i)] = <<>>
    <3> HIDE DEF note
    <3> QED
      BY <2>2
  <2>4. wire[c] \o <<>> = wire[c]
    BY <1>6
  <2> HIDE DEF note
  <2> QED
    BY <1>2, <1>7, <2>3, <2>4
<1>8. CASE SubsOf(c) # {} /\ tail[c].agent = a
  <2>1. PICK i \in SubsOf(c) : TRUE
    BY <1>8
  <2>2. SubsOf(c) = {i} /\ c \in open /\ Told(c, a) = {i} /\ i \in Ids
    BY <1>3, <1>4, <1>5, <1>8, <2>1 DEF SubsOf, Stored
  <2>3. Cardinality(Told(c, a)) = 1
    BY <2>2, FS_Singleton
  <2>4. i \in Nat
    BY <2>2 DEF Ids
  <2>5. note(1) = [sub |-> i, sequence |-> k]
    BY <2>2, <2>4, NthOfOne
  <2>6. [sub |-> i, sequence |-> k] \in Note
    <3>1. k \in Sequence
      BY <1>1, LogGrows DEF Sequence
    <3> QED
      BY <2>2, <3>1 DEF Note
  <2>7. [j \in 1..Cardinality(Told(c, a)) |-> note(j)] = <<[sub |-> i, sequence |-> k]>>
    <3> HIDE DEF note
    <3>1. [j \in 1..Cardinality(Told(c, a)) |-> note(j)] = <<note(1)>>
      BY <2>3
    <3> QED
      BY <2>5, <3>1
  <2> HIDE DEF note
  <2>8. wire'[c] = wire[c] \o <<[sub |-> i, sequence |-> k]>>
    BY <1>2, <2>2, <2>7
  <2> DEFINE m == [sub |-> i, sequence |-> k]
  <2> HIDE DEF m
  <2>9. wire'[c] = Append(wire[c], m)
    <3>1. m \in Answer \cup Note
      BY <2>6 DEF m
    <3>2. wire'[c] = wire[c] \o <<m>>
      BY <2>8 DEF m
    <3> QED
      BY <1>6, <3>1, <3>2, AppendIsConcat
  <2> QED
    BY <1>8, <2>1, <2>2, <2>6, <2>9 DEF m
<1> QED
  BY <1>7, <1>8

\* A client that is told nothing of the record.
LEMMA UntoldKeeps ==
    ASSUME OutputInv, NEW a \in setup.agents, NEW final \in setup.finals, Publish(a, final),
           NEW c \in Client, SubsOf(c) = {} \/ tail[c].agent # a, wire'[c] = wire[c]
    PROVE  PerClient(c)'
<1>1. OutputTypeOK /\ PerClient(c) /\ Connections(c) /\ Len(log) \in 0..MaxRecords
      /\ MaxRecords \in Nat /\ Of(tail[c].agent) \subseteq 1..Len(log)
  BY OutputFacts DEF OutputInv, PerClient
<1>2. UNCHANGED <<subscriptions, byConnection, byType, open, reply, request, tail, joined>>
  BY DEF Publish, history
<1>3. /\ Len(log') = Len(log) + 1 /\ setup' = setup
      /\ \A b : Of(b)' = IF b = a THEN Of(b) \cup {Len(log) + 1} ELSE Of(b)
      /\ \A b : \A n \in 0..Len(log) : Old(b, n)' = Old(b, n)
  BY <1>1, LogGrows
<1>4. /\ Stored' = Stored /\ SubsOf(c)' = SubsOf(c) /\ Notes(c)' = Notes(c)
      /\ OnTheWire(c)' = OnTheWire(c) /\ Buffered(c)' = Buffered(c)
      /\ Fresh(c)' = Fresh(c)
  BY <1>2 DEF Stored, SubsOf, Notes, OnTheWire, Buffered, Fresh
<1>5. Answers(c)' = Answers(c) /\ Sent(c)' = Sent(c)
  BY <1>2, <1>4 DEF Answers, Sent
<1>6. IdsOf(c)' = IdsOf(c)
  BY <1>2, <1>4, <1>5 DEF IdsOf
<1>7. joined[c] \in 0..Len(log) /\ tail[c].last \in 0..Len(log)
  <2>1. joined[c] \in 0..MaxRecords /\ tail[c] \in TailState
    BY <1>1, OnASocket DEF OutputTypeOK
  <2>2. tail[c].last \in 0..MaxRecords
    BY <2>1 DEF TailState
  <2> QED
    BY <1>1, <2>1, <2>2 DEF Connections
<1>8. Connections(c)'
  BY <1>1, <1>2, <1>3, <1>4, <1>6, <1>7 DEF Connections
<1>9. OneId(c)'
  BY <1>1, <1>6 DEF PerClient, OneId
<1>10. Old(tail[c].agent, joined[c])' = Old(tail[c].agent, joined[c])
  BY <1>2, <1>3, <1>7
<1>11. AnswersAre(c)'
  BY <1>1, <1>2, <1>4, <1>5, <1>10 DEF PerClient, AnswersAre, Increasing, ToSet
<1>12. LiveRecords(c)'
  <2> SUFFICES ASSUME tail[c].pc \in Tailing PROVE NoGap(c)' /\ InOrder(c)'
    BY <1>2 DEF LiveRecords
  <2>1. NoGap(c) /\ InOrder(c)
    BY <1>1 DEF PerClient, LiveRecords
  <2> PICK x : x = tail[c].agent
    OBVIOUS
  <2>2. /\ Of(x) \subseteq Of(x)'
        /\ \A j \in Of(x)' : j \in Of(x) \/ j = Len(log) + 1
    BY <1>3
  <2>3. \A k \in Sent(c) : k \in 1..Len(log)
    BY <1>1, <2>1 DEF NoGap
  <2>4. \A k \in Sent(c), j \in Of(x)' : j < k => j \in Of(x)
    BY <1>1, <2>2, <2>3
  <2>5. SubsOf(c) # {} => Of(x)' = Of(x)
    BY <1>3
  <2>6. NoGap(c)'
    <3>1. \A k \in Sent(c) : /\ k \in Of(x)' /\ k > joined[c]
                             /\ \A j \in Of(x)' : joined[c] < j /\ j < k => j \in Sent(c)
      BY <2>1, <2>2, <2>4 DEF NoGap
    <3>2. SubsOf(c) # {} => \A k \in Of(x)' : k > joined[c] => k \in Sent(c)
      BY <2>1, <2>5 DEF NoGap
    <3>3. tail' = tail /\ joined' = joined /\ tail'[c].agent = x
      BY <1>2
    <3> QED
      BY <1>4, <1>5, <3>1, <3>2, <3>3 DEF NoGap
  <2>7. InOrder(c)'
    BY <1>2, <1>4, <2>1 DEF InOrder
  <2> QED
    BY <2>6, <2>7
<1>13. PrintedRecords(c)'
  <2>1. Due(tail[c].agent, joined[c], tail[c].last)' = Due(tail[c].agent, joined[c], tail[c].last)
    <3>1. tail' = tail /\ joined' = joined
      BY <1>2
    <3>2. \A b : Due(b, joined[c], tail[c].last)' = Due(b, joined[c], tail[c].last)
      BY <1>1, <1>7, <3>1, DueStays
    <3> QED
      BY <3>1, <3>2
  <2> QED
    BY <1>1, <1>2, <1>10, <2>1 DEF PerClient, PrintedRecords, Increasing, ToSet
<1> QED
  BY <1>8, <1>9, <1>11, <1>12, <1>13 DEF PerClient

\* A client that is told of it.
LEMMA ToldKeeps ==
    ASSUME OutputInv, NEW a \in setup.agents, NEW final \in setup.finals, Publish(a, final),
           NEW c \in Client, NEW i \in SubsOf(c), NEW m \in Note, m.sub = i,
           m.sequence = Len(log) + 1, tail[c].agent = a, wire'[c] = Append(wire[c], m)
    PROVE  PerClient(c)'
<1> DEFINE w == wire[c]  n == Len(w)  k == Len(log) + 1
<1>1. OutputTypeOK /\ PerClient(c) /\ Connections(c) /\ Len(log) \in 0..MaxRecords
      /\ MaxRecords \in Nat /\ Of(a) \subseteq 1..Len(log)
  BY OutputFacts DEF OutputInv, PerClient
<1>2. UNCHANGED <<subscriptions, byConnection, byType, open, reply, request, tail, joined>>
  BY DEF Publish, history
<1>3. /\ Len(log') = k /\ setup' = setup /\ Of(a)' = Of(a) \cup {k}
      /\ \A b : \A l \in 0..Len(log) : Old(b, l)' = Old(b, l)
  BY <1>1, LogGrows
<1>4. w \in Seq(Answer \cup Note) /\ ~IsAnswer(m)
  BY <1>1, OnASocket, Kinds
<1>5. /\ n \in Nat /\ DOMAIN w = 1..n /\ DOMAIN Append(w, m) = 1..(n + 1)
      /\ \A j \in 1..n : Append(w, m)[j] = w[j]
      /\ Append(w, m)[n + 1] = m
  BY <1>4
<1> HIDE DEF n, w
<1>6. /\ \A j \in 1..(n + 1) : j \in 1..n \/ j = n + 1
      /\ \A j \in 1..n : j \in 1..(n + 1) /\ j < n + 1
      /\ n + 1 \in 1..(n + 1)
  BY <1>5
<1>7. /\ DOMAIN wire'[c] = 1..(n + 1) /\ \A j \in 1..n : wire'[c][j] = wire[c][j]
      /\ wire'[c][n + 1] = m
  BY <1>5 DEF w
<1>8. Notes(c) \subseteq 1..n /\ Notes(c)' = Notes(c) \cup {n + 1}
      /\ DOMAIN wire'[c] \ Notes(c)' = DOMAIN wire[c] \ Notes(c)
  <2>1. Notes(c) = {j \in 1..n : ~IsAnswer(wire[c][j])}
    BY <1>5 DEF Notes, w
  <2>2. Notes(c)' = {j \in 1..(n + 1) : ~IsAnswer(wire'[c][j])}
    BY <1>7 DEF Notes, IsAnswer
  <2>3. Notes(c)' = Notes(c) \cup {n + 1}
    BY <1>4, <1>6, <1>7, <2>1, <2>2
  <2>4. n + 1 \notin 1..n
    BY <1>5
  <2> QED
    BY <1>5, <1>6, <1>7, <2>1, <2>3, <2>4 DEF w
<1>9. OnTheWire(c)' = OnTheWire(c) \cup {k}
  <2>1. \A j \in Notes(c) : wire'[c][j].sequence = wire[c][j].sequence
    BY <1>7, <1>8
  <2>2. wire'[c][n + 1].sequence = k
    BY <1>7
  <2> HIDE DEF k
  <2> QED
    BY <1>8, <2>1, <2>2 DEF OnTheWire
<1>10. /\ Stored' = Stored /\ SubsOf(c)' = SubsOf(c)
       /\ Buffered(c)' = Buffered(c) /\ Fresh(c)' = Fresh(c)
  BY <1>2 DEF Stored, SubsOf, Buffered, Fresh
<1>11. Answers(c)' = Answers(c)
  <2>1. \A j \in DOMAIN wire[c] \ Notes(c) : wire'[c][j] = wire[c][j]
    BY <1>5, <1>7 DEF w
  <2> QED
    BY <1>2, <1>8, <2>1 DEF Answers
<1>12. Sent(c)' = Sent(c) \cup {k}
  <2> HIDE DEF k
  <2> QED
    BY <1>2, <1>9, <1>10 DEF Sent
<1>13. IdsOf(c)' \subseteq IdsOf(c) /\ IdsOf(c) # {}
  <2>1. i \in IdsOf(c)
    BY DEF IdsOf
  <2>2. \A j \in DOMAIN wire'[c] : wire'[c][j].sub \in IdsOf(c)
    <3>1. \A j \in 1..n : wire[c][j].sub \in IdsOf(c)
      BY <1>5 DEF IdsOf, w
    <3> QED
      BY <1>6, <1>7, <2>1, <3>1
  <2> QED
    BY <1>2, <1>10, <1>11, <2>1, <2>2 DEF IdsOf
<1>14. joined[c] \in 0..Len(log) /\ tail[c].last \in 0..Len(log)
  <2>1. joined[c] \in 0..MaxRecords /\ tail[c] \in TailState
    BY <1>1, OnASocket DEF OutputTypeOK
  <2>2. tail[c].last \in 0..MaxRecords
    BY <2>1 DEF TailState
  <2> QED
    BY <1>1, <2>1, <2>2 DEF Connections
<1>15. Connections(c)'
  <2>1. ~Fresh(c)
    BY <1>1, <1>13 DEF Connections
  <2> QED
    BY <1>1, <1>2, <1>3, <1>10, <1>14, <2>1 DEF Connections
<1>16. OneId(c)'
  BY <1>1, <1>13 DEF PerClient, OneId
<1>17. Old(tail[c].agent, joined[c])' = Old(tail[c].agent, joined[c])
  BY <1>2, <1>3, <1>14
<1>18. AnswersAre(c)'
  BY <1>1, <1>2, <1>10, <1>11, <1>17 DEF PerClient, AnswersAre, Increasing, ToSet
<1>19. LiveRecords(c)'
  <2> SUFFICES ASSUME tail[c].pc \in Tailing PROVE NoGap(c)' /\ InOrder(c)'
    BY <1>2 DEF LiveRecords
  <2>1. NoGap(c) /\ InOrder(c) /\ SubsOf(c) # {}
    BY <1>1 DEF PerClient, LiveRecords
  <2>2. k > joined[c] /\ \A j \in Of(a) : j < k /\ j \in Nat
    BY <1>1, <1>14
  <2>3. Sent(c) \subseteq Of(a) /\ \A x \in Sent(c) : x < k /\ ~(k < x)
    BY <2>1, <2>2 DEF NoGap
  <2>4. \A j \in Of(a) : joined[c] < j => j \in Sent(c)
    BY <1>1, <1>14, <2>1, <2>2 DEF NoGap
  <2>5. NoGap(c)'
    <3> HIDE DEF k
    <3>1. \A x \in Sent(c) \cup {k} :
             /\ x \in Of(a) \cup {k} /\ x > joined[c]
             /\ \A j \in Of(a) \cup {k} : joined[c] < j /\ j < x => j \in Sent(c) \cup {k}
      BY <2>1, <2>2, <2>3, <2>4 DEF NoGap
    <3>2. \A x \in Of(a) \cup {k} : x > joined[c] => x \in Sent(c) \cup {k}
      <4>1. \A x \in Of(a) : x > joined[c] => joined[c] < x
        BY <1>14, <2>2
      <4> QED
        BY <2>4, <4>1
    <3> QED
      BY <1>2, <1>3, <1>12, <3>1, <3>2 DEF NoGap
  <2>6. OnTheWire(c) \subseteq Sent(c) /\ Buffered(c) \subseteq Sent(c)
    BY DEF Sent
  <2>7. InOrder(c)'
    <3>1. \A x \in Notes(c)', y \in Notes(c)' :
             x < y => wire'[c][x].sequence < wire'[c][y].sequence
      <4> SUFFICES ASSUME NEW x \in Notes(c)', NEW y \in Notes(c)', x < y
                   PROVE  wire'[c][x].sequence < wire'[c][y].sequence
        OBVIOUS
      <4>1. x \in 1..n /\ x \in Notes(c)
        BY <1>5, <1>8
      <4>2. CASE y = n + 1
        <5>1. wire[c][x].sequence \in OnTheWire(c)
          BY <4>1 DEF OnTheWire
        <5>2. wire[c][x].sequence < k
          BY <2>3, <2>6, <5>1
        <5> QED
          BY <1>7, <4>1, <4>2, <5>2
      <4>3. CASE y # n + 1
        <5>1. y \in 1..n /\ y \in Notes(c)
          BY <1>8, <4>3
        <5> QED
          BY <1>7, <2>1, <4>1, <5>1 DEF InOrder
      <4> QED
        BY <4>2, <4>3
    <3>2. \A x \in Buffered(c), y \in OnTheWire(c) \cup {k} : x < y
      BY <2>1, <2>3, <2>6 DEF InOrder
    <3>3. tail[c].pc = "following" =>
             tail[c].buffered = <<>> /\ \A j \in OnTheWire(c) \cup {k} : tail[c].last < j
      BY <1>14, <2>1 DEF InOrder
    <3> HIDE DEF k
    <3> QED
      BY <1>2, <1>9, <1>10, <2>1, <3>1, <3>2, <3>3 DEF InOrder
  <2> QED
    BY <2>5, <2>7
<1>20. PrintedRecords(c)'
  <2>1. Due(tail[c].agent, joined[c], tail[c].last)' = Due(tail[c].agent, joined[c], tail[c].last)
    <3>1. tail' = tail /\ joined' = joined
      BY <1>2
    <3>2. \A b : Due(b, joined[c], tail[c].last)' = Due(b, joined[c], tail[c].last)
      BY <1>1, <1>14, <3>1, DueStays
    <3> QED
      BY <3>1, <3>2
  <2> QED
    BY <1>1, <1>2, <1>17, <2>1 DEF PerClient, PrintedRecords, Increasing, ToSet
<1> QED
  BY <1>15, <1>16, <1>18, <1>19, <1>20 DEF PerClient

LEMMA PublishKeeps ==
    ASSUME OutputInv, NEW a \in setup.agents, NEW final \in setup.finals, Publish(a, final)
    PROVE  OutputInv'
<1>1. OutputTypeOK /\ Indexed /\ Counted
  BY DEF OutputInv
<1>2. UNCHANGED <<nextId, subscriptions, byConnection, byType, serving, open, reply, request,
                  tail, joined, setup>>
  BY DEF Publish, history
<1>3. ASSUME NEW c \in Client
      PROVE  PerClient(c)' /\ wire'[c] \in Seq(Answer \cup Note)
  <2>1. wire[c] \in Seq(Answer \cup Note)
    BY <1>1, OnASocket
  <2>2. CASE (SubsOf(c) = {} \/ tail[c].agent # a) /\ wire'[c] = wire[c]
    BY <2>1, <2>2, UntoldKeeps
  <2>3. ASSUME NEW i \in SubsOf(c), tail[c].agent = a,
               [sub |-> i, sequence |-> Len(log) + 1] \in Note,
               wire'[c] = Append(wire[c], [sub |-> i, sequence |-> Len(log) + 1])
        PROVE  PerClient(c)' /\ wire'[c] \in Seq(Answer \cup Note)
    <3> DEFINE m == [sub |-> i, sequence |-> Len(log) + 1]
    <3>1. m \in Note /\ m.sub = i /\ m.sequence = Len(log) + 1 /\ wire'[c] = Append(wire[c], m)
      BY <2>3
    <3> HIDE DEF m
    <3>2. PerClient(c)'
      BY <2>3, <3>1, ToldKeeps
    <3>3. wire'[c] \in Seq(Answer \cup Note)
      BY <2>1, <3>1
    <3> QED
      BY <3>2, <3>3
  <2> QED
    BY <2>2, <2>3, ToldIs
<1>4. \A b \in Agent : JournalOf(b)' /\ journal'[b] \in Seq(Sequence)
  BY <1>1, JournalGrows DEF OutputInv
<1>5. OutputTypeOK'
  <2>1. log' \in Seq(Record) /\ Len(log') <= MaxRecords
    <3>1. log' \in Seq(Record) /\ Len(log') = Len(log) + 1 /\ Len(log) + 1 \in 1..MaxRecords
      BY <1>1, LogGrows
    <3> QED
      BY <3>1, OutputAssumption
  <2>2. journal' \in [Agent -> Seq(Sequence)]
    <3>1. journal' = [b \in Agent |-> journal'[b]]
      BY <1>1 DEF OutputTypeOK, Publish
    <3> QED
      BY <1>4, <3>1
  <2>3. \A b \in Agent : Len(journal'[b]) <= setup'.capacity
    BY <1>4 DEF JournalOf
  <2>4. wire' \in [Client -> Seq(Answer \cup Note)]
    <3>1. wire' = [c \in Client |-> wire'[c]]
      BY DEF Publish
    <3> QED
      BY <1>3, <3>1
  <2> QED
    BY <1>1, <1>2, <2>1, <2>2, <2>3, <2>4 DEF OutputTypeOK
<1>6. Indexed' /\ Stored' = Stored /\ \A i \in Stored' : subscriptions'[i] = subscriptions[i]
  BY <1>1, <1>2, IndexedStays
<1>7. Counted'
  <2>1. SubscribedOnce' = SubscribedOnce
    BY <1>2 DEF SubscribedOnce, Fresh
  <2> QED
    BY <1>1, <1>2, <1>6, <2>1, CountedStays
<1> QED
  BY <1>3, <1>4, <1>5, <1>6, <1>7 DEF OutputInv

\* The client reads what is first on its socket.
LEMMA SocketShifts ==
    ASSUME OutputTypeOK, NEW c \in Client, wire[c] # <<>>, wire'[c] = Tail(wire[c])
    PROVE  LET m == Head(wire[c])
           IN  /\ m \in Answer \cup Note /\ Tail(wire[c]) \in Seq(Answer \cup Note)
               /\ 1 \in DOMAIN wire[c] /\ wire[c][1] = m
               /\ \A j \in DOMAIN wire'[c] :
                     /\ j + 1 \in DOMAIN wire[c] /\ 1 < j + 1 /\ wire'[c][j] = wire[c][j + 1]
                     /\ j \in Notes(c)' <=> j + 1 \in Notes(c)
               /\ \A j \in DOMAIN wire[c] : j # 1 => j - 1 \in DOMAIN wire'[c] /\ (j - 1) + 1 = j
               /\ IsAnswer(m) => OnTheWire(c)' = OnTheWire(c)
               /\ ~IsAnswer(m) => /\ 1 \in Notes(c)
                                  /\ OnTheWire(c) = OnTheWire(c)' \cup {m.sequence}
<1> DEFINE w == wire[c]  n == Len(w)  v == Tail(w)  m == Head(w)
<1>1. w \in Seq(Answer \cup Note) /\ w # <<>>
  BY OnASocket
<1>2. /\ n \in Nat /\ n >= 1 /\ DOMAIN w = 1..n /\ w[1] = m
      /\ v \in Seq(Answer \cup Note) /\ DOMAIN v = 1..(n - 1)
      /\ \A j \in 1..(n - 1) : v[j] = w[j + 1]
  <2> HIDE DEF w
  <2> QED
    BY <1>1
<1>3. m \in Answer \cup Note
  <2> HIDE DEF w
  <2> QED
    BY <1>1
<1> HIDE DEF w, n, v, m
<1>4. /\ \A j \in 1..(n - 1) : j + 1 \in 1..n /\ 1 < j + 1
      /\ \A j \in 1..n : j # 1 => j - 1 \in 1..(n - 1) /\ (j - 1) + 1 = j
      /\ 1 \in 1..n
  BY <1>2
<1>5. wire'[c] = v /\ wire[c] = w
  BY DEF v, w
<1>6. Notes(c) = {j \in 1..n : ~IsAnswer(w[j])}
  BY <1>2, <1>5 DEF Notes
<1>7. Notes(c)' = {j \in 1..(n - 1) : ~IsAnswer(v[j])}
  BY <1>2, <1>5 DEF Notes, IsAnswer
<1>8. \A j \in 1..(n - 1) : j \in Notes(c)' <=> j + 1 \in Notes(c)
  BY <1>2, <1>4, <1>6, <1>7
<1>9. OnTheWire(c) = {w[j].sequence : j \in Notes(c)}
      /\ OnTheWire(c)' = {v[j].sequence : j \in Notes(c)'}
  BY <1>5 DEF OnTheWire
<1>10. OnTheWire(c)' \subseteq OnTheWire(c)
  BY <1>2, <1>7, <1>8, <1>9
<1>11. \A j \in Notes(c) : j # 1 => w[j].sequence \in OnTheWire(c)'
  <2> SUFFICES ASSUME NEW j \in Notes(c), j # 1 PROVE w[j].sequence \in OnTheWire(c)'
    OBVIOUS
  <2>1. j - 1 \in 1..(n - 1) /\ (j - 1) + 1 = j
    BY <1>4, <1>6
  <2>2. j - 1 \in Notes(c)' /\ v[j - 1] = w[j]
    BY <1>2, <1>8, <2>1
  <2> QED
    BY <1>9, <2>2
<1>12. 1 \in Notes(c) <=> ~IsAnswer(m)
  BY <1>2, <1>4, <1>6
<1>13. IsAnswer(m) => OnTheWire(c)' = OnTheWire(c)
  BY <1>9, <1>10, <1>11, <1>12
<1>14. ~IsAnswer(m) => OnTheWire(c) = OnTheWire(c)' \cup {m.sequence}
  BY <1>2, <1>9, <1>10, <1>11, <1>12
<1> QED
  BY <1>2, <1>3, <1>4, <1>5, <1>8, <1>12, <1>13, <1>14 DEF v, m, w

\* What a tail reads or replays changes itself alone.
LEMMA ReadingKeeps ==
    ASSUME OutputInv, NEW c \in Client, NEW r \in TailState, NEW w \in Seq(Answer \cup Note),
           tail' = [tail EXCEPT ![c] = r], wire' = [wire EXCEPT ![c] = w],
           r.agent = tail[c].agent, r.pc # "idle", ~Fresh(c), PerClient(c)',
           UNCHANGED <<daemonVars, serving, open, reply, request, history>>
    PROVE  OutputInv'
<1>1. OutputTypeOK /\ Indexed
  BY DEF OutputInv
<1>2. /\ tail'[c] = r /\ \A d \in Client \ {c} : tail'[d] = tail[d] /\ wire'[d] = wire[d]
      /\ wire' \in [Client -> Seq(Answer \cup Note)]
  BY <1>1 DEF OutputTypeOK
<1>3. OutputTypeOK'
  <2>1. /\ open' \subseteq Client /\ reply' \in [Client -> Answer \cup {Absent}]
        /\ request' \in [Client -> [method : {"subscribe"}, agent : Agent]
                                   \cup [method : {"unsubscribe"}, sub : Ids] \cup {NoRequest}]
    BY <1>1 DEF OutputTypeOK
  <2> QED
    BY <1>1, <1>2, <2>1, TypesOfATail DEF history
<1>4. /\ Indexed' /\ Stored' = Stored /\ \A i \in Stored' : subscriptions'[i] = subscriptions[i]
      /\ \A d \in Client : SubsOf(d)' = SubsOf(d)
  BY <1>1, IndexedStays DEF daemonVars
<1>5. \A d \in Client \ {c} : Still(d)
  BY <1>2, <1>4 DEF Still, daemonVars, history
<1>6. ~Fresh(c)'
  BY <1>2 DEF Fresh
<1> QED
  BY <1>2, <1>3, <1>4, <1>5, <1>6, OneTail DEF daemonVars, history

\* What the data handler does with what it reads: the answer it awaits, a
\* notification ahead of the replay, one after it, or nothing of use.
LEMMA ReceiveIs ==
    ASSUME OutputTypeOK, NEW c \in Client, PerClient(c), Deliver(c)
    PROVE  LET t == tail[c]
               m == Head(wire[c])
               r == Receive(t, m)
           IN  /\ ~Fresh(c) /\ r \in TailState
               /\ r.agent = t.agent
               /\ r.pc = t.pc \/ (t.pc = "subscribing" /\ r.pc = "answered")
               /\ \/ /\ IsAnswer(m) /\ t.pc = "subscribing" /\ r.pc = "answered" /\ r.answer = m
                     /\ r.buffered = t.buffered /\ r.printed = t.printed /\ r.last = t.last
                  \/ /\ m \in Note /\ t.pc \in {"subscribing", "answered"} /\ r.pc = t.pc
                     /\ r.buffered = Append(t.buffered, m)
                     /\ r.answer = t.answer /\ r.printed = t.printed /\ r.last = t.last
                  \/ /\ m \in Note /\ t.pc = "following" /\ r.pc = t.pc
                     /\ r.answer = t.answer /\ r.buffered = t.buffered
                     /\ r.last = m.sequence /\ r.printed = Append(t.printed, m.sequence)
                  \/ r = t /\ (t.pc \in Tailing => IsAnswer(m))
<1> DEFINE t == tail[c]  m == Head(wire[c])  r == Receive(t, m)
<1>1. /\ Connections(c) /\ OneId(c) /\ LiveRecords(c) /\ wire[c] # <<>>
      /\ wire'[c] = Tail(wire[c])
  BY DEF PerClient, Deliver, OutputTypeOK
<1>2. /\ m \in Answer \cup Note /\ 1 \in DOMAIN wire[c] /\ wire[c][1] = m
      /\ ~IsAnswer(m) => OnTheWire(c) = OnTheWire(c)' \cup {m.sequence}
  BY <1>1, SocketShifts
<1>3. ~Fresh(c)
  <2>1. m.sub \in IdsOf(c)
    BY <1>2 DEF IdsOf
  <2> QED
    BY <1>1, <2>1 DEF Connections
<1>4. t \in TailState /\ t.pc \in Stages
  BY OnASocket DEF TailState
<1>5. IsAnswer(m) <=> m \in Answer
  BY <1>2, Kinds
<1> HIDE DEF t, m
<1>6. CASE IsAnswer(m) /\ t.pc = "subscribing"
  <2>1. r = [t EXCEPT !.pc = "answered", !.answer = m]
    BY <1>6 DEF Receive, IsAnswer
  <2>2. r \in TailState /\ r.agent = t.agent /\ r.pc = "answered" /\ r.answer = m
        /\ r.buffered = t.buffered /\ r.printed = t.printed /\ r.last = t.last
    <3> HIDE DEF r
    <3> QED
      BY <1>4, <1>5, <1>6, <2>1 DEF TailState, Stages, Tailing
  <2> QED
    BY <1>3, <1>6, <2>2 DEF t, m
<1>7. CASE IsAnswer(m) /\ t.pc # "subscribing"
  <2>1. r = t
    BY <1>7 DEF Receive, IsAnswer
  <2> QED
    BY <1>3, <1>4, <1>7, <2>1 DEF t, m
<1>8. CASE ~IsAnswer(m) /\ t.pc \in {"subscribing", "answered"}
  <2>1. r = [t EXCEPT !.buffered = Append(t.buffered, m)]
    BY <1>8 DEF Receive, IsAnswer
  <2>2. m \in Note
    BY <1>2, <1>5, <1>8
  <2>3. Append(t.buffered, m) \in Seq(Note)
    BY <1>4, <2>2 DEF TailState
  <2>4. /\ r \in TailState /\ r.agent = t.agent /\ r.pc = t.pc
        /\ r.buffered = Append(t.buffered, m)
        /\ r.answer = t.answer /\ r.printed = t.printed /\ r.last = t.last
    <3> DEFINE b == Append(t.buffered, m)
    <3> HIDE DEF r, b
    <3> QED
      BY <1>4, <2>1, <2>3 DEF TailState, b
  <2> QED
    BY <1>3, <1>8, <2>2, <2>4 DEF t, m
<1>9. CASE ~IsAnswer(m) /\ t.pc = "following"
  <2>1. m \in Note /\ m.sub \in Ids
    BY <1>2, <1>5, <1>9, Kinds
  <2>2. t.answer # Absent
    BY <1>1, <1>9 DEF Connections, t
  <2>3. m.sub = t.answer.sub
    <3>1. t.answer \in Answers(c)
      BY <2>2 DEF Answers, t
    <3>2. t.answer.sub \in IdsOf(c) /\ m.sub \in IdsOf(c)
      BY <1>2, <3>1 DEF IdsOf
    <3> QED
      BY <1>1, <3>2 DEF OneId
  <2>4. r = WriteRecord(t, m.sequence)
    BY <1>9, <2>3 DEF Receive, IsAnswer
  <2>5. m.sequence \in OnTheWire(c)
    BY <1>2, <1>9
  <2>6. NoGap(c) /\ InOrder(c)
    BY <1>1, <1>9 DEF LiveRecords, Tailing, t
  <2>7. t.last < m.sequence
    BY <1>9, <2>5, <2>6 DEF InOrder, t
  <2>8. m.sequence \in DOMAIN log
    <3>1. m.sequence \in Sent(c)
      BY <2>5 DEF Sent
    <3> QED
      BY <2>6, <3>1 DEF NoGap, Of
  <2>9. log \in Seq(Record) /\ Len(log) <= MaxRecords /\ MaxRecords \in Nat
    BY OutputAssumption DEF OutputTypeOK
  <2>10. m.sequence > t.last
    BY <2>7
  <2>11. /\ r \in TailState /\ r.pc = t.pc /\ r.agent = t.agent /\ r.answer = t.answer
         /\ r.buffered = t.buffered /\ r.last = m.sequence
         /\ r.printed = Append(t.printed, m.sequence)
    <3> HIDE DEF r
    <3> QED
      BY <1>4, <2>4, <2>8, <2>9, <2>10, WriteAbove
  <2> QED
    BY <1>3, <1>9, <2>1, <2>11 DEF t, m
<1>10. CASE ~IsAnswer(m) /\ t.pc \notin Tailing
  <2>1. r = t
    BY <1>10 DEF Receive, IsAnswer, Tailing
  <2> QED
    BY <1>3, <1>4, <1>10, <2>1 DEF t, m
<1> QED
  BY <1>4, <1>6, <1>7, <1>8, <1>9, <1>10 DEF Tailing

\* A step that publishes nothing and subscribes nobody.
LEMMA NothingPublished ==
    ASSUME UNCHANGED <<log, setup>>
    PROVE  /\ \A a : Of(a)' = Of(a)
           /\ \A a, n : Old(a, n)' = Old(a, n)
           /\ \A a, n, l : Due(a, n, l)' = Due(a, n, l)
<1>1. \A a : Of(a)' = Of(a)
  BY DEF Of
<1>2. \A a, k, n : Window(a, k, n)' = Window(a, k, n)
  BY <1>1 DEF Window
<1>3. \A a, n : Old(a, n)' = Old(a, n)
  BY <1>1, <1>2 DEF Old
<1>4. \A a, n, l : Due(a, n, l)' = Due(a, n, l)
  BY <1>1 DEF Due
<1> QED
  BY <1>1, <1>3, <1>4

\* The notifications that are left on the socket are in order.
LEMMA OrderShifts ==
    ASSUME OutputTypeOK, NEW c \in Client, wire[c] # <<>>, wire'[c] = Tail(wire[c]), InOrder(c)
    PROVE  /\ \A i, j \in Notes(c)' : i < j => wire'[c][i].sequence < wire'[c][j].sequence
           /\ OnTheWire(c)' \subseteq OnTheWire(c)
           /\ ~IsAnswer(Head(wire[c])) =>
                 \A k \in OnTheWire(c)' : Head(wire[c]).sequence < k
<1> DEFINE m == Head(wire[c])
<1>1. /\ 1 \in DOMAIN wire[c] /\ wire[c][1] = m
      /\ \A j \in DOMAIN wire'[c] :
            /\ j + 1 \in DOMAIN wire[c] /\ 1 < j + 1 /\ wire'[c][j] = wire[c][j + 1]
            /\ j \in Notes(c)' <=> j + 1 \in Notes(c)
      /\ IsAnswer(m) => OnTheWire(c)' = OnTheWire(c)
      /\ ~IsAnswer(m) => 1 \in Notes(c) /\ OnTheWire(c) = OnTheWire(c)' \cup {m.sequence}
  BY SocketShifts
<1> HIDE DEF m
<1>2. \A j \in Notes(c)' : j \in DOMAIN wire'[c] /\ j \in Nat
  <2>1. Tail(wire[c]) \in Seq(Answer \cup Note)
    BY SocketShifts
  <2>2. wire'[c] \in Seq(Answer \cup Note)
    BY <2>1
  <2>3. \A j \in DOMAIN wire'[c] : j \in Nat
    BY <2>2
  <2> QED
    BY <2>3 DEF Notes
<1>3. \A i, j \in Notes(c)' : i < j => wire'[c][i].sequence < wire'[c][j].sequence
  <2> SUFFICES ASSUME NEW i \in Notes(c)', NEW j \in Notes(c)', i < j
               PROVE  wire'[c][i].sequence < wire'[c][j].sequence
    OBVIOUS
  <2>1. /\ wire'[c][i] = wire[c][i + 1] /\ wire'[c][j] = wire[c][j + 1]
        /\ i + 1 \in Notes(c) /\ j + 1 \in Notes(c) /\ i + 1 < j + 1
    BY <1>1, <1>2
  <2> QED
    BY <2>1 DEF InOrder
<1>4. ASSUME ~IsAnswer(m), NEW k \in OnTheWire(c)' PROVE m.sequence < k
  <2>1. PICK j \in Notes(c)' : k = wire'[c][j].sequence
    BY DEF OnTheWire
  <2>2. j + 1 \in Notes(c) /\ 1 \in Notes(c) /\ 1 < j + 1 /\ wire'[c][j] = wire[c][j + 1]
    BY <1>1, <1>2, <1>4
  <2> QED
    BY <1>1, <2>1, <2>2 DEF InOrder
<1>5. OnTheWire(c)' \subseteq OnTheWire(c)
  BY <1>1
<1> QED
  BY <1>3, <1>4, <1>5 DEF m

LEMMA AppendNote ==
    ASSUME NEW s \in Seq(Note), NEW m \in Note
    PROVE  /\ DOMAIN Append(s, m) = DOMAIN s \cup {Len(s) + 1}
           /\ Len(s) \in Nat /\ DOMAIN s = 1..Len(s) /\ Len(s) + 1 \notin DOMAIN s
           /\ \A j \in DOMAIN s : Append(s, m)[j] = s[j]
           /\ Append(s, m)[Len(s) + 1] = m
<1>1. /\ Len(s) \in Nat /\ DOMAIN s = 1..Len(s) /\ DOMAIN Append(s, m) = 1..(Len(s) + 1)
      /\ \A j \in DOMAIN s : Append(s, m)[j] = s[j]
      /\ Append(s, m)[Len(s) + 1] = m
  OBVIOUS
<1>2. 1..(Len(s) + 1) = 1..Len(s) \cup {Len(s) + 1} /\ Len(s) + 1 \notin 1..Len(s)
  BY <1>1
<1> QED
  BY <1>1, <1>2

LEMMA DeliverKeeps ==
    ASSUME OutputInv, NEW c \in Client, Deliver(c)
    PROVE  OutputInv'
<1> DEFINE t == tail[c]  m == Head(wire[c])  r == Receive(t, m)  k == m.sequence
<1>1. /\ OutputTypeOK /\ PerClient(c) /\ Connections(c) /\ OneId(c) /\ AnswersAre(c)
      /\ LiveRecords(c) /\ PrintedRecords(c)
  BY DEF OutputInv, PerClient
<1>2. /\ wire[c] # <<>> /\ wire' = [wire EXCEPT ![c] = Tail(wire[c])]
      /\ tail' = [tail EXCEPT ![c] = r]
      /\ UNCHANGED <<daemonVars, serving, open, reply, request, history>>
  BY DEF Deliver
<1>3. wire'[c] = Tail(wire[c]) /\ tail'[c] = r
  BY <1>1, <1>2 DEF OutputTypeOK
<1>4. /\ m \in Answer \cup Note /\ Tail(wire[c]) \in Seq(Answer \cup Note)
      /\ 1 \in DOMAIN wire[c] /\ wire[c][1] = m
      /\ \A j \in DOMAIN wire'[c] :
            /\ j + 1 \in DOMAIN wire[c] /\ 1 < j + 1 /\ wire'[c][j] = wire[c][j + 1]
            /\ j \in Notes(c)' <=> j + 1 \in Notes(c)
      /\ IsAnswer(m) => OnTheWire(c)' = OnTheWire(c)
      /\ ~IsAnswer(m) => 1 \in Notes(c) /\ OnTheWire(c) = OnTheWire(c)' \cup {k}
  BY <1>1, <1>2, <1>3, SocketShifts
<1>5. /\ ~Fresh(c) /\ r \in TailState /\ r.agent = t.agent
      /\ r.pc = t.pc \/ (t.pc = "subscribing" /\ r.pc = "answered")
  BY <1>1, ReceiveIs
<1> DEFINE AnAnswer == /\ IsAnswer(m) /\ t.pc = "subscribing" /\ r.pc = "answered" /\ r.answer = m
                       /\ r.buffered = t.buffered /\ r.printed = t.printed /\ r.last = t.last
           Ahead == /\ m \in Note /\ t.pc \in {"subscribing", "answered"} /\ r.pc = t.pc
                    /\ r.buffered = Append(t.buffered, m)
                    /\ r.answer = t.answer /\ r.printed = t.printed /\ r.last = t.last
           Live == /\ m \in Note /\ t.pc = "following" /\ r.pc = t.pc
                   /\ r.answer = t.answer /\ r.buffered = t.buffered
                   /\ r.last = k /\ r.printed = Append(t.printed, k)
           Useless == r = t /\ (t.pc \in Tailing => IsAnswer(m))
<1>6. AnAnswer \/ Ahead \/ Live \/ Useless
  BY <1>1, ReceiveIs
<1>7. /\ Stored' = Stored /\ SubsOf(c)' = SubsOf(c) /\ log' = log /\ setup' = setup
      /\ joined' = joined /\ open' = open /\ reply' = reply /\ request' = request
  BY <1>2 DEF Stored, SubsOf, daemonVars, history
<1>8. /\ \A a : Of(a)' = Of(a)
      /\ \A a, n : Old(a, n)' = Old(a, n)
      /\ \A a, n, l : Due(a, n, l)' = Due(a, n, l)
  BY <1>7, NothingPublished
<1>9. t \in TailState /\ t.buffered \in Seq(Note) /\ t.printed \in Seq(Sequence)
  BY <1>1, OnASocket DEF TailState
<1>10. m \in Note => ~IsAnswer(m) /\ k \in Sequence
  BY Kinds
<1>11. Tail(wire[c]) = wire'[c] /\ tail[c] = t /\ r.pc # "idle"
  BY <1>3, <1>5 DEF Fresh
<1> HIDE DEF t, r, m, k
<1>12. Answers(c)' \subseteq Answers(c)
  <2>1. \A j \in DOMAIN wire'[c] \ Notes(c)' : wire'[c][j] \in Answers(c)
    BY <1>4 DEF Answers
  <2>2. r.answer # Absent => r.answer \in Answers(c)
    <3>1. t.answer # Absent => t.answer \in Answers(c)
      BY DEF Answers, t
    <3>2. IsAnswer(m) => m \in Answers(c)
      BY <1>4 DEF Answers, Notes
    <3> QED
      BY <1>6, <3>1, <3>2
  <2> QED
    BY <1>3, <1>7, <2>1, <2>2 DEF Answers
<1>13. IdsOf(c)' \subseteq IdsOf(c)
  <2>1. \A j \in DOMAIN wire'[c] : wire'[c][j].sub \in IdsOf(c)
    BY <1>4 DEF IdsOf
  <2>2. m.sub \in IdsOf(c)
    BY <1>4 DEF IdsOf
  <2>3. \A j \in DOMAIN r.buffered : r.buffered[j].sub \in IdsOf(c)
    <3>1. \A j \in DOMAIN t.buffered : t.buffered[j].sub \in IdsOf(c)
      BY DEF IdsOf, t
    <3>2. CASE Ahead
      <4>1. /\ DOMAIN r.buffered = DOMAIN t.buffered \cup {Len(t.buffered) + 1}
            /\ \A j \in DOMAIN t.buffered : r.buffered[j] = t.buffered[j]
            /\ r.buffered[Len(t.buffered) + 1] = m
        BY <1>9, <3>2, AppendNote
      <4> QED
        BY <2>2, <3>1, <4>1
    <3>3. CASE ~Ahead
      BY <1>6, <3>1, <3>3
    <3> QED
      BY <3>2, <3>3
  <2> QED
    BY <1>3, <1>7, <1>12, <2>1, <2>3 DEF IdsOf
<1>14. OneId(c)'
  BY <1>1, <1>13 DEF OneId
<1>15. AnswersAre(c)'
  <2> SUFFICES ASSUME NEW x \in Answers(c)'
               PROVE  /\ Increasing(x.events)
                      /\ ToSet(x.events) = Old(tail[c].agent, joined[c])'
                      /\ c \in open' /\ tail'[c].pc \in Tailing => x.sub \in SubsOf(c)'
    BY DEF AnswersAre, Increasing, ToSet
  <2>1. x \in Answers(c)
    BY <1>12
  <2>2. tail'[c].pc \in Tailing => tail[c].pc \in Tailing
    BY <1>3, <1>5, <1>11 DEF Tailing
  <2>3. Old(tail[c].agent, joined[c])' = Old(tail[c].agent, joined[c])
    BY <1>3, <1>5, <1>7, <1>8, <1>11
  <2> QED
    BY <1>1, <1>7, <2>1, <2>2, <2>3 DEF AnswersAre
<1>16. ASSUME t.pc \in Tailing, ~IsAnswer(m)
       PROVE  /\ k \in Of(t.agent) /\ k > joined[c] /\ k \in OnTheWire(c)
              /\ \A x \in Buffered(c) : x < k
              /\ \A x \in OnTheWire(c)' : k < x
              /\ \A j \in Of(t.agent) : joined[c] < j /\ j < k => j \in Sent(c)
  <2>1. NoGap(c) /\ InOrder(c) /\ k \in OnTheWire(c) /\ k \in Sent(c)
    BY <1>1, <1>4, <1>11, <1>16 DEF LiveRecords, Sent
  <2>2. \A x \in OnTheWire(c)' : k < x
    BY <1>1, <1>2, <1>3, <1>16, <2>1, OrderShifts DEF k, m
  <2> QED
    BY <1>11, <2>1, <2>2 DEF NoGap, InOrder
<1>17. Buffered(c)' = IF Ahead THEN Buffered(c) \cup {k} ELSE Buffered(c)
  <2>1. Buffered(c)' = {r.buffered[j].sequence : j \in DOMAIN r.buffered}
    BY <1>3 DEF Buffered
  <2>2. Buffered(c) = {t.buffered[j].sequence : j \in DOMAIN t.buffered}
    BY <1>11 DEF Buffered
  <2>3. CASE Ahead
    <3>1. /\ DOMAIN r.buffered = DOMAIN t.buffered \cup {Len(t.buffered) + 1}
          /\ \A j \in DOMAIN t.buffered : r.buffered[j] = t.buffered[j]
          /\ r.buffered[Len(t.buffered) + 1] = m
      BY <1>9, <2>3, AppendNote
    <3> QED
      BY <2>1, <2>2, <2>3, <3>1 DEF k
  <2>4. CASE ~Ahead
    BY <1>6, <2>1, <2>2, <2>4
  <2> QED
    BY <2>3, <2>4
<1>18. Live => /\ Increasing(r.printed) /\ ToSet(r.printed) = ToSet(t.printed) \cup {k}
               /\ \A x \in ToSet(t.printed) : x < k
  <2> SUFFICES ASSUME Live
               PROVE  /\ Increasing(r.printed) /\ ToSet(r.printed) = ToSet(t.printed) \cup {k}
                      /\ \A x \in ToSet(t.printed) : x < k
    OBVIOUS
  <2>1. MaxRecords \in Nat
    BY OutputAssumption
  <2>2. Sequence \subseteq Nat
    BY <2>1 DEF Sequence
  <2>3. t.printed \in Seq(Nat) /\ k \in Nat /\ Increasing(t.printed) /\ t.last \in Nat
    <3>1. t.printed \in Seq(Nat)
      BY <1>9, <2>2, SeqMonotonic
    <3>2. t.last \in Nat
      BY <1>9, <2>1 DEF TailState
    <3> QED
      BY <1>1, <1>10, <1>11, <2>2, <3>1, <3>2 DEF PrintedRecords
  <2>4. t.last < k
    BY <1>1, <1>10, <1>11, <1>16 DEF LiveRecords, InOrder, Tailing
  <2>5. \A x \in ToSet(t.printed) : x < k
    <3>1. \A x \in ToSet(t.printed) : x <= t.last
      BY <1>1, <1>11 DEF PrintedRecords, Due
    <3>2. \A x \in ToSet(t.printed) : x \in Nat
      BY <2>3 DEF ToSet
    <3> QED
      BY <2>3, <2>4, <3>1, <3>2
  <2> QED
    BY <2>3, <2>5, IncreasingAppend
<1>19. t.pc \in Tailing => Sent(c)' = Sent(c)
  <2> SUFFICES ASSUME t.pc \in Tailing PROVE Sent(c)' = Sent(c)
    OBVIOUS
  <2>1. Sent(c) = OnTheWire(c) \cup Buffered(c) \cup {x \in ToSet(t.printed) : x > joined[c]}
    BY <1>11 DEF Sent
  <2>2. Sent(c)' = OnTheWire(c)' \cup Buffered(c)' \cup {x \in ToSet(r.printed) : x > joined[c]}
    BY <1>3, <1>7 DEF Sent, ToSet
  <2>3. CASE Ahead
    BY <1>4, <1>10, <1>17, <2>1, <2>2, <2>3
  <2>4. CASE Live
    <3>1. ~Ahead /\ k > joined[c]
      BY <1>10, <1>16, <2>4 DEF Tailing
    <3> QED
      BY <1>4, <1>10, <1>17, <1>18, <2>1, <2>2, <2>4, <3>1
  <2>5. CASE AnAnswer \/ Useless
    <3>1. IsAnswer(m) /\ r.printed = t.printed
      BY <2>5
    <3>2. ~Ahead
      BY <1>10, <3>1
    <3> QED
      BY <1>4, <1>17, <2>1, <2>2, <3>1, <3>2
  <2> QED
    BY <1>6, <2>3, <2>4, <2>5
<1>20. LiveRecords(c)'
  <2> SUFFICES ASSUME tail'[c].pc \in Tailing PROVE NoGap(c)' /\ InOrder(c)'
    BY DEF LiveRecords
  <2>1. t.pc \in Tailing
    BY <1>3, <1>5 DEF Tailing
  <2>2. NoGap(c) /\ InOrder(c)
    BY <1>1, <1>11, <2>1 DEF LiveRecords
  <2>3. Sent(c)' = Sent(c)
    BY <1>19, <2>1
  <2>4. NoGap(c)'
    <3>1. tail'[c].agent = tail[c].agent /\ Of(tail[c].agent)' = Of(tail[c].agent)
      BY <1>3, <1>5, <1>8, <1>11
    <3> QED
      BY <1>7, <2>2, <2>3, <3>1 DEF NoGap
  <2>5. /\ \A i, j \in Notes(c)' : i < j => wire'[c][i].sequence < wire'[c][j].sequence
        /\ OnTheWire(c)' \subseteq OnTheWire(c)
    BY <1>1, <1>2, <1>3, <2>2, OrderShifts
  <2>6. \A i, j \in DOMAIN r.buffered : i < j => r.buffered[i].sequence < r.buffered[j].sequence
    <3>1. \A i, j \in DOMAIN t.buffered : i < j => t.buffered[i].sequence < t.buffered[j].sequence
      BY <1>11, <2>2 DEF InOrder
    <3>2. CASE Ahead
      <4>1. /\ DOMAIN r.buffered = DOMAIN t.buffered \cup {Len(t.buffered) + 1}
            /\ Len(t.buffered) \in Nat /\ DOMAIN t.buffered = 1..Len(t.buffered)
            /\ \A j \in DOMAIN t.buffered : r.buffered[j] = t.buffered[j]
            /\ r.buffered[Len(t.buffered) + 1] = m
        BY <1>9, <3>2, AppendNote
      <4>2. \A i \in DOMAIN t.buffered : t.buffered[i].sequence < k
        <5>1. \A i \in DOMAIN t.buffered : t.buffered[i].sequence \in Buffered(c)
          BY <1>11 DEF Buffered
        <5> QED
          BY <1>10, <1>16, <2>1, <3>2, <5>1
      <4>3. \A i, j \in DOMAIN r.buffered : i < j => i \in DOMAIN t.buffered
        BY <4>1
      <4> SUFFICES ASSUME NEW i \in DOMAIN t.buffered, NEW j \in DOMAIN r.buffered, i < j
                   PROVE  r.buffered[i].sequence < r.buffered[j].sequence
        BY <4>3
      <4>4. CASE j \in DOMAIN t.buffered
        BY <3>1, <4>1, <4>4
      <4>5. CASE j = Len(t.buffered) + 1
        BY <4>1, <4>2, <4>5 DEF k
      <4> QED
        BY <4>1, <4>4, <4>5
    <3>3. CASE ~Ahead
      BY <1>6, <3>1, <3>3
    <3> QED
      BY <3>2, <3>3
  <2>7. \A x \in Buffered(c)', j \in OnTheWire(c)' : x < j
    <3>1. \A x \in Buffered(c), j \in OnTheWire(c)' : x < j
      BY <2>2, <2>5 DEF InOrder
    <3>2. Ahead => \A j \in OnTheWire(c)' : k < j
      BY <1>10, <1>16, <2>1
    <3> QED
      BY <1>17, <3>1, <3>2
  <2>8. ASSUME r.pc = "following"
        PROVE  r.buffered = <<>> /\ \A j \in OnTheWire(c)' : r.last < j
    <3>1. t.pc = "following" /\ ~AnAnswer /\ ~Ahead
      BY <1>5, <2>8
    <3>2. t.buffered = <<>> /\ \A j \in OnTheWire(c) : t.last < j
      BY <1>11, <2>2, <3>1 DEF InOrder
    <3>3. CASE Live
      BY <1>10, <1>16, <2>1, <3>2, <3>3
    <3>4. CASE Useless
      BY <2>5, <3>2, <3>4
    <3> QED
      BY <1>6, <3>1, <3>3, <3>4
  <2>9. InOrder(c)'
    BY <1>3, <2>5, <2>6, <2>7, <2>8 DEF InOrder
  <2> QED
    BY <2>4, <2>9
<1>21. PrintedRecords(c)'
  <2>1. /\ Due(tail[c].agent, joined[c], tail[c].last)' = Due(t.agent, joined[c], r.last)
        /\ Old(tail[c].agent, joined[c])' = Old(t.agent, joined[c])
    BY <1>3, <1>5, <1>7, <1>8
  <2>2. /\ Increasing(t.printed) /\ ToSet(t.printed) = Due(t.agent, joined[c], t.last)
        /\ t.pc = "following" => Old(t.agent, joined[c]) \subseteq ToSet(t.printed)
    BY <1>1, <1>11 DEF PrintedRecords
  <2>3. /\ Increasing(r.printed) /\ ToSet(r.printed) = Due(t.agent, joined[c], r.last)
        /\ r.pc = "following" => Old(t.agent, joined[c]) \subseteq ToSet(r.printed)
    <3>1. CASE Live
      <4>1. /\ k \in Of(t.agent) /\ k > joined[c] /\ k \in Nat /\ t.last \in Nat /\ joined[c] \in Nat
            /\ t.last < k /\ t.buffered = <<>> /\ \A x \in OnTheWire(c) : k <= x
        <5>1. t.pc \in Tailing /\ ~IsAnswer(m) /\ MaxRecords \in Nat
          BY <1>10, <3>1, OutputAssumption DEF Tailing
        <5>2. /\ InOrder(c) /\ k \in Of(t.agent) /\ k > joined[c] /\ k \in OnTheWire(c)
              /\ \A x \in OnTheWire(c)' : k < x
          BY <1>1, <1>11, <1>16, <5>1 DEF LiveRecords
        <5>3. k \in Nat /\ t.last \in Nat /\ joined[c] \in Nat
          BY <1>1, <1>9, <1>10, <3>1, <5>1 DEF Sequence, TailState, OutputTypeOK
        <5>4. t.last < k /\ t.buffered = <<>>
          BY <1>11, <3>1, <5>2 DEF InOrder
        <5>5. \A x \in OnTheWire(c) : x = k \/ k < x
          BY <1>4, <5>1, <5>2
        <5>6. \A x \in OnTheWire(c) : x \in Nat
          <6>1. OnTheWire(c) \subseteq Sequence
            BY <1>1, OnASocket
          <6> QED
            BY <5>1, <6>1 DEF Sequence
        <5>7. \A x \in OnTheWire(c) : k <= x
          BY <5>3, <5>5, <5>6
        <5> QED
          BY <5>2, <5>3, <5>4, <5>7
      <4>2. \A x \in Of(t.agent) : x \in Nat
        <5>1. Of(t.agent) \subseteq 1..Len(log) /\ Len(log) \in 0..MaxRecords
          BY <1>1, OutputFacts
        <5> QED
          BY <5>1
      <4>3. \A x \in ToSet(t.printed) : x <= t.last
        BY <2>2 DEF Due
      <4>4. ASSUME NEW x \in Of(t.agent), x > joined[c], x < k PROVE x <= t.last
        <5>1. x \in Sent(c)
          BY <1>10, <1>16, <3>1, <4>1, <4>2, <4>4 DEF Tailing
        <5>2. x \in Nat /\ k \in Nat /\ (x \in OnTheWire(c) => k <= x)
          BY <4>1, <4>2
        <5>3. x \notin OnTheWire(c)
          BY <4>4, <5>2
        <5>4. Buffered(c) = {}
          BY <1>11, <4>1 DEF Buffered
        <5>5. x \in ToSet(t.printed)
          BY <1>11, <5>1, <5>3, <5>4 DEF Sent
        <5> QED
          BY <4>3, <5>5
      <4>5. ASSUME NEW x \in Due(t.agent, joined[c], k), x # k PROVE x \in ToSet(t.printed)
        <5>1. x \in Of(t.agent) /\ x <= k /\ x \in Nat
          BY <4>2 DEF Due
        <5>2. CASE x > joined[c]
          <6>1. x < k
            BY <4>1, <4>5, <5>1
          <6>2. x <= t.last
            BY <4>4, <5>1, <5>2, <6>1
          <6>3. x \in Due(t.agent, joined[c], t.last)
            BY <5>1, <5>2, <6>2 DEF Due
          <6> QED
            BY <2>2, <6>3
        <5>3. CASE ~(x > joined[c])
          <6>1. Cardinality({j \in Of(t.agent) : x <= j /\ j <= joined[c]}) <= setup.capacity
            BY <5>3 DEF Due
          <6>2. x <= joined[c]
            BY <4>1, <5>1, <5>3
          <6>3. x \in Old(t.agent, joined[c])
            BY <5>1, <6>1, <6>2 DEF Old, Window
          <6> QED
            BY <2>2, <3>1, <6>3
        <5> QED
          BY <5>2, <5>3
      <4>6. k \in Due(t.agent, joined[c], k)
        BY <4>1 DEF Due
      <4>7. ToSet(t.printed) \subseteq Due(t.agent, joined[c], k)
        <5> SUFFICES ASSUME NEW x \in Due(t.agent, joined[c], t.last)
                     PROVE  x \in Due(t.agent, joined[c], k)
          BY <2>2
        <5>1. x \in Of(t.agent) /\ x <= t.last /\ x \in Nat
          BY <4>2 DEF Due
        <5>2. x <= k
          BY <4>1, <5>1
        <5> QED
          BY <5>2 DEF Due
      <4>8. Increasing(r.printed) /\ ToSet(r.printed) = ToSet(t.printed) \cup {k}
        BY <1>18, <3>1
      <4>9. ToSet(r.printed) = Due(t.agent, joined[c], k)
        BY <4>5, <4>6, <4>7, <4>8
      <4> QED
        BY <2>2, <3>1, <4>8, <4>9
    <3>2. CASE ~Live
      <4>1. r.printed = t.printed /\ r.last = t.last
        BY <1>6, <3>2
      <4>2. r.pc = "following" => t.pc = "following"
        BY <1>5
      <4> QED
        BY <2>2, <4>1, <4>2
    <3> QED
      BY <3>1, <3>2
  <2> QED
    BY <1>3, <2>1, <2>3 DEF PrintedRecords, Increasing, ToSet
<1>22. Connections(c)'
  <2>1. ~Fresh(c)' /\ request[c].method # "subscribe" /\ request[c] = request'[c]
    BY <1>3, <1>5, <1>7, <1>11 DEF Fresh
  <2>2. r.last <= Len(log)
    <3>1. CASE Live
      <4>1. k \in Of(t.agent) /\ Of(t.agent) \subseteq 1..Len(log) /\ Len(log) \in 0..MaxRecords
        BY <1>1, <1>10, <1>16, <3>1, OutputFacts DEF Tailing
      <4>2. MaxRecords \in Nat
        BY OutputAssumption
      <4> QED
        BY <3>1, <4>1, <4>2
    <3>2. CASE ~Live
      BY <1>1, <1>6, <1>11, <3>2 DEF Connections
    <3> QED
      BY <3>1, <3>2
  <2>3. r.pc \in {"answered", "following", "unsubscribing"} => r.answer # Absent
    <3>1. IsAnswer(m) => m # Absent
      BY <1>4, Kinds
    <3> QED
      BY <1>1, <1>6, <1>11, <3>1 DEF Connections
  <2>4. r.pc \in {"idle", "subscribing", "answered"} => r.printed = <<>> /\ r.last = 0
    <3>1. t.pc \in {"idle", "subscribing", "answered"} => t.printed = <<>> /\ t.last = 0
      BY <1>1, <1>11 DEF Connections
    <3> QED
      BY <1>5, <1>6, <3>1
  <2>5. t.pc # "idle" /\ t.agent \in Agent
    BY <1>1, <1>5, <1>11 DEF Connections, Fresh
  <2>6. request[c].method = "unsubscribe" => r.pc \in {"unsubscribing", "gone"}
    BY <1>1, <1>5, <1>11 DEF Connections
  <2> QED
    BY <1>1, <1>3, <1>5, <1>7, <1>11, <2>1, <2>2, <2>3, <2>4, <2>5, <2>6 DEF Connections
<1>23. PerClient(c)'
  BY <1>14, <1>15, <1>20, <1>21, <1>22 DEF PerClient
<1> QED
  BY <1>2, <1>4, <1>5, <1>11, <1>23, ReadingKeeps

\* A tail that holds its answer, and what it has buffered, is due exactly these
\* records, and the loop of writeOrderedRecords finds them in order.
LEMMA ReplayIs ==
    ASSUME OutputTypeOK, NEW c \in Client, PerClient(c), tail[c].pc = "answered"
    PROVE  LET t == tail[c]
               s == t.answer.events \o Kept(t)
           IN  /\ t.answer \in Answer
               /\ s \in Seq(Nat) /\ Increasing(s) /\ Ordered(s) = s
               /\ ToSet(s) = Old(t.agent, joined[c]) \cup Buffered(c)
               /\ \A x \in Buffered(c) : x \in Nat /\ x > joined[c]
               /\ \A x \in Old(t.agent, joined[c]) : x \in Nat /\ x <= joined[c]
               /\ ToSet(s) \subseteq Of(t.agent)
<1> DEFINE t == tail[c]  b == t.buffered  n == Len(b)  events == t.answer.events  kept == Kept(t)
<1>1. /\ Connections(c) /\ OneId(c) /\ AnswersAre(c) /\ NoGap(c) /\ InOrder(c)
      /\ MaxRecords \in Nat
  BY OutputAssumption DEF PerClient, LiveRecords, Tailing
<1>2. t \in TailState /\ t.answer \in Answer /\ t.answer \in Answers(c)
  BY <1>1, OnASocket DEF Connections, Answers, TailState
<1>3. b \in Seq(Note) /\ events \in Seq(Sequence) /\ Sequence \subseteq Nat
  BY <1>1, <1>2, Kinds DEF TailState, Sequence
<1>4. Increasing(events) /\ ToSet(events) = Old(t.agent, joined[c])
  BY <1>1, <1>2 DEF AnswersAre
<1>5. events \in Seq(Nat)
  BY <1>3, SeqMonotonic
<1>6. n \in Nat /\ DOMAIN b = 1..n /\ \A j \in 1..n : b[j] \in Note
  <2> HIDE DEF b
  <2> QED
    BY <1>3
<1>7. \A j \in 1..n : b[j].sub = t.answer.sub
  <2>1. \A j \in 1..n : b[j].sub \in IdsOf(c)
    BY <1>6 DEF IdsOf
  <2>2. t.answer.sub \in IdsOf(c)
    BY <1>2 DEF IdsOf
  <2> QED
    BY <1>1, <2>1, <2>2 DEF OneId
<1>8. kept = [i \in 1..n |-> b[i].sequence]
  <2> DEFINE own == {j \in DOMAIN b : b[j].sub = t.answer.sub}
  <2>1. own = 1..n
    BY <1>6, <1>7
  <2>2. Cardinality(own) = n
    BY <1>6, <2>1, UpTo
  <2>3. kept = [i \in 1..Cardinality(own) |-> b[Nth(own, i)].sequence]
    BY DEF Kept
  <2> HIDE DEF kept, own, n, b
  <2>4. \A i \in 1..n : Nth(own, i) = i
    BY <1>6, <2>1, NthOfInterval
  <2> QED
    BY <2>2, <2>3, <2>4
<1> HIDE DEF kept
<1>9. /\ DOMAIN kept = 1..n /\ \A i \in 1..n : kept[i] = b[i].sequence /\ kept[i] \in Nat
      /\ kept \in Seq(Nat)
  <2>1. \A i \in 1..n : b[i].sequence \in Nat
    BY <1>3, <1>6, Kinds
  <2> HIDE DEF n, b
  <2> QED
    BY <1>6, <1>8, <2>1
<1>10. Increasing(kept) /\ ToSet(kept) = Buffered(c)
  <2>1. Buffered(c) = {b[j].sequence : j \in 1..n}
    BY <1>6 DEF Buffered
  <2>2. \A i, j \in 1..n : i < j => b[i].sequence < b[j].sequence
    BY <1>1, <1>6 DEF InOrder
  <2> HIDE DEF b, n
  <2>3. ToSet(kept) = {kept[j] : j \in 1..n}
    BY <1>9 DEF ToSet
  <2> QED
    BY <1>9, <2>1, <2>2, <2>3 DEF Increasing
<1>11. \A x \in Buffered(c) : x \in Nat /\ x > joined[c] /\ x \in Of(t.agent)
  <2>1. Buffered(c) \subseteq Sent(c) /\ Buffered(c) \subseteq Sequence
    BY OnASocket DEF Sent
  <2> QED
    BY <1>1, <1>3, <2>1 DEF NoGap
<1>12. \A x \in Old(t.agent, joined[c]) : x \in Nat /\ x <= joined[c] /\ x \in Of(t.agent)
  <2>1. Of(t.agent) \subseteq Sequence
    BY OutputFacts
  <2> QED
    BY <1>3, <2>1 DEF Old
<1>13. joined[c] \in Nat
  BY <1>1 DEF OutputTypeOK
<1> HIDE DEF events
<1>14. \A x \in ToSet(events), y \in ToSet(kept) : x < y
  BY <1>4, <1>10, <1>11, <1>12, <1>13
<1>15. /\ events \o kept \in Seq(Nat) /\ Increasing(events \o kept)
       /\ ToSet(events \o kept) = ToSet(events) \cup ToSet(kept)
  BY <1>4, <1>5, <1>9, <1>10, <1>14, IncreasingChain
<1>16. Ordered(events \o kept) = events \o kept
  BY <1>15, IncreasingIsOrdered
<1>17. ToSet(events \o kept) \subseteq Of(t.agent)
  BY <1>4, <1>10, <1>11, <1>12, <1>15
<1> QED
  BY <1>2, <1>4, <1>10, <1>11, <1>12, <1>15, <1>16, <1>17 DEF events, kept

\* The last of what goes up is the greatest.
LEMMA IncreasingLast ==
    ASSUME NEW s \in Seq(Nat), Increasing(s), s # <<>>
    PROVE  s[Len(s)] \in ToSet(s) /\ \A x \in ToSet(s) : x <= s[Len(s)]
<1> DEFINE n == Len(s)
<1>1. n \in Nat /\ n >= 1 /\ DOMAIN s = 1..n /\ \A i \in 1..n : s[i] \in Nat
  OBVIOUS
<1> HIDE DEF n
<1>2. n \in 1..n
  BY <1>1
<1>3. \A i \in 1..n : s[i] <= s[n]
  <2> SUFFICES ASSUME NEW i \in 1..n PROVE s[i] <= s[n]
    OBVIOUS
  <2>1. i = n \/ i < n
    BY <1>1
  <2>2. i < n => s[i] < s[n]
    BY <1>1, <1>2 DEF Increasing
  <2>3. s[i] \in Nat /\ s[n] \in Nat
    BY <1>1, <1>2
  <2> QED
    BY <2>1, <2>2, <2>3
<1> QED
  BY <1>1, <1>2, <1>3 DEF ToSet, n

LEMMA ContinueKeeps ==
    ASSUME OutputInv, NEW c \in Client, Continue(c)
    PROVE  OutputInv'
<1> DEFINE t == tail[c]  s == t.answer.events \o Kept(t)  p == Replayed(t)
           r == [p EXCEPT !.pc = "following", !.buffered = <<>>]
           old == Old(t.agent, joined[c])
<1>1. /\ OutputTypeOK /\ PerClient(c) /\ Connections(c) /\ OneId(c) /\ AnswersAre(c)
      /\ LiveRecords(c) /\ PrintedRecords(c) /\ MaxRecords \in Nat
  BY OutputAssumption DEF OutputInv, PerClient
<1>2. /\ t.pc = "answered" /\ tail' = [tail EXCEPT ![c] = r]
      /\ UNCHANGED <<daemonVars, serving, open, reply, request, wire, history>>
  BY DEF Continue
<1>3. tail'[c] = r /\ wire' = wire /\ wire = [wire EXCEPT ![c] = wire[c]]
      /\ wire[c] \in Seq(Answer \cup Note) /\ t \in TailState
  BY <1>1, <1>2, OnASocket DEF OutputTypeOK
<1>4. /\ t.answer \in Answer /\ s \in Seq(Nat) /\ Increasing(s) /\ Ordered(s) = s
      /\ ToSet(s) = old \cup Buffered(c)
      /\ \A x \in Buffered(c) : x \in Nat /\ x > joined[c]
      /\ \A x \in old : x \in Nat /\ x <= joined[c]
      /\ ToSet(s) \subseteq Of(t.agent)
  BY <1>1, <1>2, ReplayIs
<1>5. t.printed = <<>> /\ t.last = 0 /\ t.agent \in Agent
  BY <1>1, <1>2 DEF Connections
<1>6. NoGap(c) /\ InOrder(c)
  BY <1>1, <1>2 DEF LiveRecords, Tailing
<1>7. /\ \A a : Of(a) \subseteq 1..Len(log) /\ Of(a) \subseteq DOMAIN log
      /\ Len(log) \in 0..MaxRecords /\ log \in Seq(Record) /\ Len(log) <= MaxRecords
  BY <1>1, OutputFacts DEF OutputTypeOK
<1>8. p = Written(t, s)
  BY <1>4 DEF Replayed
<1> HIDE DEF t, s
<1>9. /\ p \in TailState /\ p.agent = t.agent /\ p.answer = t.answer
      /\ p.last = (IF s = <<>> THEN 0 ELSE s[Len(s)]) /\ p.printed = s
  <2>1. ToSet(s) \subseteq DOMAIN log
    BY <1>4, <1>7
  <2> HIDE DEF p
  <2> QED
    BY <1>1, <1>3, <1>4, <1>5, <1>7, <1>8, <2>1, WrittenIs
<1> HIDE DEF p
<1>10. /\ r \in TailState /\ r.agent = t.agent /\ r.answer = t.answer /\ r.pc = "following"
       /\ r.buffered = <<>> /\ r.printed = s /\ r.last = (IF s = <<>> THEN 0 ELSE s[Len(s)])
  <2>1. <<>> \in Seq(Note) /\ "following" \in Stages
    BY DEF Stages, Tailing
  <2>2. r \in TailState /\ r.agent = p.agent /\ r.answer = p.answer /\ r.pc = "following"
        /\ r.buffered = <<>> /\ r.printed = p.printed /\ r.last = p.last
    BY <1>9, <2>1 DEF TailState
  <2> HIDE DEF r
  <2> QED
    BY <1>9, <2>2
<1> HIDE DEF r
<1>11. r.last \in Nat /\ (\A x \in ToSet(s) : x <= r.last) /\ (r.last = 0 \/ r.last \in ToSet(s))
  <2>1. r.last \in Nat
    BY <1>1, <1>10 DEF TailState
  <2>2. CASE s = <<>>
    BY <1>10, <2>1, <2>2 DEF ToSet
  <2>3. CASE s # <<>>
    BY <1>4, <1>10, <2>1, <2>3, IncreasingLast
  <2> QED
    BY <2>2, <2>3
<1>12. \A x \in Of(t.agent) : x \in Nat /\ x > 0
  <2>1. Of(t.agent) \subseteq 1..Len(log)
    BY <1>7
  <2> QED
    BY <1>1, <1>7, <2>1
<1>13. /\ Stored' = Stored /\ SubsOf(c)' = SubsOf(c) /\ log' = log /\ setup' = setup
       /\ joined' = joined /\ open' = open /\ reply' = reply /\ request' = request
  BY <1>2 DEF Stored, SubsOf, daemonVars, history
<1>14. /\ \A a : Of(a)' = Of(a)
       /\ \A a, n : Old(a, n)' = Old(a, n)
       /\ \A a, n, l : Due(a, n, l)' = Due(a, n, l)
  BY <1>13, NothingPublished
<1>15. /\ Notes(c)' = Notes(c) /\ OnTheWire(c)' = OnTheWire(c) /\ Buffered(c)' = {}
       /\ Answers(c)' = Answers(c)
  <2>1. Notes(c)' = Notes(c)
    BY <1>3 DEF Notes
  <2>2. OnTheWire(c)' = OnTheWire(c)
    BY <1>3, <2>1 DEF OnTheWire
  <2>3. Buffered(c)' = {}
    BY <1>3, <1>10 DEF Buffered
  <2>4. tail'[c].answer = tail[c].answer
    BY <1>3, <1>10 DEF t
  <2>5. Answers(c)' = Answers(c)
    BY <1>3, <1>13, <2>1, <2>4 DEF Answers
  <2> QED
    BY <2>1, <2>2, <2>3, <2>5
<1>16. IdsOf(c)' \subseteq IdsOf(c)
  <2>1. tail'[c].buffered = <<>>
    BY <1>3, <1>10
  <2> QED
    BY <1>3, <1>13, <1>15, <2>1 DEF IdsOf
<1>17. OneId(c)'
  BY <1>1, <1>16 DEF OneId
<1>18. joined[c] \in Nat /\ \A x \in OnTheWire(c) : x \in Nat /\ x > joined[c]
  <2>1. OnTheWire(c) \subseteq Sequence /\ OnTheWire(c) \subseteq Sent(c)
    BY <1>1, OnASocket DEF Sent
  <2> QED
    BY <1>1, <1>6, <2>1 DEF NoGap, Sequence, OutputTypeOK
<1>19. Sent(c)' = Sent(c) /\ Sent(c) = OnTheWire(c) \cup Buffered(c)
  <2>1. Sent(c) = OnTheWire(c) \cup Buffered(c)
    <3>1. ToSet(tail[c].printed) = {}
      BY <1>5 DEF ToSet, t
    <3> QED
      BY <3>1 DEF Sent
  <2>2. Sent(c)' = OnTheWire(c) \cup {x \in ToSet(s) : x > joined[c]}
    BY <1>3, <1>10, <1>13, <1>15 DEF Sent, ToSet
  <2>3. {x \in ToSet(s) : x > joined[c]} = Buffered(c)
    <3>1. \A x \in old : ~(x > joined[c])
      BY <1>4, <1>18
    <3> HIDE DEF old
    <3> QED
      BY <1>4, <3>1
  <2> QED
    BY <2>1, <2>2, <2>3
<1>20. ToSet(s) = Due(t.agent, joined[c], r.last)
  <2>1. ASSUME NEW x \in ToSet(s) PROVE x \in Due(t.agent, joined[c], r.last)
    <3>1. x \in Of(t.agent) /\ x <= r.last
      BY <1>4, <1>11
    <3>2. x \in Buffered(c) => x > joined[c]
      BY <1>4
    <3>3. x \in old => Cardinality({j \in Of(t.agent) : x <= j /\ j <= joined[c]}) <= setup.capacity
      BY DEF Old, Window
    <3> QED
      BY <1>4, <3>1, <3>2, <3>3 DEF Due
  <2>2. ASSUME NEW x \in Due(t.agent, joined[c], r.last) PROVE x \in ToSet(s)
    <3>1. x \in Of(t.agent) /\ x <= r.last /\ x \in Nat /\ x > 0
      BY <1>12 DEF Due
    <3>2. r.last \in ToSet(s)
      BY <1>11, <3>1
    <3>3. CASE x > joined[c]
      <4>1. r.last \in Buffered(c)
        <5>1. r.last > joined[c]
          BY <1>11, <1>18, <3>1, <3>3
        <5>2. r.last \notin old
          BY <1>4, <1>11, <1>18, <5>1
        <5> QED
          BY <1>4, <3>2, <5>2
      <4>2. x = r.last \/ (joined[c] < x /\ x < r.last)
        BY <1>11, <1>18, <3>1, <3>3
      <4>3. x \in Sent(c)
        BY <1>6, <1>19, <3>1, <4>1, <4>2 DEF NoGap, t
      <4>4. x \notin OnTheWire(c)
        <5>1. \A y \in OnTheWire(c) : r.last < y
          BY <1>6, <4>1 DEF InOrder
        <5> QED
          BY <1>11, <3>1, <5>1
      <4> QED
        BY <1>4, <1>19, <4>3, <4>4
    <3>4. CASE ~(x > joined[c])
      <4>1. Cardinality({j \in Of(t.agent) : x <= j /\ j <= joined[c]}) <= setup.capacity
        BY <3>4 DEF Due
      <4>2. x <= joined[c]
        BY <1>18, <3>1, <3>4
      <4>3. x \in old
        BY <3>1, <4>1, <4>2 DEF Old, Window
      <4> QED
        BY <1>4, <4>3
    <3> QED
      BY <3>3, <3>4
  <2> QED
    BY <2>1, <2>2
<1>21. \A j \in OnTheWire(c) : r.last < j
  <2> SUFFICES ASSUME NEW j \in OnTheWire(c) PROVE r.last < j
    OBVIOUS
  <2>1. CASE r.last = 0
    BY <1>18, <2>1
  <2>2. CASE r.last \in old
    BY <1>4, <1>18, <2>2
  <2>3. CASE r.last \in Buffered(c)
    BY <1>6, <2>3 DEF InOrder
  <2> QED
    BY <1>4, <1>11, <2>1, <2>2, <2>3
<1>22. AnswersAre(c)'
  <2> SUFFICES ASSUME NEW x \in Answers(c)'
               PROVE  /\ Increasing(x.events)
                      /\ ToSet(x.events) = Old(tail[c].agent, joined[c])'
                      /\ c \in open' /\ tail'[c].pc \in Tailing => x.sub \in SubsOf(c)'
    BY DEF AnswersAre, Increasing, ToSet
  <2>1. x \in Answers(c) /\ tail[c].pc \in Tailing
    BY <1>2, <1>15 DEF t, Tailing
  <2>2. Old(tail[c].agent, joined[c])' = Old(tail[c].agent, joined[c])
    BY <1>3, <1>10, <1>13, <1>14 DEF t
  <2> QED
    BY <1>1, <1>13, <2>1, <2>2 DEF AnswersAre
<1>23. LiveRecords(c)'
  <2>1. NoGap(c)'
    <3>1. tail'[c].agent = tail[c].agent /\ Of(tail[c].agent)' = Of(tail[c].agent)
      BY <1>3, <1>10, <1>14 DEF t
    <3> QED
      BY <1>6, <1>13, <1>19, <3>1 DEF NoGap
  <2>2. InOrder(c)'
    <3>1. tail'[c].buffered = <<>> /\ tail'[c].last = r.last
      BY <1>3, <1>10
    <3>2. \A i, j \in DOMAIN tail'[c].buffered :
             i < j => tail'[c].buffered[i].sequence < tail'[c].buffered[j].sequence
      BY <3>1
    <3> QED
      BY <1>3, <1>6, <1>15, <1>21, <3>1, <3>2 DEF InOrder
  <2> QED
    BY <2>1, <2>2 DEF LiveRecords
<1>24. PrintedRecords(c)'
  <2>1. tail'[c].printed = s /\ old \subseteq ToSet(s)
    BY <1>3, <1>4, <1>10
  <2>2. /\ Due(tail[c].agent, joined[c], tail[c].last)' = Due(t.agent, joined[c], r.last)
        /\ Old(tail[c].agent, joined[c])' = old
    BY <1>3, <1>10, <1>13, <1>14
  <2> HIDE DEF old
  <2> QED
    BY <1>4, <1>20, <2>1, <2>2 DEF PrintedRecords, Increasing, ToSet
<1>25. Connections(c)' /\ ~Fresh(c)
  <2>1. ~Fresh(c) /\ request[c].method \notin {"subscribe", "unsubscribe"}
    BY <1>1, <1>2 DEF Connections, Fresh, t
  <2>2. ~Fresh(c)'
    BY <1>3, <1>10, <1>13, <2>1 DEF Fresh
  <2>3. r.last <= Len(log)
    <3>1. Of(t.agent) \subseteq 1..Len(log)
      BY <1>7
    <3>2. r.last = 0 \/ r.last \in 1..Len(log)
      BY <1>4, <1>11, <3>1
    <3> QED
      BY <1>1, <1>7, <3>2
  <2>4. r.answer # Absent
    BY <1>4, <1>10, Kinds
  <2> QED
    BY <1>1, <1>3, <1>5, <1>10, <1>13, <2>1, <2>2, <2>3, <2>4 DEF Connections
<1>26. PerClient(c)'
  BY <1>17, <1>22, <1>23, <1>24, <1>25 DEF PerClient
<1>27. r.agent = tail[c].agent /\ r.pc # "idle"
  BY <1>10 DEF t
<1> QED
  BY <1>2, <1>3, <1>10, <1>25, <1>26, <1>27, ReadingKeeps

LEMMA OutputStarts == OutputInit => OutputInv
<1> SUFFICES ASSUME OutputInit PROVE OutputInv
  OBVIOUS
<1>1. /\ log = <<>> /\ journal = [a \in Agent |-> <<>>] /\ nextId = 1
      /\ subscriptions = [i \in Ids |-> Absent] /\ byConnection = [c \in Client |-> {}]
      /\ byType = {} /\ serving = TRUE /\ open = {}
      /\ reply = [c \in Client |-> Absent] /\ request = [c \in Client |-> NoRequest]
      /\ wire = [c \in Client |-> <<>>] /\ tail = [c \in Client |-> NewTail]
      /\ joined = [c \in Client |-> 0] /\ setup \in Setups
  BY DEF OutputInit
<1>2. /\ MaxRecords \in Nat /\ IsFiniteSet(Client) /\ Cardinality(Client) \in Nat
      /\ setup.capacity \in Nat /\ setup.capacity > 0
  <2>1. setup \in [agents : SUBSET Agent, clients : SUBSET Client, finals : SUBSET BOOLEAN,
                   capacity : Nat \ {0}, records : 0..MaxRecords]
    BY <1>1, OutputAssumption
  <2>2. setup.capacity \in Nat /\ setup.capacity > 0
    BY <2>1
  <2> QED
    BY <2>2, OutputAssumption, FS_CardinalityType
<1>3. OutputTypeOK
  <2>1. NewTail \in TailState
    BY <1>2 DEF NewTail, TailState, Stages
  <2>2. tail \in [Client -> TailState]
    BY <1>1, <2>1
  <2>3. log \in Seq(Record) /\ Len(log) <= MaxRecords
    BY <1>1, <1>2
  <2>4. journal \in [Agent -> Seq(Sequence)] /\ \A a \in Agent : Len(journal[a]) <= setup.capacity
    BY <1>1, <1>2
  <2>5. nextId \in 1..(Cardinality(Client) + 1)
    BY <1>1, <1>2
  <2>6. /\ subscriptions \in [Ids -> [conn : Client, agent : Agent] \cup {Absent}]
        /\ byConnection \in [Client -> SUBSET Ids] /\ byType \subseteq Ids
        /\ serving \in BOOLEAN /\ open \subseteq Client
        /\ reply \in [Client -> Answer \cup {Absent}]
        /\ wire \in [Client -> Seq(Answer \cup Note)]
    BY <1>1
  <2>7. request \in [Client -> [method : {"subscribe"}, agent : Agent]
                               \cup [method : {"unsubscribe"}, sub : Ids] \cup {NoRequest}]
    BY <1>1
  <2>8. joined \in [Client -> 0..MaxRecords]
    BY <1>1, <1>2
  <2> QED
    BY <1>1, <2>2, <2>3, <2>4, <2>5, <2>6, <2>7, <2>8 DEF OutputTypeOK, TailState
<1>4. \A a : Of(a) = {}
  BY <1>1 DEF Of
<1>5. ASSUME NEW a \in Agent PROVE JournalOf(a)
  <2>1. journal[a] = <<>>
    BY <1>1
  <2> QED
    BY <1>2, <1>4, <2>1 DEF JournalOf, Increasing, ToSet
<1>6. Stored = {} /\ \A c : SubsOf(c) = {}
  BY <1>1 DEF Stored, SubsOf
<1>7. Indexed
  BY <1>1, <1>6 DEF Indexed
<1>8. Counted
  <2>1. SubscribedOnce = {}
    BY <1>1 DEF SubscribedOnce, Fresh, NewTail
  <2>2. Cardinality(SubscribedOnce) = 0
    BY <2>1, FS_EmptySet
  <2> QED
    BY <1>1, <1>6, <2>2 DEF Counted
<1>9. ASSUME NEW c \in Client PROVE PerClient(c)
  <2>1. /\ tail[c].pc = "idle" /\ tail[c].buffered = <<>> /\ tail[c].printed = <<>>
        /\ tail[c].last = 0 /\ tail[c].answer = Absent /\ wire[c] = <<>> /\ reply[c] = Absent
        /\ request[c].method = "none" /\ joined[c] = 0 /\ open = {} /\ Len(log) = 0
    BY <1>1 DEF NewTail, NoRequest
  <2>2. Notes(c) = {} /\ Answers(c) = {}
    BY <2>1 DEF Notes, Answers
  <2>3. IdsOf(c) = {}
    BY <1>6, <2>1, <2>2 DEF IdsOf
  <2>4. Connections(c) /\ OneId(c) /\ AnswersAre(c)
    BY <2>1, <2>2, <2>3 DEF Connections, OneId, AnswersAre, Fresh
  <2>5. LiveRecords(c)
    BY <2>1 DEF LiveRecords, Tailing
  <2>6. PrintedRecords(c)
    BY <1>4, <2>1 DEF PrintedRecords, Increasing, ToSet, Due
  <2> QED
    BY <2>4, <2>5, <2>6 DEF PerClient
<1> QED
  BY <1>3, <1>5, <1>7, <1>8, <1>9 DEF OutputInv

LEMMA OutputStutters == OutputInv /\ UNCHANGED outputVars => OutputInv'
<1> SUFFICES ASSUME OutputInv, UNCHANGED outputVars PROVE OutputInv'
  OBVIOUS
<1>1. UNCHANGED <<log, journal, nextId, subscriptions, byConnection, byType, serving, open,
                  reply, request, wire, tail, joined, setup>>
  BY DEF outputVars, daemonVars, history
<1>2. OutputTypeOK'
  BY <1>1 DEF OutputInv, OutputTypeOK
<1>3. Indexed' /\ Stored' = Stored /\ (\A i \in Stored' : subscriptions'[i] = subscriptions[i])
      /\ \A d \in Client : SubsOf(d)' = SubsOf(d)
  BY <1>1, IndexedStays DEF OutputInv
<1>4. \A d \in Client : PerClient(d)'
  BY <1>1, <1>3, StillKeeps DEF Still, OutputInv
<1>5. \A a \in Agent : JournalOf(a)'
  BY <1>1, JournalsStay DEF OutputInv
<1>6. Counted'
  BY <1>1, <1>3, CountedStays DEF OutputInv, SubscribedOnce, Fresh
<1> QED
  BY <1>2, <1>3, <1>4, <1>5, <1>6 DEF OutputInv

LEMMA OutputSteps == OutputInv /\ OutputNext => OutputInv'
<1> SUFFICES ASSUME OutputInv, OutputNext PROVE OutputInv'
  OBVIOUS
<1>1. setup.clients \subseteq Client
  BY OutputFacts DEF OutputInv
<1>2. ASSUME NEW a \in setup.agents, NEW final \in setup.finals, Publish(a, final) PROVE OutputInv'
  BY <1>2, PublishKeeps
<1>3. ASSUME NEW c \in setup.clients,
             \/ \E a \in setup.agents : StartTail(c, a)
             \/ Daemon(c) \/ CloseConnection(c)
             \/ Follow(c) \/ Interrupt(c) \/ Vanish(c)
      PROVE  OutputInv'
  <2>1. c \in Client
    BY <1>1
  <2>2. ASSUME NEW a \in setup.agents, StartTail(c, a) PROVE OutputInv'
    BY <2>2, StartKeeps
  <2>3. CASE Daemon(c)
    BY <2>1, <2>3, SubscribeKeeps, SendKeeps, UnsubscribeKeeps DEF Daemon
  <2>4. CASE CloseConnection(c)
    BY <2>1, <2>4, CloseKeeps
  <2>5. CASE Follow(c)
    BY <2>1, <2>5, DeliverKeeps, ContinueKeeps, FinishKeeps DEF Follow, Complete
  <2>6. CASE Interrupt(c)
    BY <2>1, <2>6, InterruptKeeps
  <2>7. CASE Vanish(c)
    BY <2>1, <2>7, VanishKeeps
  <2> QED
    BY <1>3, <2>2, <2>3, <2>4, <2>5, <2>6, <2>7
<1>4. CASE StopServer
  BY <1>4, StopKeeps
<1> QED
  BY <1>2, <1>3, <1>4 DEF OutputNext

\* The inductive invariant: a journal is the newest records of its agent; ids
\* are one to a connection; an answer holds what the journal held when its
\* subscription was made; and the records since then are, without a gap and in
\* order, printed, buffered or on the socket.
THEOREM OutputInvariant == OutputSpec => []OutputInv
<1>1. OutputInv /\ [OutputNext]_outputVars => OutputInv'
  BY OutputSteps, OutputStutters
<1> QED
  BY <1>1, OutputStarts, PTL DEF OutputSpec

\* Type correctness, of the daemon's side and of every tail: in particular no
\* journal grows past its capacity, and the subscription ids never run out.
THEOREM OutputIsTyped == OutputSpec => []OutputTypeOK
<1>1. OutputInv => OutputTypeOK
  BY DEF OutputInv
<1> QED
  BY <1>1, OutputInvariant, PTL

\* Whatever is published between the subscription, the snapshot, the answer
\* and the continuation that prints the replay, and whatever other clients do,
\* what a tail has printed is each record that is due, once, in order, and
\* none is left out up to the last one (event-journal.ts, subscriptions.ts,
\* and writeOrderedRecords and onNotification of tail.ts).
THEOREM TailsPrintOnce == OutputSpec => []PrintsEveryRecordOnce
<1>1. OutputInv => PrintsEveryRecordOnce
  <2> SUFFICES ASSUME OutputInv, NEW c \in Client
               PROVE  LET t == tail[c]
                      IN  /\ \A i, j \in DOMAIN t.printed : i < j => t.printed[i] < t.printed[j]
                          /\ ToSet(t.printed) = Due(t.agent, joined[c], t.last)
    BY DEF PrintsEveryRecordOnce
  <2>1. PrintedRecords(c)
    BY DEF OutputInv, PerClient
  <2> QED
    BY <2>1 DEF PrintedRecords, Increasing
<1> QED
  BY <1>1, OutputInvariant, PTL

\* A tail that follows has printed the whole of what the journal held when it
\* was subscribed, the newest capacity records of its agent.
THEOREM ReplaysAreWhole == OutputSpec => []ReplayIsWhole
<1>1. OutputInv => ReplayIsWhole
  <2> SUFFICES ASSUME OutputInv, NEW c \in Client, tail[c].pc = "following"
               PROVE  Due(tail[c].agent, joined[c], joined[c]) \subseteq ToSet(tail[c].printed)
    BY DEF ReplayIsWhole
  <2>1. PrintedRecords(c) /\ joined[c] \in Nat
    BY OutputAssumption DEF OutputInv, PerClient, OutputTypeOK
  <2>2. ASSUME NEW k \in Due(tail[c].agent, joined[c], joined[c])
        PROVE  k \in Old(tail[c].agent, joined[c])
    <3>1. k \in Of(tail[c].agent) /\ k <= joined[c] /\ k \in Nat
      <4>1. /\ Of(tail[c].agent) \subseteq 1..Len(log) /\ Len(log) \in 0..MaxRecords
            /\ MaxRecords \in Nat
        BY OutputFacts DEF OutputInv
      <4>2. k \in Of(tail[c].agent) /\ k <= joined[c]
        BY DEF Due
      <4> QED
        BY <4>1, <4>2
    <3>2. ~(k > joined[c])
      BY <2>1, <3>1
    <3>3. Cardinality({j \in Of(tail[c].agent) : k <= j /\ j <= joined[c]}) <= setup.capacity
      BY <3>2 DEF Due
    <3> QED
      BY <3>1, <3>3 DEF Old, Window
  <2> QED
    BY <2>1, <2>2 DEF PrintedRecords
<1> QED
  BY <1>1, OutputInvariant, PTL

\* The indexes and the stored subscriptions agree, none outlives its
\* connection, and a tail that follows over an open connection keeps its own,
\* in every interleaving of requests, closes and stops.
THEOREM SubscriptionsKeepTheirOwner == OutputSpec => []SubscriptionsBelong
<1>1. OutputInv => SubscriptionsBelong
  <2> SUFFICES ASSUME OutputInv PROVE SubscriptionsBelong
    OBVIOUS
  <2>1. OutputTypeOK /\ Indexed /\ Counted /\ Stored = {i \in Ids : subscriptions[i] # Absent}
    BY DEF OutputInv, Stored
  <2>2. ASSUME NEW c \in open, tail[c].pc \in {"answered", "following"}
        PROVE  subscriptions[tail[c].answer.sub] = [conn |-> c, agent |-> tail[c].agent]
    <3>1. c \in Client /\ tail[c].pc \in Tailing
      BY <2>1, <2>2 DEF OutputTypeOK, Tailing
    <3>2. Connections(c) /\ AnswersAre(c)
      BY <3>1 DEF OutputInv, PerClient
    <3>3. tail[c].answer \in Answers(c)
      BY <2>2, <3>2 DEF Connections, Answers
    <3>4. tail[c].answer.sub \in SubsOf(c)
      BY <3>1, <3>2, <3>3 DEF AnswersAre
    <3> PICK i : i = tail[c].answer.sub
      OBVIOUS
    <3>5. i \in Stored /\ subscriptions[i].conn = c /\ i \in Ids /\ subscriptions[i] # Absent
      BY <3>4 DEF SubsOf, Stored
    <3>6. subscriptions[i] \in [conn : Client, agent : Agent]
      BY <2>1, <3>5 DEF OutputTypeOK
    <3>7. subscriptions[i].agent = tail[c].agent
      BY <2>1, <3>5 DEF Counted
    <3> QED
      BY <3>5, <3>6, <3>7
  <2>3. \A c \in Client : byConnection[c] = {i \in Stored : subscriptions[i].conn = c}
    BY <2>1 DEF Indexed, SubsOf
  <2> QED
    BY <2>1, <2>2, <2>3 DEF SubscriptionsBelong, Indexed
<1> QED
  BY <1>1, OutputInvariant, PTL
=============================================================================
