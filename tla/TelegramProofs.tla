--------------------------- MODULE TelegramProofs ---------------------------
(***************************************************************************)
(* Theorems about Telegram, for any updates, users, loops and failures:    *)
(* the server forgets nothing that was not handled, nothing is handled     *)
(* twice without a cause, and answers go where their messages came from.   *)
(***************************************************************************)
EXTENDS Telegram, SequenceTheorems, WellFoundedInduction, TLAPS

(***************************************************************************)
(* Numbers.  Induction goes over the set of the numbers that are as they   *)
(* should be, since the provers do not instantiate a predicate.            *)
(***************************************************************************)
\* A set of numbers has a least one, ...
LEMMA Least ==
    ASSUME NEW T, T \subseteq Nat, T # {}
    PROVE  \E m \in T : \A y \in T : m <= y
<1> DEFINE less == OpToRel(<, Nat)
<1>1. IsWellFoundedOn(less, Nat)
  BY NatLessThanWellFounded
<1>2. \E m \in T : \A y \in T : ~(<<y, m>> \in less)
  <2> HIDE DEF less
  <2> QED BY <1>1, WFMin
<1>3. \E m \in T : \A y \in T : ~(y < m)
  BY <1>2 DEF OpToRel
<1> QED
  BY <1>3

\* ... and one that is bounded a greatest.
LEMMA Greatest ==
    ASSUME NEW n \in Nat, NEW T, T \subseteq 0..n, T # {}
    PROVE  \E x \in T : \A y \in T : y <= x
<1> DEFINE left == {k \in 0..n : n - k \in T}
<1>1. \A y \in T : n - y \in 0..n /\ n - (n - y) = y
  OBVIOUS
<1>2. left \subseteq Nat /\ left # {} /\ \A y \in T : n - y \in left
  <2>1. \A y \in T : n - y \in left
    BY <1>1
  <2>2. left \subseteq Nat
    OBVIOUS
  <2> HIDE DEF left
  <2> QED
    BY <2>1, <2>2
<1>3. PICK m \in left : \A y \in left : m <= y
  <2> HIDE DEF left
  <2> QED BY <1>2, Least
<1>4. m \in 0..n /\ n - m \in T
  OBVIOUS
<1>5. ASSUME NEW y \in 0..n, y \in T PROVE y <= n - m
  <2>1. m <= n - y
    BY <1>2, <1>3, <1>5
  <2> QED
    BY <2>1, <1>4
<1> QED
  BY <1>4, <1>5

\* Max of numbers is one of them, and none is above it.
LEMMA MaxIsGreatest ==
    ASSUME NEW n \in Nat, NEW T, T \subseteq 0..n, T # {}
    PROVE  Max(T) \in T /\ \A y \in T : y <= Max(T)
<1>1. \E x \in T : \A y \in T : x >= y
  <2>1. PICK x \in T : \A y \in T : y <= x
    BY Greatest
  <2>2. \A y \in T : x >= y
    BY <2>1
  <2> QED BY <2>2
<1>2. Max(T) \in T /\ \A y \in T : Max(T) >= y
  BY <1>1 DEF Max
<1>3. T \subseteq Int
  OBVIOUS
<1>4. Max(T) \in Int
  BY <1>2, <1>3
<1> QED
  BY <1>2, <1>3, <1>4

LEMMA MaxOfTwo ==
    ASSUME NEW a \in Int, NEW b \in Int
    PROVE  Max({a, b}) = IF a >= b THEN a ELSE b
<1>1. \E x \in {a, b} : \A y \in {a, b} : x >= y
  OBVIOUS
<1>2. Max({a, b}) \in {a, b} /\ \A y \in {a, b} : Max({a, b}) >= y
  BY <1>1 DEF Max
<1> QED
  BY <1>2

\* Induction up to n, over the set of the numbers that are good.
LEMMA FromZero ==
    ASSUME NEW n \in Nat, NEW good, 0 \in good,
           \A k \in 1..n : k - 1 \in good => k \in good
    PROVE  0..n \subseteq good
<1> DEFINE bad == {k \in 0..n : k \notin good}
<1>1. SUFFICES ASSUME bad # {} PROVE FALSE
  OBVIOUS
<1>2. PICK m \in bad : \A y \in bad : m <= y
  <2>1. bad \subseteq Nat
    OBVIOUS
  <2> HIDE DEF bad
  <2> QED BY <1>1, <2>1, Least
<1>3. m \in 1..n /\ m - 1 \in 0..n /\ ~(m <= m - 1)
  OBVIOUS
<1>4. m - 1 \in good
  BY <1>2, <1>3
<1> QED
  BY <1>3, <1>4

(***************************************************************************)
(* What a batch leaves.                                                    *)
(***************************************************************************)
\* Update i leads to the destination ref, and was sent by somebody the filter lets through.
From(i, ref) ==
    /\ Allowed # {} => updates[i].from \in Allowed \cup {None}
    /\ updates[i].chat = ref[1]
    /\ updates[i].kind # "my_chat_member" => updates[i].thread = ref[2]
\* The message id, if there is one, belongs to the destination.
Quotes(ref, id) == /\ id \in DOMAIN updates
                   /\ updates[id].chat = ref[1] /\ updates[id].thread = ref[2]

\* The state of the router that the handling of some updates has come to.
Left(s, ids) ==
    \E b, d, r :
        /\ s = [busy |-> b, bound |-> d, resetting |-> r]
        /\ \A ref \in b : ref \in busy \/ \E i \in ids : From(i, ref)
        /\ \A o \in r : \/ o \in resetting
                        \/ (\E i \in ids : From(i, o.ref)) /\ Quotes(o.ref, o.replyTo)

\* What becomes the agent's input or a command comes from somebody the filter has seen.
LEMMA InputIsFrom ==
    ASSUME NEW id \in DOMAIN updates, updates[id] \in Shape,
           shouldProcess(updates[id]), IsAgentInput(mapUpdate(id))
    PROVE  /\ From(id, mapUpdate(id).origin.ref)
           /\ mapUpdate(id).type = "command_received" => mapUpdate(id).origin = buildDestination(id)
<1> DEFINE u == updates[id]
<1>0. u.kind \in Kinds
  BY DEF Shape
<1>1. Sender(u) = None \/ Allowed = {} \/ Sender(u) \in Allowed
  BY DEF shouldProcess
<1>2. CASE u.kind = "message"
  <2>1. mapUpdate(id).origin = buildDestination(id)
    BY <1>2 DEF mapUpdate, mapCommandMessage, mapMessage
  <2>2. Sender(u) = u.from
    BY <1>2 DEF Sender
  <2> QED
    BY <1>1, <1>2, <2>1, <2>2 DEF From, buildDestination, encodeConversationRef, encodeRef
<1>3. CASE u.kind = "callback_query"
  <2>1. mapUpdate(id) = mapCallbackQuery(id)
    BY <1>3 DEF mapUpdate
  <2>2. u.whole
    BY <2>1 DEF mapCallbackQuery, IsAgentInput, NoEvent
  <2>3. mapUpdate(id) = [type |-> "callback_received", origin |-> buildDestination(id)]
    BY <2>1, <2>2 DEF mapCallbackQuery
  <2>4. Sender(u) = u.from
    BY <1>3 DEF Sender
  <2> QED
    BY <1>1, <1>3, <2>3, <2>4 DEF From, buildDestination, encodeConversationRef, encodeRef
<1>4. CASE u.kind = "my_chat_member"
  <2>1. mapUpdate(id) = mapChatMemberUpdate(id)
    BY <1>4 DEF mapUpdate
  <2>2. u.whole
    BY <2>1 DEF mapChatMemberUpdate, IsAgentInput, NoEvent
  <2>3. /\ mapUpdate(id).type = "conversation_started"
        /\ mapUpdate(id).origin.ref = encodeRef(u.chat, None, None)
    BY <2>1, <2>2 DEF mapChatMemberUpdate
  <2>4. Sender(u) = u.from
    BY <1>4 DEF Sender
  <2> QED
    BY <1>1, <1>4, <2>3, <2>4 DEF From, encodeRef
<1>5. CASE u.kind = "edited_message"
  <2>1. mapUpdate(id).type = "message_edited"
    BY <1>5 DEF mapUpdate, mapEditedMessage
  <2> QED
    BY <2>1 DEF IsAgentInput
<1>6. CASE u.kind = "other"
  <2>1. mapUpdate(id).type = "none"
    BY <1>6 DEF mapUpdate, NoEvent
  <2> QED
    BY <2>1 DEF IsAgentInput
<1> QED
  BY <1>0, <1>2, <1>3, <1>4, <1>5, <1>6 DEF Kinds

LEMMA ToAgentIs ==
    ASSUME NEW b, NEW d, NEW r, NEW dest
    PROVE  ToAgent([busy |-> b, bound |-> d, resetting |-> r], dest) =
              [busy |-> b \cup {dest}, bound |-> d \cup {dest}, resetting |-> r]
<1> DEFINE s == [busy |-> b, bound |-> d, resetting |-> r]
           t == [s EXCEPT !.busy = @ \cup {dest}]
<1>1. ToAgent(s, dest) = [t EXCEPT !.bound = @ \cup {dest}]
  BY DEF ToAgent
<1>2. t = [busy |-> b \cup {dest}, bound |-> d, resetting |-> r]
  OBVIOUS
<1> HIDE DEF t
<1> QED
  BY <1>1, <1>2

LEMMA LeftIs ==
    ASSUME NEW b, NEW d, NEW r, NEW ids,
           \A ref \in b : ref \in busy \/ \E i \in ids : From(i, ref),
           \A o \in r : \/ o \in resetting
                        \/ (\E i \in ids : From(i, o.ref)) /\ Quotes(o.ref, o.replyTo)
    PROVE  Left([busy |-> b, bound |-> d, resetting |-> r], ids)
<1> DEFINE s == [busy |-> b, bound |-> d, resetting |-> r]
<1> SUFFICES Left(s, ids)
  OBVIOUS
<1>1. s = [busy |-> b, bound |-> d, resetting |-> r]
  OBVIOUS
<1> HIDE DEF s
<1> USE DEF Left
<1> WITNESS b, d, r
<1> QED
  BY <1>1

\* One update.
LEMMA OneIsLeft ==
    ASSUME NEW s, NEW ids, Left(s, ids),
           NEW id \in DOMAIN updates, updates[id] \in Shape
    PROVE  Left(onUpdate(s, id), ids \cup {id})
<1> DEFINE event == mapUpdate(id)
           ref == event.origin.ref
<1>1. PICK b, d, r :
        /\ s = [busy |-> b, bound |-> d, resetting |-> r]
        /\ \A x \in b : x \in busy \/ \E i \in ids : From(i, x)
        /\ \A o \in r : \/ o \in resetting
                        \/ (\E i \in ids : From(i, o.ref)) /\ Quotes(o.ref, o.replyTo)
  BY DEF Left
<1>2. Left(s, ids \cup {id})
  BY <1>1 DEF Left
<1>3. ASSUME shouldProcess(updates[id]), IsAgentInput(event)
      PROVE  Left(ToAgent(s, ref), ids \cup {id})
  <2>1. From(id, ref)
    BY <1>3, InputIsFrom
  <2> HIDE DEF ref
  <2>2. ToAgent(s, ref) =
            [busy |-> b \cup {ref}, bound |-> d \cup {ref}, resetting |-> r]
    BY <1>1, ToAgentIs
  <2>3. \A x \in b \cup {ref} : x \in busy \/ \E i \in ids \cup {id} : From(i, x)
    BY <1>1, <2>1
  <2>4. \A o \in r : \/ o \in resetting
                     \/ (\E i \in ids \cup {id} : From(i, o.ref)) /\ Quotes(o.ref, o.replyTo)
    BY <1>1
  <2> QED
    BY <2>2, <2>3, <2>4, LeftIs
<1>4. ASSUME shouldProcess(updates[id]), event.type = "command_received"
      PROVE  Left(execute(s, event), ids \cup {id})
  <2>1. IsAgentInput(event)
    BY <1>4 DEF IsAgentInput
  <2>2. From(id, ref) /\ event.origin = buildDestination(id)
    BY <1>4, <2>1, InputIsFrom
  <2>3. Quotes(event.origin.ref, event.origin.replyTo)
    BY <2>2 DEF Quotes, buildDestination, encodeConversationRef, encodeRef
  <2>4. CASE event.command \in Registered
    <3>1. execute(s, event) =
            [busy |-> b \ {ref}, bound |-> d, resetting |-> r \cup {event.origin}]
      BY <1>1, <2>4 DEF execute
    <3>2. \A x \in b \ {ref} : x \in busy \/ \E i \in ids \cup {id} : From(i, x)
      BY <1>1
    <3>3. \A o \in r \cup {event.origin} :
              \/ o \in resetting
              \/ (\E i \in ids \cup {id} : From(i, o.ref)) /\ Quotes(o.ref, o.replyTo)
      BY <1>1, <2>2, <2>3
    <3> HIDE DEF event, ref
    <3> QED
      BY <3>1, <3>2, <3>3, LeftIs
  <2>5. CASE event.command \notin Registered
    BY <1>3, <1>4, <2>1, <2>5 DEF execute
  <2> QED
    BY <2>4, <2>5
<1>5. ASSUME shouldProcess(updates[id])
      PROVE  Left(handleInbound(s, event), ids \cup {id})
  <2> HIDE DEF event
  <2>1. CASE event.type = "command_received"
    BY <1>4, <1>5, <2>1 DEF handleInbound
  <2>2. CASE event.type # "command_received" /\ IsAgentInput(event)
    BY <1>3, <1>5, <2>2 DEF handleInbound
  <2>3. CASE event.type # "command_received" /\ ~IsAgentInput(event)
    BY <1>2, <2>3 DEF handleInbound
  <2> QED
    BY <2>1, <2>2, <2>3
<1> QED
  BY <1>2, <1>5 DEF onUpdate

\* The for loop of HandleBatch: f[k] is what it has come to after the updates up to k.
LoopTo(batch, n, f) ==
    f = [k \in 0..n |->
            IF k = 0 THEN Talk
            ELSE IF k \in batch THEN onUpdate(f[k - 1], k) ELSE f[k - 1]]

\* The recursion of the for loop has a solution.
LEMMA LoopExists ==
    ASSUME NEW batch, NEW n \in Nat
    PROVE  \E f : LoopTo(batch, n, f)
<1> DEFINE good == {k \in Nat : \E f : LoopTo(batch, k, f)}
<1>1. 0 \in good
  <2> DEFINE f == [k \in 0..0 |-> Talk]
  <2>1. f = [k \in 0..0 |->
                IF k = 0 THEN Talk
                ELSE IF k \in batch THEN onUpdate(f[k - 1], k) ELSE f[k - 1]]
    OBVIOUS
  <2>2. LoopTo(batch, 0, f)
    BY <2>1 DEF LoopTo
  <2> QED
    BY <2>2
<1>2. ASSUME NEW k \in 1..n, k - 1 \in good PROVE k \in good
  <2>1. PICK f : LoopTo(batch, k - 1, f)
    BY <1>2
  <2> DEFINE next == IF k \in batch THEN onUpdate(f[k - 1], k) ELSE f[k - 1]
             g == [j \in 0..k |-> IF j = k THEN next ELSE f[j]]
  <2>2. \A j \in 0..(k - 1) : g[j] = f[j]
    BY SMT
  <2>3. g[k] = next
    BY SMT
  <2>4. \A j \in 0..k :
           g[j] = IF j = 0 THEN Talk
                  ELSE IF j \in batch THEN onUpdate(g[j - 1], j) ELSE g[j - 1]
    <3> SUFFICES ASSUME NEW j \in 0..k
                 PROVE  g[j] = IF j = 0 THEN Talk
                               ELSE IF j \in batch THEN onUpdate(g[j - 1], j) ELSE g[j - 1]
      OBVIOUS
    <3>1. CASE j = k
      <4>1. g[j - 1] = f[k - 1] /\ j # 0
        BY <2>2, <3>1
      <4> HIDE DEF g
      <4> QED
        BY <2>3, <3>1, <4>1
    <3>2. CASE j # k /\ j # 0
      <4>1. j \in 0..(k - 1) /\ j - 1 \in 0..(k - 1)
        BY <3>2
      <4>2. f[j] = IF j \in batch THEN onUpdate(f[j - 1], j) ELSE f[j - 1]
        BY <2>1, <3>2, <4>1 DEF LoopTo
      <4> HIDE DEF g
      <4> QED
        BY <2>2, <3>2, <4>1, <4>2
    <3>3. CASE j # k /\ j = 0
      <4>1. j \in 0..(k - 1)
        BY <3>3
      <4>2. f[j] = Talk
        BY <2>1, <3>3, <4>1 DEF LoopTo
      <4> HIDE DEF g
      <4> QED
        BY <2>2, <3>3, <4>1, <4>2
    <3> QED
      BY <3>1, <3>2, <3>3
  <2>5. g = [j \in 0..k |-> g[j]]
    OBVIOUS
  <2> HIDE DEF g
  <2>6. LoopTo(batch, k, g)
    BY <2>4, <2>5 DEF LoopTo
  <2> QED
    BY <2>6
<1> HIDE DEF good
<1>3. n \in good
  BY <1>1, <1>2, FromZero
<1> QED
  BY <1>3 DEF good

\* What a batch leaves comes from its updates.
LEMMA BatchIsLeft ==
    ASSUME NEW batch, batch \subseteq DOMAIN updates,
           \A i \in DOMAIN updates : updates[i] \in Shape, MaxUpdates \in Nat
    PROVE  Left(HandleBatch(batch), batch)
<1>1. PICK f : LoopTo(batch, MaxUpdates, f) /\ HandleBatch(batch) = f[MaxUpdates]
  <2> DEFINE done == CHOOSE f : LoopTo(batch, MaxUpdates, f)
  <2>1. LoopTo(batch, MaxUpdates, done)
    BY LoopExists
  <2>2. HandleBatch(batch) = done[MaxUpdates]
    BY DEF HandleBatch, LoopTo
  <2> QED
    BY <2>1, <2>2
<1> DEFINE good == {k \in 0..MaxUpdates : Left(f[k], batch)}
<1>2. 0 \in good
  <2>1. f[0] = Talk
    BY <1>1 DEF LoopTo
  <2>2. Left(Talk, batch)
    BY LeftIs DEF Talk
  <2> QED
    BY <2>1, <2>2
<1>3. ASSUME NEW k \in 1..MaxUpdates, k - 1 \in good PROVE k \in good
  <2>1. f[k] = IF k \in batch THEN onUpdate(f[k - 1], k) ELSE f[k - 1]
    BY <1>1 DEF LoopTo
  <2>2. Left(f[k - 1], batch)
    BY <1>3
  <2>3. CASE k \in batch
    <3>1. Left(onUpdate(f[k - 1], k), batch \cup {k})
      BY <2>2, <2>3, OneIsLeft
    <3>2. batch \cup {k} = batch
      BY <2>3
    <3> QED
      BY <2>1, <2>3, <3>1, <3>2
  <2>4. CASE k \notin batch
    BY <2>1, <2>2, <2>4
  <2> QED
    BY <2>3, <2>4
<1> HIDE DEF good
<1>4. MaxUpdates \in good
  BY <1>2, <1>3, FromZero
<1> QED
  BY <1>1, <1>4 DEF good
(***************************************************************************)
(* The invariant.                                                          *)
(***************************************************************************)
Seen(i) == seen[i] > 0
Loop == [at : {"asking", "answered", "delay", "ended"},
         from : 0..(MaxUpdates + 1), batch : SUBSET Ids]

\* Updates and loops have their types, and a batch has updates.
Polls ==
    /\ updates \in Seq(Shapes) /\ Len(updates) <= MaxUpdates
    /\ forgotten \in 0..MaxUpdates /\ offset \in 0..(MaxUpdates + 1)
    /\ running \in BOOLEAN /\ status \in {"connected", "reconnecting", "disconnected"}
    /\ loop \in [Loops -> Loop]
    /\ seen \in [Ids -> 0..2] /\ overlapped \in BOOLEAN /\ restarts \in Nat
    /\ \A l \in Loops : loop[l].at = "answered" =>
          loop[l].batch # {} /\ loop[l].batch \subseteq DOMAIN updates

\* Whatever a loop has asked behind was handled, and so was whatever lies before an
\* update of its batch and is not in it.
Behind ==
    /\ \A i \in Ids : i <= forgotten \/ i < offset => Seen(i)
    /\ \A l \in Loops, i \in Ids :
          /\ i < loop[l].from => Seen(i)
          /\ loop[l].at = "answered" =>
                \A j \in loop[l].batch : i <= j => i \in loop[l].batch \/ Seen(i)

\* One loop on one offset: what it has handled lies before the offset, and what it
\* handles next does not.
OneLoop ==
    /\ \A l, k \in Alive : l = k
    /\ \A l \in Loops : loop[l].at \in {"asking", "answered"} => loop[l].from = offset
    /\ \A l \in Loops : loop[l].at = "answered" => \A i \in loop[l].batch : offset <= i
    /\ \A i \in Ids : seen[i] < 2 /\ (Seen(i) => i < offset)

\* Destinations that somebody has written to whom the filter lets through.
Home(ref) == \E i \in DOMAIN updates : Seen(i) /\ From(i, ref)

\* A call that is on its way, or about to be.
Returning(c) ==
    /\ c.method \in {"sendMessage", "sendChatAction"}
    /\ c.method = "sendMessage" =>
          \E ref : /\ Home(ref) /\ c.chat = ref[1] /\ c.thread = ref[2]
                   /\ c.reply # None => Quotes(ref, c.reply)

\* The way home is kept with the work of an agent, with a command and with a call.
Homeward ==
    /\ \A ref \in busy : Home(ref)
    /\ \A o \in resetting : Home(o.ref) /\ Quotes(o.ref, o.replyTo)
    /\ \A c \in calls : Returning(c)

TelegramInv ==
    /\ Polls /\ Behind /\ Homeward
    /\ ~overlapped /\ restarts = 0 => OneLoop

(***************************************************************************)
(* The polling side.                                                       *)
(***************************************************************************)
LEMMA Counters == /\ MaxUpdates \in Nat /\ None \notin Nat
                  /\ Loops \subseteq Nat /\ Ids \subseteq Nat
BY TelegramAssumption DEF Loops, Ids

LEMMA UpdateFacts ==
    ASSUME Polls
    PROVE  /\ DOMAIN updates = 1..Len(updates) /\ Len(updates) \in Nat
           /\ DOMAIN updates \subseteq Ids
           /\ \A i \in DOMAIN updates : updates[i] \in Shape
<1>1. DOMAIN updates = 1..Len(updates) /\ Len(updates) \in Nat
  BY DEF Polls
<1>2. \A i \in DOMAIN updates : updates[i] \in Shapes
  BY DEF Polls
<1> QED
  BY <1>1, <1>2, TelegramAssumption, Counters DEF Ids, Polls

LEMMA EndedIsLoop == Ended \in Loop /\ Ended.at = "ended" /\ Ended.from = 0
BY Counters DEF Ended, Loop

LEMMA AskingIsLoop ==
    ASSUME NEW o \in 0..(MaxUpdates + 1)
    PROVE  Asking(o) \in Loop /\ Asking(o).at = "asking" /\ Asking(o).from = o
BY DEF Asking, Loop

LEMMA OneLoopChanges ==
    ASSUME loop \in [Loops -> Loop], NEW l \in Loops, NEW r \in Loop,
           loop' = [loop EXCEPT ![l] = r]
    PROVE  /\ loop' \in [Loops -> Loop]
           /\ loop'[l] = r /\ \A k \in Loops : k # l => loop'[k] = loop[k]
OBVIOUS

LEMMA PollsInit == Init => Polls /\ Behind /\ OneLoop
<1> SUFFICES ASSUME Init PROVE Polls /\ Behind /\ OneLoop
  OBVIOUS
<1>0. \A l \in Loops : loop[l] = IF l = 1 THEN Asking(0) ELSE Ended
  BY DEF Init
<1>1. Asking(0) \in Loop /\ Asking(0).at = "asking" /\ Asking(0).from = 0
  BY AskingIsLoop, Counters
<1>2. loop \in [Loops -> Loop] /\ \A l \in Loops : loop[l].at # "answered" /\ loop[l].from = 0
  <2>1. loop = [l \in Loops |-> loop[l]]
    BY DEF Init
  <2>2. \A l \in Loops : loop[l] \in Loop /\ loop[l].at # "answered" /\ loop[l].from = 0
    BY <1>0, <1>1, EndedIsLoop
  <2> QED BY <2>1, <2>2
<1>3. \A i \in Ids : seen[i] = 0 /\ i > 0
  BY DEF Init, Ids
<1>4. Polls
  <2>1. updates \in Seq(Shapes) /\ Len(updates) <= MaxUpdates
    BY Counters DEF Init
  <2>2. seen \in [Ids -> 0..2]
    BY DEF Init
  <2>3. forgotten \in 0..MaxUpdates /\ offset \in 0..(MaxUpdates + 1) /\ restarts \in Nat
    BY Counters DEF Init
  <2>4. running \in BOOLEAN /\ overlapped \in BOOLEAN
    BY DEF Init
  <2>5. status \in {"connected", "reconnecting", "disconnected"}
    BY DEF Init
  <2> QED BY <1>2, <2>1, <2>2, <2>3, <2>4, <2>5 DEF Polls
<1>5. Behind
  BY <1>2, <1>3, Counters DEF Init, Behind, Ids
<1>6. Alive \subseteq {1}
  BY <1>0, EndedIsLoop DEF Alive
<1>7. OneLoop
  BY <1>2, <1>3, <1>6, Counters DEF Init, OneLoop, Seen
<1> QED BY <1>4, <1>5, <1>7

LEMMA ArriveKeeps ==
    ASSUME Polls, Behind, Arrive
    PROVE  Polls' /\ Behind' /\ (OneLoop => OneLoop')
<1>0. UNCHANGED <<forgotten, running, offset, loop, status, seen, overlapped, restarts>>
  BY DEF Arrive
<1>1. PICK s \in Shapes : updates' = Append(updates, s)
  BY DEF Arrive
<1>2. updates' \in Seq(Shapes) /\ Len(updates') = Len(updates) + 1
  BY <1>1 DEF Polls
<1>3. Len(updates') <= MaxUpdates /\ DOMAIN updates \subseteq DOMAIN updates'
  BY <1>1, <1>2, Counters DEF Arrive, Polls
<1>4. Polls'
  BY <1>0, <1>2, <1>3 DEF Polls
<1>5. Behind' /\ (OneLoop => OneLoop')
  BY <1>0 DEF Behind, OneLoop, Seen, Alive
<1> QED BY <1>4, <1>5

LEMMA AnswerKeeps ==
    ASSUME Polls, Behind, NEW l \in Loops, Answer(l)
    PROVE  Polls' /\ Behind' /\ (OneLoop => OneLoop')
<1> DEFINE gone == Max({forgotten, loop[l].from - 1})
           batch == {i \in DOMAIN updates : i > forgotten /\ i >= loop[l].from}
           full == [loop[l] EXCEPT !.at = "answered", !.batch = batch]
<1>0. /\ UNCHANGED <<updates, running, offset, status, seen, overlapped, restarts>>
      /\ loop[l].at = "asking" /\ forgotten' = gone
      /\ loop' = [loop EXCEPT ![l] = IF batch = {} THEN loop[l] ELSE full]
  BY DEF Answer
<1>1. /\ loop[l] \in Loop /\ loop[l].from \in 0..(MaxUpdates + 1)
      /\ forgotten \in 0..MaxUpdates
  BY DEF Polls, Loop
<1>2. /\ gone \in 0..MaxUpdates
      /\ \A i \in Ids : i <= gone => i <= forgotten \/ i < loop[l].from
  <2>1. gone = IF forgotten >= loop[l].from - 1 THEN forgotten ELSE loop[l].from - 1
    BY <1>1, MaxOfTwo
  <2> HIDE DEF gone
  <2> QED BY <1>1, <2>1, Counters
<1>3. /\ full \in Loop /\ full.at = "answered" /\ full.from = loop[l].from
      /\ full.batch = batch
  <2>1. batch \in SUBSET Ids
    BY UpdateFacts
  <2> HIDE DEF batch
  <2> QED BY <1>1, <2>1 DEF Loop
<1>4. batch \subseteq DOMAIN updates /\ \A j \in batch : loop[l].from <= j
  BY <1>1, UpdateFacts
<1>5. \A i \in Ids, j \in batch : i <= j => i \in batch \/ i <= forgotten \/ i < loop[l].from
  <2> SUFFICES ASSUME NEW i \in Ids, NEW j \in batch, i <= j, ~(i <= forgotten), ~(i < loop[l].from)
               PROVE  i \in batch
    OBVIOUS
  <2>1. i \in 1..Len(updates)
    BY UpdateFacts DEF Ids
  <2> QED BY <1>1, <2>1, UpdateFacts
<1> HIDE DEF gone, batch, full
<1>6. /\ loop' \in [Loops -> Loop]
      /\ loop'[l] = (IF batch = {} THEN loop[l] ELSE full)
      /\ \A k \in Loops : k # l => loop'[k] = loop[k]
  BY <1>0, <1>1, <1>3, OneLoopChanges DEF Polls
<1>7. /\ \A k \in Loops : loop'[k].from = loop[k].from
      /\ \A k \in Loops : loop'[k].at = loop[k].at \/ k = l
      /\ \A k \in Loops : loop'[k].at = "answered" =>
            (loop[k].at = "answered" /\ loop'[k].batch = loop[k].batch)
            \/ (k = l /\ loop'[k].batch = batch /\ batch # {})
      /\ loop'[l].at \in {"asking", "answered"}
  BY <1>0, <1>3, <1>6
<1>8. Polls'
  BY <1>0, <1>2, <1>4, <1>6, <1>7 DEF Polls
<1>9. \A i \in Ids : (i <= forgotten' \/ i < offset' => Seen(i)') /\ (Seen(i)' <=> Seen(i))
  BY <1>0, <1>2 DEF Behind, Seen
<1>10. Behind'
  <2>1. \A k \in Loops, i \in Ids : i < loop'[k].from => Seen(i)'
    BY <1>7, <1>9 DEF Behind
  <2>2. ASSUME NEW k \in Loops, NEW i \in Ids, loop'[k].at = "answered",
               NEW j \in loop'[k].batch, i <= j
        PROVE  i \in loop'[k].batch \/ Seen(i)'
    <3>1. CASE loop[k].at = "answered" /\ loop'[k].batch = loop[k].batch
      BY <1>9, <2>2, <3>1 DEF Behind
    <3>2. CASE k = l /\ loop'[k].batch = batch
      BY <1>5, <1>9, <2>2, <3>2 DEF Behind
    <3> QED BY <1>7, <2>2, <3>1, <3>2
  <2> QED BY <1>9, <2>1, <2>2 DEF Behind
<1>11. ASSUME OneLoop PROVE OneLoop'
  <2>1. Alive' = Alive
    BY <1>0, <1>7 DEF Alive
  <2>2. \A k \in Loops : loop'[k].at \in {"asking", "answered"} => loop'[k].from = offset'
    BY <1>0, <1>7, <1>11 DEF OneLoop
  <2>3. \A k \in Loops : loop'[k].at = "answered" => \A i \in loop'[k].batch : offset' <= i
    BY <1>0, <1>4, <1>7, <1>11 DEF OneLoop
  <2> QED BY <1>0, <1>9, <1>11, <2>1, <2>2, <2>3 DEF OneLoop
<1> QED BY <1>8, <1>10, <1>11

LEMMA DeliverKeeps ==
    ASSUME Polls, Behind, NEW l \in Loops, Deliver(l)
    PROVE  /\ Polls' /\ Behind' /\ (OneLoop => OneLoop')
           /\ \A i \in Ids : Seen(i) => Seen(i)'
           /\ \A i \in loop[l].batch : Seen(i)'
<1> DEFINE batch == loop[l].batch
           top == Max(batch)
<1>0. /\ UNCHANGED <<updates, forgotten, running, status, overlapped, restarts>>
      /\ loop[l].at = "answered" /\ offset' = top + 1
      /\ seen' = [i \in Ids |-> IF i \in batch /\ seen[i] < 2 THEN seen[i] + 1 ELSE seen[i]]
      /\ loop' = [loop EXCEPT ![l] = Asking(top + 1)]
  BY DEF Deliver, NextOffset
<1>1. batch # {} /\ batch \subseteq Ids /\ batch \subseteq 0..MaxUpdates
  BY <1>0, UpdateFacts, Counters DEF Polls, Ids
<1>2. top \in batch /\ \A i \in batch : i <= top
  <2> HIDE DEF batch
  <2> QED BY <1>1, MaxIsGreatest, Counters
<1>3. top \in 1..MaxUpdates /\ top + 1 \in 0..(MaxUpdates + 1)
  <2> HIDE DEF top, batch
  <2> QED BY <1>1, <1>2, Counters DEF Ids
<1>4. \A i \in Ids : i < top + 1 => i \in batch \/ Seen(i)
  <2>1. \A i \in Ids : i < top + 1 => i <= top
    <3> HIDE DEF top
    <3> QED BY <1>3, Counters DEF Ids
  <2> QED BY <1>0, <1>2, <2>1 DEF Behind
<1>5. /\ OneLoop => \A i \in batch : offset <= i /\ seen[i] = 0
      /\ OneLoop => offset <= top
  <2>1. ASSUME OneLoop PROVE \A i \in batch : offset <= i /\ seen[i] = 0
    <3> SUFFICES ASSUME NEW i \in batch PROVE offset <= i /\ seen[i] = 0
      OBVIOUS
    <3>1. offset <= i /\ i \in Ids
      BY <1>0, <1>1, <2>1 DEF OneLoop
    <3>2. ~Seen(i) /\ seen[i] \in 0..2
      BY <2>1, <3>1, Counters DEF OneLoop, Polls
    <3> QED BY <3>1, <3>2 DEF Seen
  <2> QED BY <1>2, <2>1
<1>6. Asking(top + 1) \in Loop /\ Asking(top + 1).at = "asking" /\ Asking(top + 1).from = top + 1
  BY <1>3, AskingIsLoop
<1> HIDE DEF batch, top
<1>7. /\ loop' \in [Loops -> Loop] /\ loop'[l].at = "asking" /\ loop'[l].from = top + 1
      /\ \A k \in Loops : k # l => loop'[k] = loop[k]
  BY <1>0, <1>6, OneLoopChanges DEF Polls
<1>8. /\ seen' \in [Ids -> 0..2]
      /\ \A i \in Ids : Seen(i)' <=> (Seen(i) \/ i \in batch)
      /\ \A i \in Ids : i \notin batch => seen'[i] = seen[i]
      /\ \A i \in Ids : seen[i] = 0 => seen'[i] < 2
  <2>1. \A i \in Ids : seen[i] \in 0..2
    BY DEF Polls
  <2> QED BY <1>0, <2>1 DEF Seen
<1>9. Polls'
  BY <1>0, <1>3, <1>7, <1>8 DEF Polls
<1>10. Behind'
  <2>1. \A i \in Ids : i <= forgotten' \/ i < offset' => Seen(i)'
    BY <1>0, <1>4, <1>8 DEF Behind
  <2>2. \A k \in Loops, i \in Ids : i < loop'[k].from => Seen(i)'
    <3>1. \A i \in Ids : i < loop'[l].from => Seen(i)'
      BY <1>4, <1>7, <1>8
    <3> QED BY <1>7, <1>8, <3>1 DEF Behind
  <2>3. ASSUME NEW k \in Loops, NEW i \in Ids, loop'[k].at = "answered",
               NEW j \in loop'[k].batch, i <= j
        PROVE  i \in loop'[k].batch \/ Seen(i)'
    <3>1. k # l /\ loop'[k] = loop[k]
      BY <1>7, <2>3
    <3> QED BY <1>8, <2>3, <3>1 DEF Behind
  <2> QED BY <2>1, <2>2, <2>3 DEF Behind
<1>11. ASSUME OneLoop PROVE OneLoop'
  <2>1. Alive = {l} /\ Alive' = Alive
    BY <1>0, <1>7, <1>11 DEF OneLoop, Alive
  <2>2. \A k \in Loops : loop'[k].at \in {"asking", "answered"} => loop'[k].from = offset'
    BY <1>0, <1>7, <2>1 DEF Alive
  <2>3. \A k \in Loops : loop'[k].at # "answered"
    BY <1>7, <2>1 DEF Alive
  <2>4. ASSUME NEW i \in Ids PROVE seen'[i] < 2 /\ (Seen(i)' => i < offset')
    <3>1. CASE i \in batch
      BY <1>0, <1>2, <1>3, <1>5, <1>8, <1>11, <3>1, Counters DEF Ids
    <3>2. CASE i \notin batch
      <4>1. seen[i] < 2 /\ (Seen(i) => i < offset) /\ i \in Nat /\ offset \in Nat
        BY <1>11, Counters DEF OneLoop, Polls
      <4>2. offset <= top
        BY <1>5, <1>11
      <4> QED BY <1>0, <1>3, <1>8, <3>2, <4>1, <4>2
    <3> QED BY <3>1, <3>2
  <2> QED BY <2>1, <2>2, <2>3, <2>4 DEF OneLoop
<1>12. \A i \in batch : Seen(i)'
  BY <1>1, <1>8
<1>13. \A i \in Ids : Seen(i) => Seen(i)'
  BY <1>8
<1> QED BY <1>9, <1>10, <1>11, <1>12, <1>13 DEF batch

LEMMA FailKeeps ==
    ASSUME Polls, Behind, NEW l \in Loops, Fail(l)
    PROVE  Polls' /\ Behind' /\ (OneLoop => OneLoop')
<1> DEFINE r == [loop[l] EXCEPT !.at = "delay", !.batch = {}]
<1>0. /\ UNCHANGED <<updates, forgotten, running, offset, seen, overlapped, restarts>>
      /\ status' = "reconnecting" /\ loop[l].at # "ended"
      /\ loop' = [loop EXCEPT ![l] = r]
  BY DEF Fail
<1>1. r \in Loop /\ r.at = "delay" /\ r.from = loop[l].from
  BY DEF Polls, Loop
<1> HIDE DEF r
<1>2. /\ loop' \in [Loops -> Loop] /\ loop'[l].at = "delay" /\ loop'[l].from = loop[l].from
      /\ \A k \in Loops : k # l => loop'[k] = loop[k]
  BY <1>0, <1>1, OneLoopChanges DEF Polls
<1>3. Polls'
  BY <1>0, <1>2 DEF Polls
<1>4. Behind'
  BY <1>0, <1>2 DEF Behind, Seen
<1>5. ASSUME OneLoop PROVE OneLoop'
  <2>1. Alive' = Alive
    BY <1>0, <1>2 DEF Alive
  <2> QED BY <1>0, <1>2, <1>5, <2>1 DEF OneLoop, Seen
<1> QED BY <1>3, <1>4, <1>5

LEMMA WakeKeeps ==
    ASSUME Polls, Behind, NEW l \in Loops, Wake(l)
    PROVE  Polls' /\ Behind' /\ (OneLoop => OneLoop')
<1> DEFINE r == IF running THEN Asking(offset) ELSE Ended
<1>0. /\ UNCHANGED <<updates, forgotten, running, offset, status, seen, overlapped, restarts>>
      /\ loop[l].at = "delay" /\ loop' = [loop EXCEPT ![l] = r]
  BY DEF Wake
<1>1. offset \in 0..(MaxUpdates + 1)
  BY DEF Polls
<1>2. /\ r \in Loop /\ r.at \in {"asking", "ended"}
      /\ r.at = "asking" => r.from = offset
      /\ r.at = "ended" => r.from = 0
  BY <1>1, AskingIsLoop, EndedIsLoop
<1> HIDE DEF r
<1>3. /\ loop' \in [Loops -> Loop] /\ loop'[l] = r
      /\ \A k \in Loops : k # l => loop'[k] = loop[k]
  BY <1>0, <1>2, OneLoopChanges DEF Polls
<1>4. Polls'
  BY <1>0, <1>2, <1>3 DEF Polls
<1>5. \A i \in Ids : ~(i < 0)
  BY DEF Ids
<1>6. Behind'
  <2>1. \A i \in Ids : i < r.from => Seen(i)'
    BY <1>0, <1>2, <1>5 DEF Behind, Seen
  <2> QED BY <1>0, <1>2, <1>3, <2>1 DEF Behind, Seen
<1>7. ASSUME OneLoop PROVE OneLoop'
  <2>1. Alive' \subseteq Alive
    BY <1>0, <1>3 DEF Alive
  <2> QED BY <1>0, <1>2, <1>3, <1>7, <2>1 DEF OneLoop, Seen
<1> QED BY <1>4, <1>6, <1>7

(***************************************************************************)
(* Connecting, disconnecting and restarts.                                 *)
(***************************************************************************)
LEMMA AbortedFacts ==
    ASSUME Polls
    PROVE  /\ Aborted \in [Loops -> Loop]
           /\ \A k \in Loops : \/ Aborted[k] = loop[k] /\ loop[k].at = "delay"
                               \/ Aborted[k] = Ended
BY EndedIsLoop DEF Aborted, Polls

LEMMA DisconnectKeeps ==
    ASSUME Polls, Behind, Disconnect
    PROVE  Polls' /\ Behind' /\ (OneLoop => OneLoop')
<1>0. /\ UNCHANGED <<updates, forgotten, offset, seen, overlapped, restarts>>
      /\ running' = FALSE /\ loop' = Aborted /\ status' = "disconnected"
  BY DEF Disconnect
<1>1. /\ loop' \in [Loops -> Loop]
      /\ \A k \in Loops : \/ loop'[k] = loop[k] /\ loop[k].at = "delay"
                          \/ loop'[k].at = "ended" /\ loop'[k].from = 0
  BY <1>0, AbortedFacts, EndedIsLoop
<1>2. Polls'
  BY <1>0, <1>1 DEF Polls
<1>3. Behind'
  <2>1. \A i \in Ids : ~(i < 0)
    BY DEF Ids
  <2> QED BY <1>0, <1>1, <2>1 DEF Behind, Seen
<1>4. ASSUME OneLoop PROVE OneLoop'
  <2>1. Alive' \subseteq Alive
    BY <1>1 DEF Alive
  <2> QED BY <1>0, <1>1, <1>4, <2>1 DEF OneLoop, Seen
<1> QED BY <1>2, <1>3, <1>4

LEMMA ReconnectKeeps ==
    ASSUME Polls, Behind, Reconnect
    PROVE  Polls' /\ Behind' /\ (OneLoop /\ ~overlapped' => OneLoop')
<1> DEFINE l == CHOOSE k \in Loops : Aborted[k] = Ended
<1>0. /\ UNCHANGED <<updates, forgotten, offset, seen, restarts>>
      /\ running' = TRUE /\ status' = "connected"
      /\ loop' = [Aborted EXCEPT ![l] = Asking(offset)]
      /\ overlapped' = (overlapped \/ \E k \in Loops : Aborted[k] # Ended)
  BY DEF Reconnect, Started
<1>1. l \in Loops
  BY DEF Reconnect
<1> HIDE DEF l
<1>2. Asking(offset) \in Loop /\ Asking(offset).at = "asking" /\ Asking(offset).from = offset
  BY AskingIsLoop DEF Polls
<1>3. /\ loop' \in [Loops -> Loop] /\ loop'[l] = Asking(offset)
      /\ \A k \in Loops : k # l => loop'[k] = Aborted[k]
  BY <1>0, <1>1, <1>2, AbortedFacts
<1>4. \A k \in Loops : \/ k = l
                       \/ loop'[k] = loop[k] /\ loop[k].at = "delay"
                       \/ loop'[k].at = "ended" /\ loop'[k].from = 0
  BY <1>3, AbortedFacts, EndedIsLoop
<1>5. Polls'
  <2>1. overlapped' \in BOOLEAN
    BY <1>0 DEF Polls
  <2>2. \A k \in Loops : loop'[k].at # "answered"
    BY <1>2, <1>3, <1>4
  <2> QED BY <1>0, <1>3, <2>1, <2>2 DEF Polls
<1>6. Behind'
  <2>1. \A i \in Ids : ~(i < 0)
    BY DEF Ids
  <2> QED BY <1>0, <1>2, <1>3, <1>4, <2>1 DEF Behind, Seen
<1>7. ASSUME OneLoop, ~overlapped' PROVE OneLoop'
  <2>1. \A k \in Loops : Aborted[k] = Ended
    BY <1>0, <1>7
  <2>2. \A k \in Loops : k # l => loop'[k].at = "ended"
    BY <1>3, <2>1, EndedIsLoop
  <2>3. \A j, k \in Alive' : j = k
    BY <2>2 DEF Alive
  <2> QED BY <1>0, <1>2, <1>3, <1>7, <2>2, <2>3 DEF OneLoop, Seen
<1> QED BY <1>5, <1>6, <1>7

LEMMA RestartKeeps ==
    ASSUME Polls, Behind, Restart
    PROVE  Polls' /\ Behind' /\ restarts' # 0
<1>0. /\ UNCHANGED <<updates, forgotten, seen, overlapped>>
      /\ offset' = 0 /\ running' = TRUE /\ status' = "connected"
      /\ restarts' = restarts + 1
      /\ loop' = [l \in Loops |-> IF l = 1 THEN Asking(0) ELSE Ended]
  BY DEF Restart
<1>1. Asking(0) \in Loop /\ Asking(0).at = "asking" /\ Asking(0).from = 0
  BY AskingIsLoop, Counters
<1>2. /\ loop' \in [Loops -> Loop]
      /\ \A l \in Loops : loop'[l].at # "answered" /\ loop'[l].from = 0
  BY <1>0, <1>1, EndedIsLoop
<1>3. restarts' \in Nat /\ restarts' # 0
  BY <1>0 DEF Polls
<1>4. offset' \in 0..(MaxUpdates + 1) /\ \A i \in Ids : ~(i < 0)
  BY <1>0, Counters DEF Ids
<1>5. Polls'
  BY <1>0, <1>2, <1>3, <1>4 DEF Polls
<1>6. Behind'
  BY <1>0, <1>2, <1>4 DEF Behind, Seen
<1> QED BY <1>3, <1>5, <1>6

(***************************************************************************)
(* The ways home.                                                          *)
(***************************************************************************)
\* Updates stay, and what was handled stays handled.
UpdatesStay ==
    \A i \in DOMAIN updates :
        /\ i \in DOMAIN updates' /\ updates'[i] = updates[i]
        /\ Seen(i) => Seen(i)'

LEMMA HomeStays ==
    ASSUME UpdatesStay
    PROVE  /\ \A ref : Home(ref) => Home(ref)'
           /\ \A ref, id : Quotes(ref, id) => Quotes(ref, id)'
BY DEF UpdatesStay, Home, From, Quotes

\* While nobody writes and nothing is sent or settled, the ways home are kept.
LEMMA PollsKeepHome ==
    ASSUME Homeward, UpdatesStay,
           busy' \subseteq busy, resetting' \subseteq resetting, calls' \subseteq calls
    PROVE  Homeward'
<1>1. /\ \A ref : Home(ref) => Home(ref)'
      /\ \A ref, id : Quotes(ref, id) => Quotes(ref, id)'
  BY HomeStays
<1>2. ASSUME NEW c, Returning(c) PROVE Returning(c)'
  BY <1>1, <1>2 DEF Returning
<1>3. /\ \A ref \in busy' : Home(ref)'
      /\ \A o \in resetting' : Home(o.ref)' /\ Quotes(o.ref, o.replyTo)'
      /\ \A c \in calls' : Returning(c)'
  BY <1>1, <1>2 DEF Homeward
<1> QED BY <1>3 DEF Homeward

LEMMA DeliverGoesHome ==
    ASSUME Polls, Behind, Homeward, NEW l \in Loops, Deliver(l)
    PROVE  Homeward'
<1> DEFINE batch == loop[l].batch
           talk == HandleBatch(batch)
<1>0. /\ busy' = talk.busy /\ resetting' = talk.resetting
      /\ UNCHANGED <<updates, calls>> /\ loop[l].at = "answered"
  BY DEF Deliver
<1>1. batch \subseteq DOMAIN updates
  BY <1>0 DEF Polls
<1>2. PICK b, d, r :
        /\ talk = [busy |-> b, bound |-> d, resetting |-> r]
        /\ \A ref \in b : ref \in busy \/ \E i \in batch : From(i, ref)
        /\ \A o \in r : \/ o \in resetting
                        \/ (\E i \in batch : From(i, o.ref)) /\ Quotes(o.ref, o.replyTo)
  <2>1. Left(talk, batch)
    <3> HIDE DEF batch
    <3> QED BY <1>1, BatchIsLeft, UpdateFacts, Counters
  <2> HIDE DEF talk
  <2> QED BY <2>1 DEF Left
<1>3. UpdatesStay /\ \A i \in batch : Seen(i)'
  BY <1>0, DeliverKeeps, UpdateFacts DEF UpdatesStay
<1>4. busy' = b /\ resetting' = r
  BY <1>0, <1>2
<1> HIDE DEF batch, talk
<1>5. /\ \A ref : Home(ref) => Home(ref)'
      /\ \A ref, id : Quotes(ref, id) => Quotes(ref, id)'
  BY <1>3, HomeStays
<1>6. \A ref : (\E i \in batch : From(i, ref)) => Home(ref)'
  BY <1>0, <1>1, <1>3 DEF Home, From
<1>7. \A ref \in busy' : Home(ref)'
  BY <1>2, <1>4, <1>5, <1>6 DEF Homeward
<1>8. \A o \in resetting' : Home(o.ref)' /\ Quotes(o.ref, o.replyTo)'
  BY <1>2, <1>4, <1>5, <1>6 DEF Homeward
<1>9. \A c \in calls' : Returning(c)'
  <2>1. ASSUME NEW c, Returning(c) PROVE Returning(c)'
    BY <1>5, <2>1 DEF Returning
  <2> QED BY <1>0, <2>1 DEF Homeward
<1> QED BY <1>7, <1>8, <1>9 DEF Homeward

\* What process() sends for an agent goes to the destination of the agent.
LEMMA ProcessReturns ==
    ASSUME NEW ref, Home(ref), 
           NEW intent \in Typing \cup {"agent_responding", "agent_error", "none"},
           process(ref, intent)
    PROVE  \A c \in calls' : c \in calls \/ Returning(c)
<1>1. Returning(Message(ref, None))
  <2>1. /\ Message(ref, None).method = "sendMessage" /\ Message(ref, None).reply = None
        /\ Message(ref, None).chat = ref[1] /\ Message(ref, None).thread = ref[2]
    BY DEF Message, decodeRef
  <2> HIDE DEF Message
  <2> QED BY <2>1 DEF Returning
<1>2. Returning(Action(ref))
  BY DEF Returning, Action
<1>3. SendTyping(ref) => \A c \in calls' : c \in calls \/ c = Action(ref)
  BY DEF SendTyping
<1>4. CASE intent \in Typing
  <2>1. SendTyping(ref)
    BY <1>4 DEF process, Typing
  <2> QED BY <1>2, <1>3, <2>1
<1>5. CASE intent \notin Typing /\ intent \in {"agent_responding", "agent_error"}
  <2>1. calls' = calls \cup {Message(ref, None)}
    BY <1>5 DEF process, Typing
  <2> QED BY <1>1, <2>1
<1>6. CASE intent = "none"
  <2>1. calls' = calls
    BY <1>6 DEF process, Typing
  <2> QED BY <2>1
<1> QED BY <1>4, <1>5, <1>6

\* What agents, commands and the outbound side do: they send home, and poll nothing.
TalkStep ==
    \/ \E d \in busy : AgentEvent(d)
    \/ \E origin \in resetting : Reset(origin)
    \/ \E chat \in typed : TypingOver(chat)
    \/ \E c \in calls : CallEnds(c)

LEMMA EventsReturn ==
    ASSUME Homeward, NEW ref \in busy, AgentEvent(ref)
    PROVE  /\ busy' \subseteq busy /\ resetting' = resetting
           /\ \A c \in calls' : c \in calls \/ Returning(c)
<1>1. PICK e \in AgentEvents :
         /\ busy' = IF e = "done" THEN busy \ {ref} ELSE busy
         /\ process(ref, IntentOf(e)) \/ UNCHANGED <<typed, calls>>
  BY DEF AgentEvent
<1>2. IntentOf(e) \in Typing \cup {"agent_responding", "agent_error", "none"}
  BY DEF AgentEvents, IntentOf, Typing
<1>3. \A c \in calls' : c \in calls \/ Returning(c)
  <2>1. Home(ref)
    BY DEF Homeward
  <2>2. CASE process(ref, IntentOf(e))
    BY <1>2, <2>1, <2>2, ProcessReturns
  <2>3. CASE UNCHANGED <<typed, calls>>
    BY <2>3
  <2> QED BY <1>1, <2>2, <2>3
<1>4. resetting' = resetting
  BY DEF AgentEvent
<1> QED BY <1>1, <1>3, <1>4

LEMMA ResetReturns ==
    ASSUME Homeward, NEW o \in resetting, Reset(o)
    PROVE  /\ busy' = busy /\ resetting' \subseteq resetting
           /\ \A c \in calls' : c \in calls \/ Returning(c)
<1>1. /\ busy' = busy /\ resetting' = resetting \ {o}
      /\ calls' = calls \cup {Message(o.ref, o.replyTo)}
  BY DEF Reset
<1>2. Home(o.ref) /\ Quotes(o.ref, o.replyTo)
  BY DEF Homeward
<1>3. Returning(Message(o.ref, o.replyTo))
  <2>1. /\ Message(o.ref, o.replyTo).method = "sendMessage"
        /\ Message(o.ref, o.replyTo).reply = o.replyTo
        /\ Message(o.ref, o.replyTo).chat = o.ref[1]
        /\ Message(o.ref, o.replyTo).thread = o.ref[2]
    BY DEF Message, decodeRef
  <2> HIDE DEF Message
  <2> QED BY <1>2, <2>1 DEF Returning
<1> QED BY <1>1, <1>3

LEMMA TalkKeeps ==
    ASSUME Polls, Behind, Homeward, TalkStep
    PROVE  Polls' /\ Behind' /\ Homeward' /\ (OneLoop => OneLoop') /\ UNCHANGED pollVars
<1>1. UNCHANGED pollVars
  BY DEF TalkStep, AgentEvent, Reset, TypingOver, CallEnds
<1>2. UNCHANGED <<updates, forgotten, running, offset, loop, status, seen, overlapped, restarts>>
  BY <1>1 DEF pollVars
<1>3. Polls'
  BY <1>2 DEF Polls
<1>4. Behind' /\ (OneLoop => OneLoop')
  BY <1>2 DEF Behind, OneLoop, Seen, Alive
<1>5. /\ busy' \subseteq busy /\ resetting' \subseteq resetting
      /\ \A c \in calls' : c \in calls \/ Returning(c)
  <2>1. CASE \E d \in busy : AgentEvent(d)
    BY <2>1, EventsReturn
  <2>2. CASE \E o \in resetting : Reset(o)
    BY <2>2, ResetReturns
  <2>3. CASE \E chat \in typed : TypingOver(chat)
    BY <2>3 DEF TypingOver
  <2>4. CASE \E c \in calls : CallEnds(c)
    BY <2>4 DEF CallEnds
  <2> QED BY <2>1, <2>2, <2>3, <2>4 DEF TalkStep
<1>6. /\ \A ref : Home(ref)' <=> Home(ref)
      /\ \A ref, id : Quotes(ref, id)' <=> Quotes(ref, id)
  BY <1>2 DEF Home, From, Quotes, Seen
<1>7. \A c : Returning(c)' <=> Returning(c)
  BY <1>6 DEF Returning
<1>8. Homeward'
  BY <1>5, <1>6, <1>7 DEF Homeward
<1> QED BY <1>1, <1>3, <1>4, <1>8

(***************************************************************************)
(* Every step.                                                             *)
(***************************************************************************)
LEMMA TelegramInit == Init => TelegramInv
<1> SUFFICES ASSUME Init PROVE TelegramInv
  OBVIOUS
<1>1. Homeward
  BY DEF Init, Homeward
<1> QED BY <1>1, PollsInit DEF TelegramInv

LEMMA TelegramNext == TelegramInv /\ [Next]_vars => TelegramInv'
<1> SUFFICES ASSUME TelegramInv, [Next]_vars PROVE TelegramInv'
  OBVIOUS
<1>0. /\ Polls /\ Behind /\ Homeward
      /\ ~overlapped /\ restarts = 0 => OneLoop
      /\ DOMAIN updates \subseteq Ids /\ DOMAIN updates = 1..Len(updates) /\ Len(updates) \in Nat
  BY UpdateFacts DEF TelegramInv
<1>1. CASE Arrive
  <2>1. UNCHANGED <<seen, overlapped, restarts, busy, resetting, calls>>
    BY <1>1 DEF Arrive, talkVars
  <2>2. UpdatesStay
    <3>1. PICK s \in Shapes : updates' = Append(updates, s)
      BY <1>1 DEF Arrive
    <3>2. \A i \in DOMAIN updates : i \in DOMAIN updates' /\ updates'[i] = updates[i]
      BY <1>0, <3>1 DEF Polls
    <3> QED BY <2>1, <3>2 DEF UpdatesStay, Seen
  <2>3. Homeward'
    BY <1>0, <2>1, <2>2, PollsKeepHome
  <2> QED BY <1>0, <1>1, <2>1, <2>3, ArriveKeeps DEF TelegramInv
<1>2. ASSUME NEW l \in Loops, Answer(l) \/ Wake(l) \/ Fail(l) PROVE TelegramInv'
  <2>1. UNCHANGED <<updates, seen, overlapped, restarts, busy, resetting, calls>>
    BY <1>2 DEF Answer, Wake, Fail, talkVars
  <2>2. UpdatesStay
    BY <2>1 DEF UpdatesStay, Seen
  <2>3. Homeward'
    BY <1>0, <2>1, <2>2, PollsKeepHome
  <2>4. Polls' /\ Behind' /\ (OneLoop => OneLoop')
    BY <1>0, <1>2, AnswerKeeps, WakeKeeps, FailKeeps
  <2> QED BY <1>0, <2>1, <2>3, <2>4 DEF TelegramInv
<1>3. ASSUME NEW l \in Loops, Deliver(l) PROVE TelegramInv'
  <2>1. UNCHANGED <<overlapped, restarts>>
    BY <1>3 DEF Deliver
  <2>2. Homeward'
    BY <1>0, <1>3, DeliverGoesHome
  <2>3. Polls' /\ Behind' /\ (OneLoop => OneLoop')
    BY <1>0, <1>3, DeliverKeeps
  <2> QED BY <1>0, <2>1, <2>2, <2>3 DEF TelegramInv
<1>4. CASE Disconnect \/ Reconnect
  <2>1. UNCHANGED <<updates, seen, restarts, talkVars>>
    BY <1>4 DEF Disconnect, Reconnect
  <2>2. overlapped => overlapped'
    BY <1>4, Zenon DEF Disconnect, Reconnect
  <2>3. UNCHANGED <<busy, resetting, calls>>
    BY <2>1 DEF talkVars
  <2>4. UpdatesStay
    BY <2>1 DEF UpdatesStay, Seen
  <2>5. Homeward'
    BY <1>0, <2>3, <2>4, PollsKeepHome
  <2>6. Polls' /\ Behind' /\ (OneLoop /\ ~overlapped' => OneLoop')
    BY <1>0, <1>4, DisconnectKeeps, ReconnectKeeps
  <2> QED BY <1>0, <2>1, <2>2, <2>5, <2>6 DEF TelegramInv
<1>5. CASE Restart
  <2>1. /\ UNCHANGED <<updates, seen>>
        /\ busy' = {} /\ resetting' = {} /\ calls' = {}
    BY <1>5 DEF Restart
  <2>2. Homeward'
    BY <2>1 DEF Homeward
  <2> QED BY <1>0, <1>5, <2>2, RestartKeeps DEF TelegramInv
<1>6. CASE TalkStep
  <2>1. UNCHANGED pollVars /\ Polls' /\ Behind' /\ Homeward' /\ (OneLoop => OneLoop')
    BY <1>0, <1>6, TalkKeeps
  <2>2. UNCHANGED <<overlapped, restarts>>
    BY <2>1 DEF pollVars
  <2> QED BY <1>0, <2>1, <2>2 DEF TelegramInv
<1>7. CASE UNCHANGED vars
  <2>1. /\ UNCHANGED <<updates, forgotten, running, offset, loop, status, seen, overlapped, restarts>>
        /\ UNCHANGED <<busy, resetting, calls>>
    BY <1>7 DEF vars, pollVars, talkVars
  <2>2. UpdatesStay
    BY <2>1 DEF UpdatesStay, Seen
  <2>3. Homeward'
    BY <1>0, <2>1, <2>2, PollsKeepHome
  <2>4. Polls'
    BY <1>0, <2>1 DEF Polls
  <2>5. Behind' /\ (OneLoop => OneLoop')
    BY <1>0, <2>1 DEF Behind, OneLoop, Seen, Alive
  <2> QED BY <1>0, <2>1, <2>3, <2>4, <2>5 DEF TelegramInv
<1> QED BY <1>1, <1>2, <1>3, <1>4, <1>5, <1>6, <1>7 DEF Next, LoopStep, TalkStep

\* What the loops ask for, what the server may forget and where answers lead, at every
\* moment, is as TelegramInv says.
THEOREM TelegramInvariant == Spec => []TelegramInv
BY TelegramInit, TelegramNext, PTL DEF Spec

(***************************************************************************)
(* The properties.                                                         *)
(***************************************************************************)
\* The variables of channel, transport and calls stay in their types.
THEOREM TelegramTypeCorrect == Spec => []TypeOK
<1>1. TelegramInv => TypeOK
  BY DEF TelegramInv, Polls, Homeward, Returning, TypeOK, Loop
<1> QED BY <1>1, TelegramInvariant, PTL

\* The server forgets only what was handled, whatever fails, reconnects or restarts, for
\* any number of loops; and nothing is handled twice without an overlap of two loops or a
\* restart (transport.ts, start and getUpdates).
THEOREM NoUpdateIsLost == Spec => []ForgottenIsHandled
<1>1. TelegramInv => ForgottenIsHandled
  <2> SUFFICES ASSUME TelegramInv PROVE ForgottenIsHandled
    OBVIOUS
  <2>1. \A i \in 1..forgotten : i \in Ids /\ i <= forgotten
    BY Counters DEF TelegramInv, Polls, Ids
  <2>2. \A i \in 1..forgotten : seen[i] > 0
    BY <2>1 DEF TelegramInv, Behind, Seen
  <2>3. restarts \in Nat
    BY DEF TelegramInv, Polls
  <2>4. ASSUME NEW i \in Ids, seen[i] = 2 PROVE overlapped \/ restarts > 0
    <3>1. ~OneLoop
      BY <2>4 DEF OneLoop
    <3> QED BY <2>3, <3>1 DEF TelegramInv
  <2> QED BY <2>2, <2>4 DEF ForgottenIsHandled
<1> QED BY <1>1, TelegramInvariant, PTL

\* Whatever users, agents, commands and reconnects do, a message the bot sends goes to a
\* chat and thread somebody has written from whom the filter lets through, and quotes a
\* message of that thread (mappers.ts, transforms.ts, channel.ts process).
THEOREM AnswersGoHome == Spec => []RepliesGoHome
<1>1. TelegramInv => RepliesGoHome
  <2> SUFFICES ASSUME TelegramInv, NEW c \in calls, c.method = "sendMessage"
               PROVE  /\ \E i \in DOMAIN updates :
                            /\ seen[i] > 0
                            /\ Allowed # {} => updates[i].from \in Allowed \cup {None}
                            /\ updates[i].chat = c.chat
                            /\ updates[i].kind # "my_chat_member" => updates[i].thread = c.thread
                      /\ c.reply # None => /\ updates[c.reply].chat = c.chat
                                           /\ updates[c.reply].thread = c.thread
    BY DEF RepliesGoHome
  <2>1. PICK ref : /\ Home(ref) /\ c.chat = ref[1] /\ c.thread = ref[2]
                   /\ c.reply # None => Quotes(ref, c.reply)
    BY DEF TelegramInv, Homeward, Returning
  <2> QED BY <2>1 DEF Home, From, Quotes, Seen
<1> QED BY <1>1, TelegramInvariant, PTL
=============================================================================
