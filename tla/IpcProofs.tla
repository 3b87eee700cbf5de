----------------------------- MODULE IpcProofs -----------------------------
(***************************************************************************)
(* Theorems about the command line's two ways to a daemon.  Ipc, for any   *)
(* callers, requests and sockets: no call gets the answer to another, and  *)
(* only sockets that overlap lose a line.  Onboarding, for any             *)
(* configurations, providers and bounds: the user's text survives the copy *)
(* of the templates, a provider that is written has its key, and a setup   *)
(* that succeeds has saved what was chosen.                                *)
(***************************************************************************)
EXTENDS Ipc, Onboarding, FiniteSetTheorems, SequenceTheorems, WellFoundedInduction, TLAPS

(***************************************************************************)
(* The invariant.                                                          *)
(***************************************************************************)
\* An id is never used twice: it goes on with the calls.
Call == {c \in [id : Nat, request : Nat] : c.id = c.request}
Piece == {p \in [part : {"head", "tail"}, id : Nat, request : Nat] : p.id = p.request}
OnSocket == {c \in [id : Nat, request : Nat, sock : Socket] : c.id = c.request}
Outcome == {"pending", "answered", "closed", "timeout"}
Early == {"unused", "connecting", "finishing", "destroyed"}
Linked == {"open", "ending"}

IpcType ==
    /\ outcome \in Seq(Outcome) /\ nextId = Len(outcome) + 1
    /\ pending \subseteq OnSocket /\ handling \subseteq OnSocket
    /\ current \in Socket \cup {None}
    /\ sock \in [Socket -> Early \cup Linked \cup {"closed"}]
    /\ conn \in [Socket -> {"none", "open", "closed"}]
    /\ up \in [Socket -> Seq(Call)] /\ down \in [Socket -> Seq(Piece)]
    /\ buffer \in Seq(Piece)
    /\ garbled \in BOOLEAN /\ overlapped \in BOOLEAN

\* What waits, and what is asked next, is on a socket that is not closed.
Written ==
    /\ \A p \in pending : sock[p.sock] # "closed"
    /\ current # None => sock[current] # "closed"

\* The two ends of a socket.
BothEnds ==
    \A s \in Socket :
        /\ conn[s] = "open" => sock[s] \in Linked
        /\ sock[s] \in Early => conn[s] = "none" /\ down[s] = <<>>

\* Heads and tails take turns, and a tail belongs to the head before it.
Even(n) == n % 2 = 0
Paired(q) ==
    \A i \in DOMAIN q :
        /\ q[i].part = (IF Even(i) THEN "tail" ELSE "head")
        /\ Even(i) => q[i].id = q[i - 1].id /\ q[i].request = q[i - 1].request

\* While no two sockets overlap, what the decoder holds and what is on its way to it are
\* the pieces of one connection, and end within a line only when that connection is over.
OneStream ==
    /\ \A s, t \in Socket : sock[s] \notin {"unused", "closed"} /\ sock[t] \notin {"unused", "closed"} => s = t
    /\ (\A s \in Socket : sock[s] \notin Linked) => buffer = <<>>
    /\ \A s \in Socket : sock[s] \in Linked =>
          /\ Paired(buffer \o down[s])
          /\ conn[s] = "open" => Even(Len(buffer) + Len(down[s]))

IpcInv ==
    /\ IpcType /\ Written /\ BothEnds /\ LinesAreWhole
    /\ ~overlapped => OneStream

(***************************************************************************)
(* Lemmas about the decoder.                                               *)
(***************************************************************************)
\* A set of numbers up to n has a greatest one.
LEMMA Greatest ==
    ASSUME NEW n \in Nat, NEW T, T \subseteq 0..n, T # {}
    PROVE  \E x \in T : \A y \in T : y <= x
<1> DEFINE remains == {k \in 0..n : n - k \in T}
<1>1. remains \subseteq Nat /\ remains # {}
  <2>1. PICK x \in 0..n : x \in T
    OBVIOUS
  <2>2. n - x \in 0..n /\ n - (n - x) = x
    OBVIOUS
  <2>3. n - x \in remains
    BY <2>1, <2>2
  <2>4. remains \subseteq Nat
    OBVIOUS
  <2> HIDE DEF remains
  <2> QED
    BY <2>3, <2>4
<1>2. PICK m \in remains : \A y \in remains : ~(y < m)
  <2> DEFINE less == OpToRel(<, Nat)
  <2>1. IsWellFoundedOn(less, Nat)
    BY NatLessThanWellFounded
  <2>2. \E m \in remains : \A y \in remains : ~(<<y, m>> \in less)
    <3> HIDE DEF less, remains
    <3> QED BY <1>1, <2>1, WFMin
  <2> QED
    BY <1>1, <2>2 DEF OpToRel
<1>3. \A y \in T : n - y \in 0..n /\ n - (n - y) = y
  OBVIOUS
<1>4. \A y \in T : n - y \in remains
  BY <1>3
<1>5. m \in 0..n /\ n - m \in T
  BY <1>2
<1>6. ASSUME NEW y \in 0..n, y \in T PROVE y <= n - m
  <2>1. ~(n - y < m)
    BY <1>2, <1>4, <1>6
  <2> QED
    BY <2>1, <1>5
<1> QED
  BY <1>5, <1>6

LEMMA MappedSeq ==
    ASSUME NEW S, NEW T, NEW q \in Seq(S), NEW f \in [DOMAIN q -> T]
    PROVE  f \in Seq(T) /\ Len(f) = Len(q)
BY SeqDef

\* What is left in the decoder is the end of the pieces, behind a break.
LEMMA RestIsTheEnd ==
    ASSUME NEW S, NEW q \in Seq(S)
    PROVE  \E j \in Breaks(q) :
              /\ j \in 0..Len(q) /\ \A k \in Ends(q) : k <= j
              /\ Rest(q) = SubSeq(q, j + 1, Len(q))
<1>1. Breaks(q) \subseteq 0..Len(q) /\ Breaks(q) # {} /\ Ends(q) \subseteq Breaks(q)
  BY DEF Breaks, Ends
<1>2. \E j \in Breaks(q) : \A k \in Ends(q) : k <= j
  BY <1>1, Greatest
<1> DEFINE top == CHOOSE j \in Breaks(q) : \A k \in Ends(q) : k <= j
<1>3. top \in Breaks(q) /\ \A k \in Ends(q) : k <= top
  BY <1>2
<1>4. Rest(q) = SubSeq(q, 1 + top, Len(q))
  BY DEF Rest
<1> HIDE DEF top
<1>5. 1 + top = top + 1
  BY <1>1, <1>3
<1> QED
  BY <1>1, <1>3, <1>4, <1>5

LEMMA RestType ==
    ASSUME NEW S, NEW q \in Seq(S)
    PROVE  Rest(q) \in Seq(S)
<1>1. PICK j \in 0..Len(q) : Rest(q) = SubSeq(q, j + 1, Len(q))
  BY RestIsTheEnd
<1>2. \A i \in (j + 1)..Len(q) : q[i] \in S
  OBVIOUS
<1> QED
  BY <1>1, <1>2, SubSeqProperties

\* A line that parses begins with one of the pieces.
LEMMA LineStarts ==
    ASSUME NEW S, NEW q \in Seq(S), NEW l \in Lines(q), Len(l) > 0
    PROVE  l[1] \in S
<1>1. PICK b \in Breaks(q) \X Ends(q) : b[1] < b[2] /\ l = SubSeq(q, b[1] + 1, b[2])
  BY DEF Lines
<1>2. b[1] \in 0..Len(q) /\ b[2] \in 1..Len(q)
  BY DEF Breaks, Ends
<1>3. l[1] = q[b[1] + 1] /\ b[1] + 1 \in 1..Len(q)
  BY <1>1, <1>2, SubSeqProperties
<1> QED
  BY <1>3

LEMMA EvenShift ==
    ASSUME NEW n \in Int, NEW k \in Int, Even(k)
    PROVE  Even(n + k) <=> Even(n)
BY DEF Even

\* Part of a paired sequence, from an even place on.
LEMMA PairedPart ==
    ASSUME NEW q \in Seq(Piece), Paired(q), NEW p \in Seq(Piece), NEW j \in Nat, Even(j),
           \A i \in 1..Len(p) : i + j \in 1..Len(q) /\ p[i] = q[i + j]
    PROVE  Paired(p)
<1> SUFFICES ASSUME NEW i \in 1..Len(p)
             PROVE  /\ p[i].part = (IF Even(i) THEN "tail" ELSE "head")
                    /\ Even(i) => p[i].id = p[i - 1].id /\ p[i].request = p[i - 1].request
  BY DEF Paired
<1>1. i + j \in DOMAIN q /\ p[i] = q[i + j] /\ (Even(i + j) <=> Even(i))
  <2>1. i + j \in 1..Len(q) /\ p[i] = q[i + j]
    OBVIOUS
  <2>2. i \in Int /\ j \in Int /\ Even(j)
    OBVIOUS
  <2>3. Even(i + j) <=> Even(i)
    BY ONLY <2>2, EvenShift
  <2> QED
    BY <2>1, <2>3
<1>2. p[i].part = (IF Even(i) THEN "tail" ELSE "head")
  BY <1>1 DEF Paired
<1>3. ASSUME Even(i) PROVE p[i].id = p[i - 1].id /\ p[i].request = p[i - 1].request
  <2>1. i - 1 \in 1..Len(p) /\ (i - 1) + j = (i + j) - 1
    BY <1>3 DEF Even
  <2>2. p[i - 1] = q[(i + j) - 1]
    BY <2>1
  <2>3. q[i + j].id = q[(i + j) - 1].id /\ q[i + j].request = q[(i + j) - 1].request
    BY <1>1, <1>3 DEF Paired
  <2> QED
    BY <1>1, <2>2, <2>3
<1> QED
  BY <1>2, <1>3

\* In a paired sequence every line parses.
LEMMA PairedLines ==
    ASSUME NEW q \in Seq(Piece), Paired(q), NEW l \in Lines(q)
    PROVE  Parses(l)
<1>1. PICK j \in Breaks(q), i \in Ends(q) :
         j < i /\ l = SubSeq(q, j + 1, i) /\ \A k \in Ends(q) : k <= j \/ i <= k
  <2>1. PICK b \in Breaks(q) \X Ends(q) :
           /\ b[1] < b[2] /\ l = SubSeq(q, b[1] + 1, b[2])
           /\ \A k \in Ends(q) : k <= b[1] \/ b[2] <= k
    BY DEF Lines
  <2> QED
    BY <2>1
<1>2. \A k \in 1..Len(q) : k \in Ends(q) <=> Even(k)
  BY DEF Ends, Paired
<1>3. j \in 0..Len(q) /\ i \in 1..Len(q) /\ Even(i) /\ Even(j)
  <2>1. j \in 0..Len(q) /\ i \in 1..Len(q)
    BY DEF Ends, Breaks
  <2>2. j = 0 \/ j \in Ends(q)
    BY DEF Breaks
  <2> QED
    BY <1>2, <2>1, <2>2 DEF Even
<1>4. j = i - 2
  <2>1. i - 2 = 0 \/ (i - 2 \in 1..Len(q) /\ Even(i - 2))
    BY <1>3 DEF Even
  <2>2. i - 2 <= j
    BY <1>1, <1>2, <1>3, <2>1
  <2> QED
    BY <1>1, <1>3, <2>2 DEF Even
<1>5. Len(l) = 2 /\ l[1] = q[i - 1] /\ l[2] = q[i]
  <2>1. \A k \in (j + 1)..i : q[k] \in Piece
    BY <1>3
  <2>2. Len(l) = 2 /\ \A k \in 1..2 : l[k] = q[(j + 1) + k - 1]
    BY <1>1, <1>3, <1>4, <2>1, SubSeqProperties
  <2> QED
    BY <1>3, <1>4, <2>2
<1>6. q[i].id = q[i - 1].id /\ q[i].request = q[i - 1].request
  BY <1>3 DEF Paired
<1> QED
  BY <1>5, <1>6 DEF Parses

\* What the decoder keeps is still paired with what comes after it.
LEMMA PairedRest ==
    ASSUME NEW q \in Seq(Piece), NEW r \in Seq(Piece), Paired(q \o r)
    PROVE  /\ Paired(Rest(q) \o r)
           /\ Even(Len(Rest(q)) + Len(r)) <=> Even(Len(q) + Len(r))
<1>1. PICK j \in 0..Len(q) : j \in Breaks(q) /\ Rest(q) = SubSeq(q, j + 1, Len(q))
  BY RestIsTheEnd
<1>2. \A k \in (j + 1)..Len(q) : q[k] \in Piece
  OBVIOUS
<1>3. /\ Rest(q) \in Seq(Piece) /\ Len(Rest(q)) = Len(q) - j
      /\ \A i \in 1..(Len(q) - j) : Rest(q)[i] = q[i + j]
  BY <1>1, <1>2, SubSeqProperties
<1>4. Even(j)
  <2>1. CASE j = 0
    BY <2>1 DEF Even
  <2>2. CASE j # 0
    <3>1. j \in DOMAIN q /\ q[j].part = "tail"
      BY <1>1, <2>2 DEF Breaks, Ends
    <3>2. j \in DOMAIN (q \o r) /\ (q \o r)[j] = q[j]
      BY <3>1
    <3> QED
      BY <3>1, <3>2 DEF Paired
  <2> QED
    BY <2>1, <2>2
<1>5. q \o r \in Seq(Piece) /\ Rest(q) \o r \in Seq(Piece)
  BY <1>3, ConcatProperties
<1>6. ASSUME NEW i \in 1..Len(Rest(q) \o r)
      PROVE  i + j \in 1..Len(q \o r) /\ (Rest(q) \o r)[i] = (q \o r)[i + j]
  <2> DEFINE e == Rest(q)
  <2>1. e \in Seq(Piece) /\ Len(e) = Len(q) - j /\ \A k \in 1..(Len(q) - j) : e[k] = q[k + j]
    BY <1>3
  <2> HIDE DEF e
  <2>2. i \in 1..(Len(e) + Len(r))
    BY <1>6, <2>1 DEF e
  <2>3. CASE i <= Len(e)
    BY <1>1, <2>1, <2>2, <2>3, ConcatProperties DEF e
  <2>4. CASE i > Len(e)
    BY <1>1, <2>1, <2>2, <2>4, ConcatProperties DEF e
  <2> QED
    BY <2>1, <2>2, <2>3, <2>4
<1>7. Paired(Rest(q) \o r)
  <2> DEFINE whole == q \o r
             remains == Rest(q) \o r
  <2>1. whole \in Seq(Piece) /\ remains \in Seq(Piece) /\ Paired(whole)
    BY <1>5
  <2>2. \A i \in 1..Len(remains) : i + j \in 1..Len(whole) /\ remains[i] = whole[i + j]
    BY <1>6
  <2> HIDE DEF whole, remains
  <2>3. Paired(remains)
    BY <1>4, <2>1, <2>2, PairedPart
  <2> QED
    BY <2>3 DEF remains
<1>8. Even(Len(Rest(q)) + Len(r)) <=> Even(Len(q) + Len(r))
  <2> DEFINE n == Len(Rest(q)) + Len(r)
  <2>1. n \in Int /\ j \in Int /\ Len(q) + Len(r) = n + j
    BY <1>3
  <2> HIDE DEF n
  <2>2. Even(n + j) <=> Even(n)
    BY <1>4, <2>1, EvenShift
  <2> QED
    BY <2>1, <2>2 DEF n
<1> QED
  BY <1>7, <1>8

\* A whole response goes behind whole ones.
LEMMA PairedMore ==
    ASSUME NEW q \in Seq(Piece), Paired(q), Even(Len(q)), NEW h \in Piece, NEW t \in Piece,
           h.part = "head", t.part = "tail", t.id = h.id, t.request = h.request
    PROVE  Paired(q \o <<h, t>>) /\ Even(Len(q \o <<h, t>>))
<1>1. /\ Len(q \o <<h, t>>) = Len(q) + 2
      /\ \A i \in 1..Len(q) : (q \o <<h, t>>)[i] = q[i]
      /\ (q \o <<h, t>>)[Len(q) + 1] = h /\ (q \o <<h, t>>)[Len(q) + 2] = t
      /\ DOMAIN (q \o <<h, t>>) = 1..(Len(q) + 2)
  OBVIOUS
<1> DEFINE more == q \o <<h, t>>
<1> HIDE DEF more
<1>2. ASSUME NEW i \in 1..(Len(q) + 2)
      PROVE  /\ more[i].part = (IF Even(i) THEN "tail" ELSE "head")
             /\ Even(i) => more[i].id = more[i - 1].id /\ more[i].request = more[i - 1].request
  <2>1. CASE i <= Len(q)
    <3>1. Even(i) => i - 1 \in 1..Len(q)
      BY <2>1 DEF Even
    <3> QED
      BY <1>1, <2>1, <3>1 DEF more, Paired
  <2>2. CASE i = Len(q) + 1
    BY <1>1, <2>2 DEF more, Even
  <2>3. CASE i = Len(q) + 2
    BY <1>1, <2>3 DEF more, Even
  <2> QED
    BY <2>1, <2>2, <2>3
<1>3. Paired(more)
  BY <1>1, <1>2 DEF Paired, more
<1> QED
  BY <1>1, <1>3 DEF more, Even

\* What comes before a part of what is on its way is paired, too.
LEMMA PairedFront ==
    ASSUME NEW q \in Seq(Piece), NEW r \in Seq(Piece), NEW n \in 0..Len(r), Paired(q \o r)
    PROVE  SubSeq(r, 1, n) \in Seq(Piece) /\ Paired(q \o SubSeq(r, 1, n))
<1> DEFINE f == SubSeq(r, 1, n)
           whole == q \o r
           part == q \o f
<1>1. \A i \in 1..n : r[i] \in Piece
  OBVIOUS
<1>2. f \in Seq(Piece) /\ Len(f) = n /\ \A i \in 1..n : f[i] = r[i]
  BY <1>1, SubSeqProperties
<1> HIDE DEF f
<1>3. whole \in Seq(Piece) /\ part \in Seq(Piece) /\ Paired(whole)
  BY <1>2, ConcatProperties
<1>4. \A i \in 1..Len(part) : i + 0 \in 1..Len(whole) /\ part[i] = whole[i + 0]
  BY <1>2, ConcatProperties
<1>5. Even(0)
  BY DEF Even
<1> HIDE DEF whole, part
<1>6. Paired(part)
  BY <1>3, <1>4, <1>5, PairedPart
<1> QED
  BY <1>2, <1>6 DEF part, f

LEMMA ThreeParts ==
    ASSUME NEW q \in Seq(Piece), NEW f \in Seq(Piece), NEW g \in Seq(Piece)
    PROVE  (q \o f) \o g = q \o (f \o g)
<1> DEFINE nested == (q \o f) \o g
           flat == q \o (f \o g)
<1>1. /\ nested \in Seq(Piece) /\ flat \in Seq(Piece) /\ Len(nested) = Len(flat)
  BY ConcatProperties
<1>2. \A i \in 1..Len(nested) : nested[i] = flat[i]
  BY ConcatProperties
<1> HIDE DEF nested, flat
<1>3. nested = flat
  BY <1>1, <1>2, SeqEqual
<1> QED
  BY <1>3 DEF nested, flat

LEMMA PairedBefore ==
    ASSUME NEW q \in Seq(Piece), NEW r \in Seq(Piece), Paired(q \o r)
    PROVE  Paired(q)
<1> DEFINE whole == q \o r
<1>1. whole \in Seq(Piece) /\ Paired(whole)
  BY ConcatProperties
<1>2. \A i \in 1..Len(q) : i + 0 \in 1..Len(whole) /\ q[i] = whole[i + 0]
  BY ConcatProperties
<1>3. Even(0)
  BY DEF Even
<1> HIDE DEF whole
<1> QED
  BY <1>1, <1>2, <1>3, PairedPart

\* A chunk taken from what has arrived.
Taken(q, r, n) == q \o SubSeq(r, 1, n)
Left(r, n) == SubSeq(r, n + 1, Len(r))

LEMMA Chunk ==
    ASSUME NEW q \in Seq(Piece), NEW r \in Seq(Piece), NEW n \in DOMAIN r
    PROVE  /\ Taken(q, r, n) \in Seq(Piece) /\ Left(r, n) \in Seq(Piece)
           /\ Rest(Taken(q, r, n)) \in Seq(Piece)
           /\ Len(Taken(q, r, n)) + Len(Left(r, n)) = Len(q) + Len(r)
           /\ Taken(q, r, n) \o Left(r, n) = q \o r
<1> DEFINE f == SubSeq(r, 1, n)
           remains == SubSeq(r, n + 1, Len(r))
           pieces == q \o f
<1>0. /\ \A i \in 1..Len(r) : r[i] \in Piece
      /\ n \in 1..Len(r) /\ Len(r) \in Nat /\ DOMAIN r = 1..Len(r)
  OBVIOUS
<1>1. f \in Seq(Piece) /\ remains \in Seq(Piece) /\ Len(f) = n /\ Len(remains) = Len(r) - n
  BY <1>0, SubSeqProperties
<1>2. f \o remains = r
  <2>1. 1 \in 1..(Len(r) + 1) /\ n \in (1 - 1)..Len(r) /\ Len(r) \in n..Len(r)
    BY <1>0
  <2>2. f \o remains = SubSeq(r, 1, Len(r))
    BY <2>1, ConcatAdjacentSubSeq
  <2>3. SubSeq(r, 1, Len(r)) = r
    BY SubSeqFull
  <2> QED
    BY <2>2, <2>3
<1> HIDE DEF f, remains
<1>4. (q \o f) \o remains = q \o (f \o remains)
  BY <1>1, ThreeParts
<1>5. q \o f \in Seq(Piece) /\ Len(q \o f) = Len(q) + n
  BY <1>1, ConcatProperties
<1>6. Rest(q \o f) \in Seq(Piece)
  BY <1>5, RestType
<1>7. Len(pieces) + Len(remains) = Len(q) + Len(r)
  BY <1>0, <1>1, <1>5
<1> QED
  BY <1>1, <1>2, <1>4, <1>5, <1>6, <1>7 DEF Taken, Left, f, remains

(***************************************************************************)
(* What most actions leave alone.                                          *)
(***************************************************************************)
streams == <<sock, conn, down, buffer, garbled, overlapped>>

LEMMA SameStreams ==
    ASSUME IpcInv, UNCHANGED streams
    PROVE  BothEnds' /\ LinesAreWhole' /\ (~overlapped' => OneStream')
<1>1. UNCHANGED sock /\ UNCHANGED conn /\ UNCHANGED down /\ UNCHANGED buffer
      /\ UNCHANGED garbled /\ UNCHANGED overlapped
  BY DEF streams
<1> QED
  BY <1>1 DEF IpcInv, BothEnds, LinesAreWhole, OneStream, Linked, Early

LEMMA SameCalls ==
    ASSUME IpcInv, pending' \subseteq pending, UNCHANGED current,
           \A s \in Socket : sock'[s] = "closed" => sock[s] = "closed"
    PROVE  Written'
<1>1. \A p \in pending : p.sock \in Socket
  BY DEF IpcInv, IpcType, OnSocket
<1>2. current \in Socket \cup {None}
  BY DEF IpcInv, IpcType
<1> QED
  BY <1>1, <1>2 DEF IpcInv, Written

LEMMA IpcInit == Init => IpcInv
<1> SUFFICES ASSUME Init PROVE IpcInv
  OBVIOUS
<1>1. IpcType
  <2>1. outcome = <<>> /\ nextId = 1 /\ buffer = <<>> /\ pending = {} /\ handling = {} /\ current = None
        /\ garbled = FALSE /\ overlapped = FALSE
    BY DEF Init
  <2>2. outcome \in Seq(Outcome) /\ nextId = Len(outcome) + 1 /\ buffer \in Seq(Piece)
    BY <2>1
  <2>3. /\ sock \in [Socket -> Early \cup Linked \cup {"closed"}]
        /\ conn \in [Socket -> {"none", "open", "closed"}]
    BY DEF Init, Early
  <2>4. up \in [Socket -> Seq(Call)] /\ down \in [Socket -> Seq(Piece)]
    BY DEF Init
  <2> QED
    BY <2>1, <2>2, <2>3, <2>4 DEF IpcType
<1>2. Written /\ BothEnds /\ LinesAreWhole /\ OneStream
  BY DEF Init, Written, BothEnds, LinesAreWhole, OneStream, Early, Linked
<1> QED
  BY <1>1, <1>2 DEF IpcInv

(***************************************************************************)
(* The callers.                                                            *)
(***************************************************************************)
LEMMA ConnectKeeps ==
    ASSUME IpcInv, NEW f \in Flow, NEW s \in Socket, Connect(f, s)
    PROVE  IpcInv'
<1>0. /\ sock[s] = "unused" /\ sock' = [sock EXCEPT ![s] = "connecting"] /\ current' = s
      /\ nextId' = nextId
      /\ overlapped' = (overlapped \/ \E t \in Socket : sock[t] \notin {"unused", "closed"})
      /\ UNCHANGED buffer /\ UNCHANGED pending /\ UNCHANGED outcome /\ UNCHANGED up
      /\ UNCHANGED down /\ UNCHANGED conn /\ UNCHANGED handling /\ UNCHANGED garbled
  BY DEF Connect, FirstId, serverVars
<1>1. sock \in [Socket -> Early \cup Linked \cup {"closed"}]
  BY DEF IpcInv, IpcType
<1>2. sock'[s] = "connecting" /\ \A t \in Socket : t # s => sock'[t] = sock[t]
  BY <1>0, <1>1
<1>3. IpcType'
  BY <1>0, <1>1 DEF IpcInv, IpcType, Early
<1>4. Written'
  <2>1. \A p \in pending : p.sock \in Socket /\ sock[p.sock] # "closed"
    BY DEF IpcInv, IpcType, OnSocket, Written
  <2> QED
    BY <1>0, <1>2, <2>1 DEF Written
<1>5. BothEnds'
  BY <1>0, <1>2 DEF IpcInv, BothEnds, Early, Linked
<1>6. LinesAreWhole'
  BY <1>0 DEF IpcInv, LinesAreWhole
<1>7. ASSUME ~overlapped' PROVE OneStream'
  <2>1. OneStream /\ \A t \in Socket : sock[t] \in {"unused", "closed"}
    BY <1>0, <1>7 DEF IpcInv
  <2>2. buffer' = <<>>
    BY <1>0, <2>1 DEF OneStream, Linked
  <2>3. \A t \in Socket : sock'[t] \notin Linked
    BY <1>2, <2>1 DEF Linked
  <2>4. \A t \in Socket : sock'[t] \notin {"unused", "closed"} => t = s
    BY <1>2, <2>1
  <2> QED
    BY <2>2, <2>3, <2>4 DEF OneStream
<1> QED
  BY <1>3, <1>4, <1>5, <1>6, <1>7 DEF IpcInv

LEMMA AskKeeps ==
    ASSUME IpcInv, NEW f \in Flow, Ask(f)
    PROVE  IpcInv'
<1>1. CASE ~(connected /\ current # None)
  <2>1. UNCHANGED <<outcome, nextId, pending, handling, current, up>> /\ UNCHANGED streams
    BY <1>1 DEF Ask, clientVars, serverVars, streams
  <2>2. IpcType'
    BY <2>1 DEF IpcInv, IpcType, streams
  <2>3. Written'
    BY <2>1, SameCalls DEF streams
  <2> QED
    BY <2>1, <2>2, <2>3, SameStreams DEF IpcInv
<1>2. CASE connected /\ current # None
  <2> DEFINE r == Len(outcome) + 1
  <2>1. /\ outcome' = Append(outcome, "pending") /\ nextId' = nextId + 1
        /\ pending' = {p \in pending : p.id # nextId}
                          \cup {[id |-> nextId, request |-> r, sock |-> current]}
        /\ up' = [up EXCEPT ![current] = Append(@, [id |-> nextId, request |-> r])]
        /\ UNCHANGED <<handling, current>> /\ UNCHANGED streams
    BY <1>2 DEF Ask, serverVars, streams
  <2>2. nextId = r /\ r \in Nat /\ current \in Socket /\ outcome \in Seq(Outcome)
    BY <1>2 DEF IpcInv, IpcType
  <2>3. outcome' \in Seq(Outcome) /\ nextId' = Len(outcome') + 1
    BY <2>1, <2>2 DEF Outcome
  <2>4. [id |-> nextId, request |-> r, sock |-> current] \in OnSocket
    BY <2>2 DEF OnSocket
  <2>5. pending' \subseteq OnSocket
    BY <2>1, <2>4 DEF IpcInv, IpcType
  <2>6. up' \in [Socket -> Seq(Call)]
    <3>1. [id |-> nextId, request |-> r] \in Call
      BY <2>2 DEF Call
    <3>2. up \in [Socket -> Seq(Call)]
      BY DEF IpcInv, IpcType
    <3>3. Append(up[current], [id |-> nextId, request |-> r]) \in Seq(Call)
      BY <2>2, <3>1, <3>2, AppendProperties
    <3> QED
      BY <2>1, <2>2, <3>2, <3>3
  <2>7. IpcType'
    BY <2>1, <2>3, <2>5, <2>6 DEF IpcInv, IpcType, streams
  <2>8. Written'
    BY <1>2, <2>1 DEF IpcInv, Written, streams
  <2> QED
    BY <2>1, <2>7, <2>8, SameStreams DEF IpcInv
<1> QED
  BY <1>1, <1>2

LEMMA ReconnectKeeps ==
    ASSUME IpcInv, NEW f \in Flow, Reconnect(f)
    PROVE  IpcInv'
<1>0. /\ current # None /\ sock' = [sock EXCEPT ![current] = Ended(@)]
      /\ UNCHANGED <<outcome, nextId, pending, handling, current, up, conn, down, buffer, garbled, overlapped>>
  BY DEF Reconnect, serverVars
<1>1. current \in Socket /\ sock \in [Socket -> Early \cup Linked \cup {"closed"}]
  BY <1>0 DEF IpcInv, IpcType
<1>2. sock'[current] = Ended(sock[current]) /\ \A t \in Socket : t # current => sock'[t] = sock[t]
  BY <1>0, <1>1
<1>3. \A t \in Socket :
         /\ sock'[t] \in Early \cup Linked \cup {"closed"}
         /\ sock'[t] = "closed" <=> sock[t] = "closed"
         /\ sock'[t] = "unused" <=> sock[t] = "unused"
         /\ sock'[t] \in Linked <=> sock[t] \in Linked
         /\ sock'[t] \in Early <=> sock[t] \in Early
  BY <1>1, <1>2 DEF Ended, Early, Linked
<1>4. IpcType'
  <2>1. sock' \in [Socket -> Early \cup Linked \cup {"closed"}]
    BY <1>0, <1>1, <1>3
  <2> QED
    BY <1>0, <2>1 DEF IpcInv, IpcType
<1>5. Written'
  BY <1>0, <1>3, SameCalls
<1>6. BothEnds'
  BY <1>0, <1>3 DEF IpcInv, BothEnds
<1>7. ASSUME ~overlapped' PROVE OneStream'
  BY <1>0, <1>3, <1>7 DEF IpcInv, OneStream
<1> QED
  BY <1>0, <1>4, <1>5, <1>6, <1>7 DEF IpcInv, LinesAreWhole

(***************************************************************************)
(* The events of a socket.                                                 *)
(***************************************************************************)
LEMMA ConnectedKeeps ==
    ASSUME IpcInv, NEW s \in Socket, Connected(s)
    PROVE  IpcInv'
<1>0. /\ sock[s] \in {"connecting", "finishing"}
      /\ sock' = [sock EXCEPT ![s] = IF @ = "connecting" THEN "open" ELSE "ending"]
      /\ conn' = [conn EXCEPT ![s] = "open"]
      /\ UNCHANGED <<outcome, nextId, pending, handling, current, up, down, buffer, garbled, overlapped>>
  BY DEF Connected
<1>1. /\ sock \in [Socket -> Early \cup Linked \cup {"closed"}]
      /\ conn \in [Socket -> {"none", "open", "closed"}]
  BY DEF IpcInv, IpcType
<1>2. /\ sock'[s] \in Linked /\ conn'[s] = "open"
      /\ \A t \in Socket : t # s => sock'[t] = sock[t] /\ conn'[t] = conn[t]
  BY <1>0, <1>1 DEF Linked
<1>3. IpcType'
  <2>1. sock' \in [Socket -> Early \cup Linked \cup {"closed"}]
    BY <1>0, <1>1 DEF Linked
  <2>2. conn' \in [Socket -> {"none", "open", "closed"}]
    BY <1>0, <1>1
  <2> QED
    BY <1>0, <2>1, <2>2 DEF IpcInv, IpcType
<1>4. Written'
  BY <1>0, <1>2, SameCalls DEF Linked
<1>5. BothEnds'
  BY <1>0, <1>2 DEF IpcInv, BothEnds, Linked, Early
<1>6. ASSUME ~overlapped' PROVE OneStream'
  <2>1. OneStream
    BY <1>0, <1>6 DEF IpcInv
  <2>2. \A t \in Socket : t # s => sock[t] \in {"unused", "closed"}
    BY <1>0, <2>1 DEF OneStream
  <2>3. \A t \in Socket : t # s => sock'[t] \in {"unused", "closed"} /\ sock'[t] \notin Linked
    BY <1>2, <2>2 DEF Linked
  <2>4. \A t \in Socket : sock[t] \notin Linked
    BY <1>0, <2>2 DEF Linked
  <2>5. buffer = <<>> /\ down[s] = <<>>
    BY <1>0, <2>1, <2>4 DEF OneStream, IpcInv, BothEnds, Early
  <2>6. buffer' = <<>> /\ down'[s] = <<>>
    BY <1>0, <2>5
  <2>7. Paired(buffer' \o down'[s]) /\ Even(Len(buffer') + Len(down'[s]))
    BY <2>6 DEF Paired, Even
  <2> QED
    BY <1>2, <2>3, <2>6, <2>7 DEF OneStream
<1> QED
  BY <1>0, <1>3, <1>4, <1>5, <1>6 DEF IpcInv, LinesAreWhole

LEMMA RefusedKeeps ==
    ASSUME IpcInv, NEW s \in Socket, Refused(s)
    PROVE  IpcInv'
<1>0. /\ sock[s] \in {"connecting", "finishing"} /\ sock' = [sock EXCEPT ![s] = "destroyed"]
      /\ UNCHANGED <<outcome, nextId, pending, handling, current, up, conn, down, buffer, garbled, overlapped>>
  BY DEF Refused, clientVars, serverVars
<1>1. sock \in [Socket -> Early \cup Linked \cup {"closed"}]
  BY DEF IpcInv, IpcType
<1>2. sock'[s] = "destroyed" /\ \A t \in Socket : t # s => sock'[t] = sock[t]
  BY <1>0, <1>1
<1>3. IpcType'
  BY <1>0, <1>1 DEF IpcInv, IpcType, Early
<1>4. Written'
  BY <1>0, <1>2, SameCalls
<1>5. BothEnds'
  BY <1>0, <1>2 DEF IpcInv, BothEnds, Early, Linked
<1>6. ASSUME ~overlapped' PROVE OneStream'
  BY <1>0, <1>2, <1>6 DEF IpcInv, OneStream, Linked
<1> QED
  BY <1>0, <1>3, <1>4, <1>5, <1>6 DEF IpcInv, LinesAreWhole

LEMMA CloseKeeps ==
    ASSUME IpcInv, NEW s \in Socket, Close(s)
    PROVE  IpcInv'
<1>g. sock[s] = "destroyed" \/ (sock[s] \in Linked /\ conn[s] = "closed")
  BY DEF Close, Linked
<1>0. /\ sock' = [sock EXCEPT ![s] = "closed"] /\ current' = None /\ buffer' = <<>>
      /\ pending' = {p \in pending : p.request \notin Unfinished}
      /\ outcome' = Settled(Unfinished, "closed")
      /\ UNCHANGED <<nextId, handling, up, conn, down, garbled, overlapped>>
  BY DEF Close, Cleared, serverVars
<1>1. /\ sock \in [Socket -> Early \cup Linked \cup {"closed"}] /\ outcome \in Seq(Outcome)
      /\ nextId = Len(outcome) + 1
  BY DEF IpcInv, IpcType
<1>2. sock'[s] = "closed" /\ \A t \in Socket : t # s => sock'[t] = sock[t]
  BY <1>0, <1>1
<1>3. pending' = {}
  BY <1>0 DEF Unfinished
<1>4. outcome' \in Seq(Outcome) /\ Len(outcome') = Len(outcome)
  <2>1. \A r \in DOMAIN outcome : outcome[r] \in Outcome
    BY <1>1
  <2>2. outcome' \in [DOMAIN outcome -> Outcome]
    BY <1>0, <2>1 DEF Settled, Outcome
  <2> QED
    BY <1>1, <2>2, MappedSeq
<1>5. IpcType'
  <2>1. sock' \in [Socket -> Early \cup Linked \cup {"closed"}]
    BY <1>0, <1>1
  <2>2. buffer' \in Seq(Piece)
    BY <1>0
  <2> QED
    BY <1>0, <1>1, <1>3, <1>4, <2>1, <2>2 DEF IpcInv, IpcType
<1>6. Written'
  BY <1>0, <1>3 DEF Written
<1>7. BothEnds'
  BY <1>g, <1>0, <1>2 DEF IpcInv, BothEnds, Early, Linked
<1>8. ASSUME ~overlapped' PROVE OneStream'
  <2>1. OneStream /\ sock[s] \notin {"unused", "closed"}
    BY <1>g, <1>0, <1>8 DEF IpcInv, Linked
  <2>2. \A t \in Socket : sock'[t] \in {"unused", "closed"}
    BY <1>2, <2>1 DEF OneStream
  <2> QED
    BY <1>0, <2>2 DEF OneStream, Linked
<1> QED
  BY <1>0, <1>5, <1>6, <1>7, <1>8 DEF IpcInv, LinesAreWhole

LEMMA TimeoutKeeps ==
    ASSUME IpcInv, NEW p \in pending, Timeout(p)
    PROVE  IpcInv'
<1>0. /\ pending' = pending \ {p} /\ outcome' = Settled({p.request}, "timeout")
      /\ UNCHANGED <<nextId, handling, up, current>> /\ UNCHANGED streams
  BY DEF Timeout, serverVars, streams
<1>1. outcome \in Seq(Outcome) /\ nextId = Len(outcome) + 1
  BY DEF IpcInv, IpcType
<1>2. outcome' \in Seq(Outcome) /\ Len(outcome') = Len(outcome)
  <2>1. \A r \in DOMAIN outcome : outcome[r] \in Outcome
    BY <1>1
  <2>2. outcome' \in [DOMAIN outcome -> Outcome]
    BY <1>0, <2>1 DEF Settled, Outcome
  <2> QED
    BY <1>1, <2>2, MappedSeq
<1>3. IpcType'
  BY <1>0, <1>1, <1>2 DEF IpcInv, IpcType, streams
<1>4. Written'
  BY <1>0, SameCalls DEF streams
<1> QED
  BY <1>0, <1>3, <1>4, SameStreams DEF IpcInv

\* A response that is read is that of the call it answers.
LEMMA DataKeeps ==
    ASSUME IpcInv, NEW s \in Socket, Data(s)
    PROVE  IpcInv'
<1>g. sock[s] \in Linked
  BY DEF Data, Linked
<1>1. PICK n \in DOMAIN down[s] :
          LET pieces == buffer \o SubSeq(down[s], 1, n)
              whole == {l \in Lines(pieces) : Parses(l)}
              hits == {p \in pending : \E l \in whole : l[1].id = p.id}
              answer(r) == CHOOSE l \in whole : \E p \in hits : p.request = r /\ p.id = l[1].id
          IN
          /\ down' = [down EXCEPT ![s] = SubSeq(@, n + 1, Len(@))]
          /\ buffer' = Rest(pieces)
          /\ garbled' = (garbled \/ whole # Lines(pieces))
          /\ pending' = pending \ hits
          /\ outcome' = [r \in DOMAIN outcome |->
                            IF \E p \in hits : p.request = r
                            THEN IF answer(r)[1].request = r THEN "answered" ELSE "mistaken"
                            ELSE outcome[r]]
  BY DEF Data
<1> DEFINE pieces == buffer \o SubSeq(down[s], 1, n)
           whole == {l \in Lines(pieces) : Parses(l)}
           hits == {p \in pending : \E l \in whole : l[1].id = p.id}
           answer(r) == CHOOSE l \in whole : \E p \in hits : p.request = r /\ p.id = l[1].id
           remains == SubSeq(down[s], n + 1, Len(down[s]))
<1>2. /\ down' = [down EXCEPT ![s] = remains] /\ buffer' = Rest(pieces)
      /\ garbled' = (garbled \/ whole # Lines(pieces))
      /\ pending' = pending \ hits
      /\ outcome' = [r \in DOMAIN outcome |->
                        IF \E p \in hits : p.request = r
                        THEN IF answer(r)[1].request = r THEN "answered" ELSE "mistaken"
                        ELSE outcome[r]]
  BY <1>1
<1>3. UNCHANGED <<current, nextId, sock, up, conn, handling, overlapped>>
  BY DEF Data, serverVars
<1>4. /\ buffer \in Seq(Piece) /\ down \in [Socket -> Seq(Piece)] /\ down[s] \in Seq(Piece)
      /\ outcome \in Seq(Outcome) /\ nextId = Len(outcome) + 1 /\ pending \subseteq OnSocket
  BY DEF IpcInv, IpcType
<1>5. /\ pieces \in Seq(Piece) /\ remains \in Seq(Piece) /\ Rest(pieces) \in Seq(Piece)
      /\ Len(pieces) + Len(remains) = Len(buffer) + Len(down[s])
      /\ pieces \o remains = buffer \o down[s]
  <2> DEFINE r == down[s]
  <2>1. buffer \in Seq(Piece) /\ r \in Seq(Piece) /\ n \in DOMAIN r
    BY <1>4
  <2>2. pieces = Taken(buffer, r, n) /\ remains = Left(r, n)
    BY DEF Taken, Left
  <2> HIDE DEF whole, hits, answer, pieces, remains, r
  <2>3. /\ pieces \in Seq(Piece) /\ remains \in Seq(Piece) /\ Rest(pieces) \in Seq(Piece)
        /\ Len(pieces) + Len(remains) = Len(buffer) + Len(r)
        /\ pieces \o remains = buffer \o r
    BY <2>1, <2>2, Chunk
  <2> QED
    BY <2>3 DEF r
<1>6. ASSUME NEW r \in DOMAIN outcome, \E p \in hits : p.request = r
      PROVE  answer(r)[1].request = r
  <2>1. \E l \in whole : \E p \in hits : p.request = r /\ p.id = l[1].id
    BY <1>6
  <2>2. answer(r) \in whole /\ \E p \in hits : p.request = r /\ p.id = answer(r)[1].id
    <3> HIDE DEF whole, hits
    <3> QED BY <2>1
  <2>3. PICK p \in hits : p.request = r /\ p.id = answer(r)[1].id
    BY <2>2
  <2> DEFINE l == answer(r)
  <2>a. l \in whole /\ p \in pending
    BY <2>2
  <2> HIDE DEF answer, hits, l
  <2>b. l \in Lines(pieces) /\ Parses(l)
    BY <2>a
  <2> HIDE DEF whole, pieces
  <2>4. l \in Lines(pieces) /\ Len(l) > 0
    BY <2>b DEF Parses
  <2>5. l[1] \in Piece
    BY <1>5, <2>4, LineStarts
  <2>6. l[1].request = l[1].id /\ p.request = p.id
    BY <1>4, <2>5, <2>a DEF Piece, OnSocket
  <2> QED
    BY <2>3, <2>6 DEF l
<1>7. outcome' \in Seq(Outcome) /\ Len(outcome') = Len(outcome)
  <2> HIDE DEF hits, answer
  <2>1. \A r \in DOMAIN outcome : outcome[r] \in Outcome
    BY <1>4
  <2>2. outcome' \in [DOMAIN outcome -> Outcome]
    BY <1>2, <1>6, <2>1 DEF Outcome
  <2> QED
    BY <1>4, <2>2, MappedSeq
<1> HIDE DEF whole, hits, answer, pieces, remains
<1>8. /\ buffer' \in Seq(Piece) /\ down' \in [Socket -> Seq(Piece)] /\ down'[s] = remains
      /\ \A t \in Socket : t # s => down'[t] = down[t]
  BY <1>2, <1>4, <1>5
<1>9. pending' \subseteq pending /\ garbled' \in BOOLEAN
  BY <1>2 DEF IpcInv, IpcType
<1>10. IpcType'
  BY <1>3, <1>4, <1>7, <1>8, <1>9 DEF IpcInv, IpcType
<1>11. Written'
  BY <1>3, <1>9, SameCalls
<1>12. BothEnds'
  BY <1>g, <1>3, <1>8 DEF IpcInv, BothEnds, Early, Linked
<1>13. ASSUME ~overlapped' PROVE OneStream' /\ LinesAreWhole'
  <2>1. OneStream /\ ~garbled
    BY <1>3, <1>13 DEF IpcInv, LinesAreWhole
  <2>2. Paired(pieces \o remains)
    BY <1>g, <1>5, <2>1 DEF OneStream
  <2>3. Paired(Rest(pieces) \o remains) /\ (Even(Len(Rest(pieces)) + Len(remains)) <=> Even(Len(pieces) + Len(remains)))
    BY <1>5, <2>2, PairedRest
  <2>4. Paired(pieces)
    BY <1>5, <2>2, PairedBefore
  <2>5. \A l \in Lines(pieces) : Parses(l)
    BY <1>5, <2>4, PairedLines
  <2>6. ~garbled'
    <3>1. whole = Lines(pieces)
      BY <2>5 DEF whole
    <3> QED
      BY <1>2, <2>1, <3>1
  <2>7. \A t \in Socket : sock[t] \in Linked => t = s
    BY <1>g, <2>1 DEF OneStream, Linked
  <2>8. conn[s] = "open" => Even(Len(buffer) + Len(down[s]))
    BY <1>g, <2>1 DEF OneStream
  <2>9. Paired(buffer' \o down'[s]) /\ (conn'[s] = "open" => Even(Len(buffer') + Len(down'[s])))
    BY <1>2, <1>3, <1>5, <1>8, <2>3, <2>8
  <2>10. OneStream'
    BY <1>g, <1>3, <2>1, <2>7, <2>9 DEF OneStream
  <2> QED
    BY <2>6, <2>10 DEF LinesAreWhole
<1> QED
  BY <1>10, <1>11, <1>12, <1>13 DEF IpcInv, LinesAreWhole

(***************************************************************************)
(* The server.                                                             *)
(***************************************************************************)
LEMMA ReceiveKeeps ==
    ASSUME IpcInv, NEW s \in Socket, Receive(s)
    PROVE  IpcInv'
<1>0. /\ up[s] # <<>> /\ up' = [up EXCEPT ![s] = Tail(@)]
      /\ handling' \in {handling, handling \cup {[sock |-> s, id |-> Head(up[s]).id,
                                                 request |-> Head(up[s]).request]}}
      /\ UNCHANGED <<outcome, nextId, pending, current>> /\ UNCHANGED streams
  BY DEF Receive, clientVars, streams
<1>1. up \in [Socket -> Seq(Call)] /\ up[s] \in Seq(Call) /\ handling \subseteq OnSocket
  BY DEF IpcInv, IpcType
<1>2. Head(up[s]) \in Call /\ Tail(up[s]) \in Seq(Call)
  BY <1>0, <1>1
<1>3. [sock |-> s, id |-> Head(up[s]).id, request |-> Head(up[s]).request] \in OnSocket
  BY <1>2 DEF Call, OnSocket
<1>4. up' \in [Socket -> Seq(Call)] /\ handling' \subseteq OnSocket
  BY <1>0, <1>1, <1>2, <1>3
<1>5. IpcType'
  BY <1>0, <1>4 DEF IpcInv, IpcType, streams
<1>6. Written'
  BY <1>0, SameCalls DEF streams
<1> QED
  BY <1>0, <1>5, <1>6, SameStreams DEF IpcInv

LEMMA RespondKeeps ==
    ASSUME IpcInv, NEW h \in handling, Respond(h)
    PROVE  IpcInv'
<1> DEFINE head == [part |-> "head", id |-> h.id, request |-> h.request]
           tail == [part |-> "tail", id |-> h.id, request |-> h.request]
           c == h.sock
<1>0. /\ handling' = handling \ {h}
      /\ down' = IF conn[c] = "open" THEN [down EXCEPT ![c] = @ \o <<head, tail>>] ELSE down
      /\ UNCHANGED <<outcome, nextId, pending, current, up, sock, conn, buffer, garbled, overlapped>>
  BY DEF Respond, clientVars
<1>1. /\ h \in OnSocket /\ c \in Socket
      /\ head \in Piece /\ tail \in Piece
      /\ head.part = "head" /\ tail.part = "tail" /\ tail.id = head.id /\ tail.request = head.request
  BY DEF IpcInv, IpcType, OnSocket, Piece
<1>2. /\ down \in [Socket -> Seq(Piece)] /\ down[c] \in Seq(Piece) /\ buffer \in Seq(Piece)
      /\ handling \subseteq OnSocket
  BY <1>1 DEF IpcInv, IpcType
<1> HIDE DEF head, tail, c
<1>3. CASE conn[c] # "open"
  <2>1. UNCHANGED streams
    BY <1>0, <1>3 DEF streams
  <2>2. IpcType'
    BY <1>0, <1>2, <1>3 DEF IpcInv, IpcType
  <2>3. Written'
    BY <1>0, SameCalls
  <2> QED
    BY <2>1, <2>2, <2>3, SameStreams DEF IpcInv
<1>4. CASE conn[c] = "open"
  <2> DEFINE d == down[c]
  <2>1. d \o <<head, tail>> \in Seq(Piece) /\ Len(d \o <<head, tail>>) = Len(d) + 2
    BY <1>1, <1>2
  <2>2. /\ down' \in [Socket -> Seq(Piece)] /\ down'[c] = d \o <<head, tail>>
        /\ \A t \in Socket : t # c => down'[t] = down[t]
    BY <1>0, <1>1, <1>2, <1>4, <2>1
  <2>3. sock[c] \in Linked
    BY <1>1, <1>4 DEF IpcInv, BothEnds
  <2>4. IpcType'
    BY <1>0, <1>2, <2>2 DEF IpcInv, IpcType
  <2>5. Written'
    BY <1>0, SameCalls
  <2>6. BothEnds'
    BY <1>0, <2>2, <2>3 DEF IpcInv, BothEnds, Linked, Early
  <2>7. ASSUME ~overlapped' PROVE OneStream'
    <3>1. OneStream
      BY <1>0, <2>7 DEF IpcInv
    <3>2. Paired(buffer \o d) /\ Even(Len(buffer) + Len(d))
      BY <1>1, <1>4, <2>3, <3>1 DEF OneStream
    <3>3. buffer \o d \in Seq(Piece) /\ Len(buffer \o d) = Len(buffer) + Len(d)
      BY <1>2, ConcatProperties
    <3>4. buffer \o (d \o <<head, tail>>) = (buffer \o d) \o <<head, tail>>
      <4>1. <<head, tail>> \in Seq(Piece)
        BY <1>1
      <4> HIDE DEF d
      <4> QED
        BY <1>2, <4>1, ThreeParts DEF d
    <3> DEFINE q == buffer \o d
    <3>5. q \in Seq(Piece) /\ Paired(q) /\ Even(Len(q))
      BY <3>2, <3>3
    <3> HIDE DEF q
    <3>6. Paired(q \o <<head, tail>>)
      BY <1>1, <3>5, PairedMore
    <3>7. Even((Len(buffer) + Len(d)) + 2)
      <4> DEFINE n == Len(buffer) + Len(d)
      <4>1. n \in Int /\ Even(n)
        BY <1>2, <3>2
      <4> HIDE DEF n
      <4>2. Even(n + 2)
        BY <4>1 DEF Even
      <4> QED
        BY <4>2 DEF n
    <3>8. Paired(buffer' \o down'[c])
      BY <1>0, <2>2, <3>4, <3>6 DEF q
    <3>9. Even(Len(buffer') + Len(down'[c]))
      BY <1>0, <1>2, <2>1, <2>2, <3>7
    <3>10. \A t \in Socket : sock[t] \in Linked => t = c
      BY <1>1, <2>3, <3>1 DEF OneStream, Linked
    <3> QED
      BY <1>0, <1>1, <2>3, <3>1, <3>8, <3>9, <3>10 DEF OneStream
  <2> QED
    BY <1>0, <2>4, <2>5, <2>6, <2>7 DEF IpcInv, LinesAreWhole
<1> QED
  BY <1>3, <1>4

\* A connection that the server ends needs no whole lines any more.
LEMMA EndedKeeps ==
    ASSUME IpcInv,
           \A s \in Socket : conn'[s] = conn[s] \/ (conn[s] = "open" /\ conn'[s] = "closed"),
           conn' \in [Socket -> {"none", "open", "closed"}],
           UNCHANGED <<outcome, nextId, pending, current, handling, up, down, sock, buffer, garbled,
                       overlapped>>
    PROVE  IpcInv'
<1>1. IpcType'
  BY DEF IpcInv, IpcType
<1>2. Written'
  BY SameCalls
<1>3. BothEnds'
  BY DEF IpcInv, BothEnds, Early, Linked
<1>4. ASSUME ~overlapped' PROVE OneStream'
  BY <1>4 DEF IpcInv, OneStream
<1> QED
  BY <1>1, <1>2, <1>3, <1>4 DEF IpcInv, LinesAreWhole

LEMMA DieKeeps ==
    ASSUME IpcInv, Die
    PROVE  IpcInv'
<1>0. /\ conn' = [s \in Socket |-> IF conn[s] = "open" THEN "closed" ELSE conn[s]]
      /\ UNCHANGED <<outcome, nextId, pending, current, handling, up, sock, buffer, garbled, overlapped>>
  BY DEF Die, clientVars
<1>1. PICK n \in 0..(2 * MaxRequests) :
         down' = [s \in Socket |-> SubSeq(down[s], 1, IF n < Len(down[s]) THEN n ELSE Len(down[s]))]
  BY DEF Die
<1>2. /\ down \in [Socket -> Seq(Piece)] /\ conn \in [Socket -> {"none", "open", "closed"}]
      /\ buffer \in Seq(Piece) /\ n \in Nat
  BY IpcAssumption DEF IpcInv, IpcType
<1>3. ASSUME NEW s \in Socket
      PROVE  \E m \in 0..Len(down[s]) : down'[s] = SubSeq(down[s], 1, m)
  <2> DEFINE m == IF n < Len(down[s]) THEN n ELSE Len(down[s])
  <2>1. m \in 0..Len(down[s])
    BY <1>2
  <2>2. down'[s] = SubSeq(down[s], 1, m)
    BY <1>1
  <2> QED
    BY <2>1, <2>2
<1>4. ASSUME NEW s \in Socket
      PROVE  /\ down'[s] \in Seq(Piece) /\ (down[s] = <<>> => down'[s] = <<>>)
             /\ Paired(buffer \o down[s]) => Paired(buffer \o down'[s])
  <2> DEFINE d == down[s]
  <2>1. PICK m \in 0..Len(d) : down'[s] = SubSeq(d, 1, m)
    BY <1>3
  <2>2. d \in Seq(Piece)
    BY <1>2
  <2>3. d = <<>> => SubSeq(d, 1, m) = <<>>
    BY <2>2, SubSeqEmpty
  <2>4. SubSeq(d, 1, m) \in Seq(Piece)
    <3>1. \A i \in 1..m : d[i] \in Piece
      BY <2>2
    <3> QED
      BY <3>1, SubSeqProperties
  <2>5. Paired(buffer \o d) => Paired(buffer \o SubSeq(d, 1, m))
    <3> HIDE DEF d
    <3> QED
      BY <1>2, <2>2, PairedFront
  <2> QED
    BY <2>1, <2>3, <2>4, <2>5
<1>5. \A s \in Socket : conn'[s] # "open" /\ (conn[s] = "none" => conn'[s] = "none")
  BY <1>0
<1>6. IpcType'
  <2>1. down' \in [Socket -> Seq(Piece)]
    BY <1>1, <1>4
  <2>2. conn' \in [Socket -> {"none", "open", "closed"}]
    BY <1>0, <1>2
  <2> QED
    BY <1>0, <2>1, <2>2 DEF IpcInv, IpcType
<1>7. Written'
  BY <1>0, SameCalls
<1>8. BothEnds'
  BY <1>0, <1>4, <1>5 DEF IpcInv, BothEnds
<1>9. ASSUME ~overlapped' PROVE OneStream'
  BY <1>0, <1>4, <1>5, <1>9 DEF IpcInv, OneStream
<1> QED
  BY <1>0, <1>6, <1>7, <1>8, <1>9 DEF IpcInv, LinesAreWhole

LEMMA IpcNext == IpcInv /\ [Next]_vars => IpcInv'
<1> SUFFICES ASSUME IpcInv, [Next]_vars PROVE IpcInv'
  OBVIOUS
<1>1. ASSUME UNCHANGED <<outcome, nextId, pending, current, up>>, UNCHANGED streams,
             handling' \in {handling, {}}
      PROVE  IpcInv'
  <2>1. IpcType'
    BY <1>1 DEF IpcInv, IpcType, streams
  <2>2. Written'
    BY <1>1, SameCalls DEF streams
  <2> QED
    BY <1>1, <2>1, <2>2, SameStreams DEF IpcInv
<1>2. ASSUME NEW f \in Flow, FlowStep(f) \/ Begin(f) \/ Reconnect(f) PROVE IpcInv'
  <2>1. CASE Begin(f)
    BY <1>1, <2>1 DEF Begin, clientVars, serverVars, streams
  <2>2. CASE Reconnect(f)
    BY <2>2, ReconnectKeeps
  <2>3. CASE Ask(f)
    BY <2>3, AskKeeps
  <2>4. ASSUME NEW s \in Socket, Connect(f, s) PROVE IpcInv'
    BY <2>4, ConnectKeeps
  <2> QED
    BY <1>2, <2>1, <2>2, <2>3, <2>4 DEF FlowStep, Check, AskWhenReady
<1>3. ASSUME NEW s \in Socket, SocketStep(s) \/ Receive(s) \/ PeerEnded(s) PROVE IpcInv'
  <2>1. CASE PeerEnded(s)
    <3>1. /\ conn[s] = "open" /\ conn' = [conn EXCEPT ![s] = "closed"]
          /\ UNCHANGED <<outcome, nextId, pending, current, handling, up, down, sock, buffer, garbled,
                         overlapped>>
      BY <2>1 DEF PeerEnded, clientVars
    <3>2. conn \in [Socket -> {"none", "open", "closed"}]
      BY DEF IpcInv, IpcType
    <3> QED
      BY <3>1, <3>2, EndedKeeps
  <2> QED
    BY <1>3, <2>1, ReceiveKeeps, ConnectedKeeps, RefusedKeeps, DataKeeps, CloseKeeps DEF SocketStep
<1>4. ASSUME Stop PROVE IpcInv'
  <2>1. /\ conn' = [s \in Socket |-> IF conn[s] = "open" THEN "closed" ELSE conn[s]]
        /\ UNCHANGED <<outcome, nextId, pending, current, handling, up, down, sock, buffer, garbled,
                       overlapped>>
    BY <1>4 DEF Stop, clientVars
  <2>2. conn \in [Socket -> {"none", "open", "closed"}]
    BY DEF IpcInv, IpcType
  <2> QED
    BY <2>1, <2>2, EndedKeeps
<1>5. ASSUME Serve PROVE IpcInv'
  BY <1>1, <1>5 DEF Serve, clientVars, streams
<1>6. CASE UNCHANGED vars
  BY <1>1, <1>6 DEF vars, clientVars, serverVars, streams
<1> QED
  BY <1>2, <1>3, <1>4, <1>5, <1>6, TimeoutKeeps, RespondKeeps, DieKeeps DEF Next

(***************************************************************************)
(* The theorems.                                                           *)
(***************************************************************************)
\* What client, wire and server hold, at every moment, is as IpcInv says.
THEOREM IpcInvariant == Spec => []IpcInv
BY IpcInit, IpcNext, PTL DEF Spec

\* No call is settled by the answer to another: ids go on over time limits and reconnects,
\* and each chunk of the stream leads back to the call with its id; and whatever waits
\* has a close event to come (client.ts, _request, _handleResponse, 'close').
THEOREM AnswersAreOwn == Spec => []AnswersMatch
<1>1. IpcInv => AnswersMatch
  <2>1. ASSUME IpcInv, NEW r \in DOMAIN outcome PROVE outcome[r] # "mistaken"
    <3>1. outcome \in Seq(Outcome)
      BY <2>1 DEF IpcInv, IpcType
    <3>2. outcome[r] \in Outcome
      BY <3>1
    <3> QED
      BY <3>2 DEF Outcome
  <2> QED
    BY <2>1 DEF IpcInv, Written, AnswersMatch
<1> QED
  BY <1>1, IpcInvariant, PTL

\* As long as no connect() overlaps with an earlier socket, the decoder puts together the
\* lines that were sent, wherever chunks end and connections break (codec.ts, client.ts).
THEOREM LinesSurviveChunks == Spec => []LinesAreWhole
<1>1. IpcInv => LinesAreWhole
  BY DEF IpcInv
<1> QED
  BY <1>1, IpcInvariant, PTL

(***************************************************************************)
(* The shape of the states.                                                *)
(***************************************************************************)
IsSeq(q) == q \in Seq({q[k] : k \in DOMAIN q})
Mode == {"backup", "skip", "overwrite"}
Lists == {"providers", "channels"}

IsWizard(w) ==
    /\ w \in [exact : {TRUE}, page : {w.page}, accepted : {w.accepted},
              providers : {w.providers}, removed : {w.removed}, channels : {w.channels},
              gone : {w.gone}, pulse : {w.pulse}, mode : Mode]
    /\ IsSeq(w.providers) /\ IsSeq(w.channels)

IsSetup(h) ==
    /\ h \in [at : {"read", "cut", "write", "end"}, state : {h.state}, jobs : {h.jobs},
              held : {h.held}]
    /\ IsSeq(h.state.providers) /\ IsSeq(h.state.channels) /\ h.state.mode \in Mode
    /\ IsSeq(h.jobs) /\ h.jobs # <<>>

Busy(i, jobs) == At(i, "cut", jobs) \/ At(i, "write", jobs)
Listed(f) == IsFiniteSet(DOMAIN f.entries)

OnboardShape ==
    /\ wiz # Off => IsWizard(wiz)
    /\ wiz = Off => form = NoForm
    /\ IsFiniteSet(existing.providers) /\ IsFiniteSet(existing.channels)
    /\ disk \in [FILES -> {disk[f] : f \in FILES}]
    /\ \A f \in Lists : Listed(disk[f])
    /\ subs \in [Slot -> {subs[i] : i \in Slot}]
    /\ \A i \in Slot : Active(i) => IsSetup(subs[i])
    /\ \A i \in Slot : Busy(i, Lists) => IsFiniteSet(DOMAIN subs[i].held)

(***************************************************************************)
(* The user's text.                                                        *)
(***************************************************************************)
TextInv ==
    /\ backups \in Nat
    /\ guide \in [file : {Missing, "user", "template"}, bak : {Missing, "user", "template"}]
    /\ backups = 0 => guide.file = "user"
    /\ backups = 1 => guide.bak = "user"
    /\ \A i \in Slot : At(i, "write", {"templates"}) /\ subs[i].state.mode # "overwrite"
                          => backups >= 1

(***************************************************************************)
(* The names that are stored.                                              *)
(***************************************************************************)
Writing(i) == Busy(i, {"secret"})
\* The names in the store, or in the hand of the one setup that writes it.
KnownNames == IF Writing(1) THEN DOMAIN subs[1].held ELSE DOMAIN secrets.entries
\* A setup that runs beside another may lose what that has stored in a file.
Safe == native \/ alone
Lost == secrets.file = "torn" /\ ~Writing(1)

StoreInv ==
    /\ native \in BOOLEAN /\ alone \in BOOLEAN
    /\ secrets \in [file : {"missing", "torn", "whole"}, entries : {secrets.entries}]
    /\ secrets.file # "whole" => secrets.entries = Empty
    /\ native => secrets.file = "whole" /\ \A i \in Slot : ~Writing(i)
    /\ alone => ~Active(2)
    /\ alone /\ At(1, "cut", {"secret"}) =>
          \/ secrets.file = "whole" /\ subs[1].held = secrets.entries
          \/ secrets.file = "torn" /\ subs[1].held = Empty
    /\ alone /\ At(1, "write", {"secret"}) => secrets.file = "torn"

Backed(f) == \A p \in DOMAIN f \ loose : f[p] \in KnownNames
Owed(i) ==
    \A p \in Chosen(subs[i].state) :
        \/ p.keep \/ SecretOf(p.id) \in KnownNames
        \/ \E k \in DOMAIN subs[i].jobs :
              /\ subs[i].jobs[k] = KeyJob(p)
              /\ \A l \in 1..k : subs[i].jobs[l].job # "providers"
KeysInv ==
    Safe /\ ~Lost =>
        /\ Backed(disk.providers.entries)
        /\ \A x \in existing.providers : x.stored => x.secret \in KnownNames
        /\ \A i \in Slot : Busy(i, {"providers"}) => Backed(subs[i].held)
        /\ \A i \in Slot : Active(i) => Owed(i)

(***************************************************************************)
(* Sequences and finite sets.                                              *)
(***************************************************************************)
\* What is in some set of sequences is a sequence.
LEMMA IsSeqIntro ==
    ASSUME NEW S, NEW q \in Seq(S) PROVE IsSeq(q)
<1> DEFINE R == {q[k] : k \in DOMAIN q}
<1>1. q \in [1..Len(q) -> S] /\ Len(q) \in Nat /\ DOMAIN q = 1..Len(q)
  OBVIOUS
<1>2. \A k \in 1..Len(q) : q[k] \in R
  BY <1>1
<1>3. q \in [1..Len(q) -> R]
  BY <1>1, <1>2
<1> HIDE DEF R
<1>4. q \in Seq(R)
  BY <1>1, <1>3
<1> QED
  BY <1>4 DEF IsSeq, R

\* A function on an initial segment is a sequence.
LEMMA IsSeqOfMap ==
    ASSUME NEW n \in Nat, NEW q, q = [k \in 1..n |-> q[k]]
    PROVE  IsSeq(q) /\ Len(q) = n
<1> DEFINE R == {q[k] : k \in 1..n}
<1>1. q \in [1..n -> R]
  OBVIOUS
<1>2. q \in Seq(R)
  BY <1>1
<1> HIDE DEF R
<1>3. Len(q) = n
  BY <1>1, <1>2
<1> QED
  BY <1>2, <1>3, IsSeqIntro

LEMMA IsSeqFacts ==
    ASSUME NEW q, IsSeq(q)
    PROVE  /\ Len(q) \in Nat /\ DOMAIN q = 1..Len(q)
           /\ q # <<>> <=> Len(q) > 0
<1> DEFINE R == {q[k] : k \in DOMAIN q}
<1>1. q \in Seq(R)
  BY DEF IsSeq
<1> HIDE DEF R
<1> QED
  BY <1>1

\* What a sequence has after its first entry.
LEMMA IsSeqTail ==
    ASSUME NEW q, IsSeq(q), q # <<>>
    PROVE  /\ IsSeq(Tail(q)) /\ Len(Tail(q)) = Len(q) - 1
           /\ Len(q) \in Nat /\ Len(q) > 0 /\ Head(q) = q[1]
           /\ \A k \in 1..(Len(q) - 1) : Tail(q)[k] = q[k + 1]
<1> DEFINE R == {q[k] : k \in DOMAIN q}
<1>1. q \in Seq(R)
  BY DEF IsSeq
<1> HIDE DEF R
<1>2. Tail(q) \in Seq(R) /\ Len(Tail(q)) = Len(q) - 1
  BY <1>1, HeadTailProperties
<1>3. IsSeq(Tail(q))
  BY <1>2, IsSeqIntro
<1>4. \A k \in 1..(Len(q) - 1) : Tail(q)[k] = q[k + 1]
  BY <1>1, HeadTailProperties
<1>5. Len(q) \in Nat /\ Len(q) > 0 /\ Head(q) = q[1]
  BY <1>1, IsSeqFacts
<1> QED
  BY <1>2, <1>3, <1>4, <1>5

LEMMA IsSeqConcat ==
    ASSUME NEW q, NEW r, IsSeq(q), IsSeq(r)
    PROVE  /\ IsSeq(q \o r) /\ Len(q \o r) = Len(q) + Len(r)
           /\ Len(q) \in Nat /\ Len(r) \in Nat
           /\ \A k \in 1..Len(q) : (q \o r)[k] = q[k]
           /\ \A k \in 1..Len(r) : (q \o r)[Len(q) + k] = r[k]
<1> DEFINE Q == {q[k] : k \in DOMAIN q}
           R == {r[k] : k \in DOMAIN r}
           S == Q \cup R
<1>1. q \in Seq(Q) /\ r \in Seq(R)
  BY DEF IsSeq
<1> HIDE DEF Q, R
<1>2. q \in Seq(S) /\ r \in Seq(S)
  <2>1. q \in [1..Len(q) -> S] /\ r \in [1..Len(r) -> S] /\ Len(q) \in Nat /\ Len(r) \in Nat
    BY <1>1
  <2> QED
    BY <2>1
<1> HIDE DEF S
<1>3. q \o r \in Seq(S) /\ Len(q \o r) = Len(q) + Len(r) /\ Len(q) \in Nat /\ Len(r) \in Nat
  BY <1>2
<1>4. IsSeq(q \o r)
  BY <1>3, IsSeqIntro
<1>5. /\ \A k \in 1..Len(q) : (q \o r)[k] = q[k]
      /\ \A k \in 1..Len(r) : (q \o r)[Len(q) + k] = r[k]
  BY <1>2
<1> QED
  BY <1>3, <1>4, <1>5

LEMMA IsSeqAppend ==
    ASSUME NEW q, NEW x, IsSeq(q) PROVE IsSeq(Append(q, x))
<1> DEFINE Q == {q[k] : k \in DOMAIN q}
           S == Q \cup {x}
<1>1. q \in Seq(Q)
  BY DEF IsSeq
<1> HIDE DEF Q
<1>2. q \in Seq(S)
  <2>1. q \in [1..Len(q) -> S] /\ Len(q) \in Nat
    BY <1>1
  <2> QED
    BY <2>1
<1>3. x \in S
  OBVIOUS
<1> HIDE DEF S
<1>4. Append(q, x) \in Seq(S)
  BY <1>2, <1>3
<1> QED
  BY <1>4, IsSeqIntro

LEMMA IsSeqExcept ==
    ASSUME NEW q, NEW a, NEW x, IsSeq(q) PROVE IsSeq([q EXCEPT ![a] = x])
<1> DEFINE r == [q EXCEPT ![a] = x]
<1>1. Len(q) \in Nat /\ DOMAIN q = 1..Len(q)
  BY IsSeqFacts
<1>2. r = [k \in 1..Len(q) |-> r[k]]
  BY <1>1
<1> QED
  BY <1>1, <1>2, IsSeqOfMap

\* The image of a finite set.
LEMMA ImageIsFinite ==
    ASSUME NEW S, IsFiniteSet(S), NEW f, f = [x \in S |-> f[x]]
    PROVE  IsFiniteSet({f[x] : x \in S})
<1> DEFINE T == {f[x] : x \in S}
<1>1. f \in Surjection(S, T)
  BY DEF Surjection
<1> QED
  BY <1>1, FS_Surjection

(***************************************************************************)
(* What a step makes of a setup.                                           *)
(***************************************************************************)
HaveSlots == subs \in [Slot -> {subs[i] : i \in Slot}]
OthersStay(i) ==
    /\ subs' \in [Slot -> {subs'[j] : j \in Slot}]
    /\ \A j \in Slot \ {i} : subs'[j] = subs[j]

LEMMA GoesOn ==
    ASSUME HaveSlots, NEW i \in Slot, NEW at \in {"cut", "write", "end"}, NEW held,
           IsSetup(subs[i]), Go(i, at, held)
    PROVE  /\ OthersStay(i) /\ IsSetup(subs'[i])
           /\ subs'[i].at = at /\ subs'[i].held = held
           /\ subs'[i].state = subs[i].state /\ subs'[i].jobs = subs[i].jobs
<1> DEFINE h == subs[i]
<1>1. subs' = [subs EXCEPT ![i] = [h EXCEPT !.at = at, !.held = held]]
  BY DEF Go, HaveSlots
<1>2. h \in [at : {"read", "cut", "write", "end"}, state : {h.state}, jobs : {h.jobs},
            held : {h.held}]
  BY DEF IsSetup
<1>3. subs'[i] = [h EXCEPT !.at = at, !.held = held]
  BY <1>1 DEF HaveSlots
<1>4. OthersStay(i)
  BY <1>1 DEF HaveSlots, OthersStay
<1>5. IsSeq(h.state.providers) /\ IsSeq(h.state.channels) /\ h.state.mode \in Mode
      /\ IsSeq(h.jobs) /\ h.jobs # <<>>
  BY DEF IsSetup
<1> HIDE DEF h
<1>6. /\ subs'[i].at = at /\ subs'[i].held = held
      /\ subs'[i].state = h.state /\ subs'[i].jobs = h.jobs
      /\ subs'[i] \in [at : {"read", "cut", "write", "end"}, state : {h.state}, jobs : {h.jobs},
                        held : {held}]
  BY <1>2, <1>3
<1>7. IsSetup(subs'[i])
  BY <1>5, <1>6 DEF IsSetup
<1> QED
  BY <1>4, <1>6, <1>7 DEF h

LEMMA Fails ==
    ASSUME HaveSlots, NEW i \in Slot, Fail(i)
    PROVE  OthersStay(i) /\ subs'[i].at = "failed" /\ ~Active(i)'
<1>1. subs'[i] = [at |-> "failed"]
  BY DEF HaveSlots, Fail
<1>2. OthersStay(i)
  BY DEF HaveSlots, Fail, OthersStay
<1> QED
  BY <1>1, <1>2 DEF Active

LEMMA DoesAJob ==
    ASSUME HaveSlots, NEW i \in Slot, IsSetup(subs[i]), Pop(i)
    PROVE  /\ OthersStay(i)
           /\ subs'[i].state = subs[i].state /\ subs'[i].jobs = Tail(subs[i].jobs)
           /\ \/ subs'[i].at = "read" /\ IsSetup(subs'[i])
              \/ subs'[i].at = "done" /\ ~Active(i)'
<1> DEFINE h == subs[i]
           at == IF Len(h.jobs) = 1 THEN "done" ELSE "read"
           rest == Tail(h.jobs)
<1>1. subs' = [subs EXCEPT ![i] = [h EXCEPT !.jobs = rest, !.held = Missing, !.at = at]]
  BY DEF Pop, HaveSlots
<1>2. h \in [at : {"read", "cut", "write", "end"}, state : {h.state}, jobs : {h.jobs},
            held : {h.held}]
  BY DEF IsSetup
<1>3. subs'[i] = [h EXCEPT !.jobs = rest, !.held = Missing, !.at = at]
  BY <1>1 DEF HaveSlots
<1>4. OthersStay(i)
  BY <1>1 DEF HaveSlots, OthersStay
<1>5. IsSeq(h.state.providers) /\ IsSeq(h.state.channels) /\ h.state.mode \in Mode
      /\ IsSeq(h.jobs) /\ h.jobs # <<>>
  BY DEF IsSetup
<1>6. IsSeq(rest) /\ Len(rest) = Len(h.jobs) - 1 /\ Len(h.jobs) \in Nat /\ Len(h.jobs) > 0
  BY <1>5, IsSeqTail
<1>7. at = "done" \/ (at = "read" /\ Len(rest) > 0)
  <2> DEFINE n == Len(h.jobs)
             m == Len(rest)
  <2>1. n \in Nat /\ n > 0 /\ m = n - 1
    BY <1>6
  <2>2. n = 1 \/ m > 0
    <3> HIDE DEF n, m
    <3> QED BY <2>1
  <2> QED
    BY <2>2
<1>8. at = "done" \/ (at = "read" /\ rest # <<>>)
  BY <1>6, <1>7, IsSeqFacts
<1> HIDE DEF h, at, rest
<1>9. /\ subs'[i].at = at /\ subs'[i].held = Missing
      /\ subs'[i].state = h.state /\ subs'[i].jobs = rest
      /\ subs'[i] \in [at : {at}, state : {h.state}, jobs : {rest}, held : {Missing}]
  BY <1>2, <1>3
<1>10. \/ subs'[i].at = "read" /\ IsSetup(subs'[i])
       \/ subs'[i].at = "done" /\ ~Active(i)'
  <2>1. CASE at = "done"
    BY <2>1, <1>9 DEF Active
  <2>2. CASE at = "read" /\ rest # <<>>
    BY <2>2, <1>5, <1>6, <1>9 DEF IsSetup
  <2> QED
    BY <1>8, <2>1, <2>2
<1> QED
  BY <1>4, <1>9, <1>10 DEF h, rest

(***************************************************************************)
(* The shape holds.                                                        *)
(***************************************************************************)
LEMMA MountedIsAWizard ==
    ASSUME NEW e, IsFiniteSet(e.providers), IsFiniteSet(e.channels), NEW w, IsWizard(w)
    PROVE  IsWizard(Mounted(e, w))
<1> DEFINE ps == IF PAGES[w.page] = "provider" /\ e.providers # {}
                 THEN ProviderInstances(e) ELSE w.providers
           cs == IF PAGES[w.page] = "channels" /\ e.channels # {}
                 THEN ChannelInstances(e) ELSE w.channels
           v == Mounted(e, w)
<1>1. IsSeq(ProviderInstances(e))
  <2>1. Cardinality(e.providers) \in Nat
    BY FS_CardinalityType
  <2>2. ProviderInstances(e) =
            [k \in 1..Cardinality(e.providers) |-> ProviderInstances(e)[k]]
    BY DEF ProviderInstances
  <2> QED
    BY <2>1, <2>2, IsSeqOfMap
<1>2. IsSeq(ChannelInstances(e))
  <2>1. Cardinality(e.channels) \in Nat
    BY FS_CardinalityType
  <2>2. ChannelInstances(e) =
            [k \in 1..Cardinality(e.channels) |-> ChannelInstances(e)[k]]
    BY DEF ChannelInstances
  <2> QED
    BY <2>1, <2>2, IsSeqOfMap
<1>3. IsSeq(ps) /\ IsSeq(cs)
  BY <1>1, <1>2 DEF IsWizard
<1>4. v = [w EXCEPT !.providers = ps, !.channels = cs]
  BY DEF Mounted
<1> HIDE DEF ps, cs, v
<1>5. /\ v \in [exact : {TRUE}, page : {w.page}, accepted : {w.accepted},
              providers : {ps}, removed : {w.removed}, channels : {cs},
              gone : {w.gone}, pulse : {w.pulse}, mode : Mode]
      /\ v.page = w.page /\ v.accepted = w.accepted /\ v.providers = ps /\ v.channels = cs
      /\ v.removed = w.removed /\ v.gone = w.gone /\ v.pulse = w.pulse
  BY <1>4 DEF IsWizard
<1> QED
  BY <1>3, <1>5 DEF IsWizard, v

\* Existing lists what the files hold.
LEMMA ExistingIsFinite ==
    ASSUME OnboardShape, Loads
    PROVE  IsFiniteSet(Existing.providers) /\ IsFiniteSet(Existing.channels)
<1> DEFINE D(f) == DOMAIN Parsed(f)
<1>1. \A f \in Lists : IsFiniteSet(D(f))
  <2> SUFFICES ASSUME NEW f \in Lists PROVE IsFiniteSet(D(f))
    OBVIOUS
  <2> QED
    BY DEF OnboardShape, Listed, Parsed
<1> DEFINE F == [p \in D("providers") |-> Info(p)]
           G == [n \in D("channels") |-> [id |-> n, stored |-> Stored(Parsed("channels")[n])]]
<1>2. IsFiniteSet({F[p] : p \in D("providers")}) /\ IsFiniteSet({G[n] : n \in D("channels")})
  <2>1. IsFiniteSet(D("providers")) /\ IsFiniteSet(D("channels"))
    BY <1>1 DEF Lists
  <2>2. F = [p \in D("providers") |-> F[p]] /\ G = [n \in D("channels") |-> G[n]]
    OBVIOUS
  <2> HIDE DEF F, G, D
  <2> QED
    BY <2>1, <2>2, ImageIsFinite
<1>3. Existing.providers = {F[p] : p \in D("providers")}
      /\ Existing.channels = {G[n] : n \in D("channels")}
  BY DEF Existing
<1> QED
  BY <1>2, <1>3

LEMMA FileAtTheEnd ==
    ASSUME NEW q, NEW f, IsSeq(q)
    PROVE  /\ IsSeq(File(f)) /\ IsSeq(q \o File(f)) /\ Len(q \o File(f)) = Len(q) + 1 /\ Len(q) \in Nat
           /\ \A k \in 1..Len(q) : (q \o File(f))[k] = q[k]
<1> DEFINE r == File(f)
<1>1. r \in Seq({[job |-> f]}) /\ Len(r) = 1
  BY DEF File
<1>2. IsSeq(r)
  BY <1>1, IsSeqIntro
<1> HIDE DEF r
<1>3. /\ IsSeq(q \o r) /\ Len(q \o r) = Len(q) + Len(r) /\ Len(q) \in Nat
      /\ \A k \in 1..Len(q) : (q \o r)[k] = q[k]
  BY <1>2, IsSeqConcat
<1>4. Len(q \o r) = Len(q) + 1
  BY <1>1, <1>3
<1> QED
  BY <1>2, <1>3, <1>4 DEF r

\* The steps of a setup: those of its keys in the order of the providers, and none of
\* them writes the providers.
LEMMA JobsOfASetup ==
    ASSUME NEW s, IsSeq(s.providers), IsSeq(s.channels)
    PROVE  /\ IsSeq(Jobs(s)) /\ Jobs(s) # <<>> /\ Len(s.providers) <= Len(Jobs(s))
           /\ Len(s.providers) \in Nat
           /\ \A k \in 1..Len(s.providers) : Jobs(s)[k] = KeyJobs(s)[k]
<1> DEFINE keys == KeyJobs(s)
           creds == CredentialJobs(s)
           named == IF s.channels = <<>> THEN <<>> ELSE creds \o File("channels")
           pulse == IF s.pulse THEN File("pulse") ELSE <<>>
<1>1. Len(s.providers) \in Nat /\ DOMAIN s.providers = 1..Len(s.providers)
      /\ Len(s.channels) \in Nat /\ DOMAIN s.channels = 1..Len(s.channels)
  BY IsSeqFacts
<1>2. IsSeq(keys) /\ Len(keys) = Len(s.providers)
  <2>1. keys = [k \in 1..Len(s.providers) |-> keys[k]]
    BY <1>1 DEF KeyJobs
  <2> HIDE DEF keys
  <2> QED
    BY <1>1, <2>1, IsSeqOfMap
<1>3. IsSeq(creds)
  <2>1. creds = [k \in 1..Len(s.channels) |-> creds[k]]
    BY <1>1 DEF CredentialJobs
  <2> HIDE DEF creds
  <2> QED
    BY <1>1, <2>1, IsSeqOfMap
<1>5. IsSeq(<<>>)
  <2>1. <<>> \in Seq({})
    OBVIOUS
  <2> QED
    BY <2>1, IsSeqIntro
<1> HIDE DEF keys, creds
<1>6. IsSeq(named) /\ IsSeq(pulse)
  <2>1. IsSeq(File("pulse"))
    BY <1>5, FileAtTheEnd
  <2> QED
    BY <1>3, <1>5, <2>1, FileAtTheEnd
<1> HIDE DEF named, pulse
<1> DEFINE a == keys \o File("providers")
           b == a \o File("models")
           c == b \o named
           d == c \o File("preferences")
           e == d \o pulse
           g == e \o File("templates")
<1>7. Jobs(s) = g
  BY DEF Jobs, keys, creds, named, pulse
<1>8. IsSeq(a) /\ Len(a) = Len(keys) + 1 /\ \A k \in 1..Len(keys) : a[k] = keys[k]
  BY <1>2, FileAtTheEnd
<1>9. IsSeq(b) /\ Len(b) = Len(a) + 1 /\ \A k \in 1..Len(a) : b[k] = a[k]
  <2> HIDE DEF a
  <2> QED BY <1>8, FileAtTheEnd
<1>10. IsSeq(c) /\ Len(c) >= Len(b) /\ \A k \in 1..Len(b) : c[k] = b[k]
  <2> HIDE DEF b
  <2>1. IsSeq(c) /\ Len(c) = Len(b) + Len(named) /\ Len(named) \in Nat /\ Len(b) \in Nat
        /\ \A k \in 1..Len(b) : c[k] = b[k]
    BY <1>6, <1>9, IsSeqConcat
  <2> HIDE DEF c
  <2> QED BY <2>1
<1>11. IsSeq(d) /\ Len(d) = Len(c) + 1 /\ \A k \in 1..Len(c) : d[k] = c[k]
  <2> HIDE DEF c
  <2> QED BY <1>10, FileAtTheEnd
<1>12. IsSeq(e) /\ Len(e) >= Len(d) /\ \A k \in 1..Len(d) : e[k] = d[k]
  <2> HIDE DEF d
  <2>1. IsSeq(e) /\ Len(e) = Len(d) + Len(pulse) /\ Len(pulse) \in Nat /\ Len(d) \in Nat
        /\ \A k \in 1..Len(d) : e[k] = d[k]
    BY <1>6, <1>11, IsSeqConcat
  <2> HIDE DEF e
  <2> QED BY <2>1
<1>13. IsSeq(g) /\ Len(g) = Len(e) + 1 /\ \A k \in 1..Len(e) : g[k] = e[k]
  <2> HIDE DEF e
  <2> QED BY <1>12, FileAtTheEnd
<1> HIDE DEF a, b, c, d, e, g
<1>14. Len(a) \in Nat /\ Len(b) \in Nat /\ Len(c) \in Nat /\ Len(d) \in Nat /\ Len(e) \in Nat
       /\ Len(g) \in Nat /\ Len(keys) \in Nat
  BY <1>2, <1>8, <1>9, <1>10, <1>11, <1>12, <1>13, IsSeqFacts
<1>15. Len(keys) < Len(g) /\ \A k \in 1..Len(keys) : g[k] = keys[k]
  BY <1>8, <1>9, <1>10, <1>11, <1>12, <1>13, <1>14
<1>16. g # <<>>
  BY <1>13, <1>14, <1>15, IsSeqFacts
<1>17. Len(s.providers) <= Len(g)
  BY <1>2, <1>14, <1>15
<1>18. \A k \in 1..Len(s.providers) : g[k] = keys[k]
  BY <1>2, <1>15
<1> QED
  BY <1>1, <1>7, <1>13, <1>16, <1>17, <1>18 DEF keys

\* An entry of the wizard's state is replaced.
LEMMA WizardIsEdited ==
    ASSUME NEW w, IsWizard(w), NEW x
    PROVE  /\ IsWizard([w EXCEPT !.removed = x]) /\ IsWizard([w EXCEPT !.gone = x])
           /\ IsWizard([w EXCEPT !.accepted = x])
           /\ x \in Mode => IsWizard([w EXCEPT !.mode = x])
           /\ IsSeq(x) => /\ IsWizard([w EXCEPT !.providers = x])
                          /\ IsWizard([w EXCEPT !.channels = x])
           /\ IsWizard([w EXCEPT !.page = x])
           /\ \A y : IsWizard([w EXCEPT !.page = x, !.pulse = y])
<1>1. w \in [exact : {TRUE}, page : {w.page}, accepted : {w.accepted},
             providers : {w.providers}, removed : {w.removed}, channels : {w.channels},
             gone : {w.gone}, pulse : {w.pulse}, mode : Mode]
      /\ IsSeq(w.providers) /\ IsSeq(w.channels)
  BY DEF IsWizard
<1>2. IsWizard([w EXCEPT !.removed = x])
  <2> DEFINE v == [w EXCEPT !.removed = x]
  <2>1. v = [w EXCEPT !.removed = x]
    OBVIOUS
  <2> HIDE DEF v
  <2>2. /\ v \in [exact : {TRUE}, page : {w.page}, accepted : {w.accepted}, providers : {w.providers},
               removed : {x}, channels : {w.channels}, gone : {w.gone}, pulse : {w.pulse}, mode : Mode]
        /\ v.page = w.page /\ v.accepted = w.accepted /\ v.providers = w.providers /\ v.removed = x
        /\ v.channels = w.channels /\ v.gone = w.gone /\ v.pulse = w.pulse /\ v.mode = w.mode
    BY <1>1, <2>1
  <2>3. IsWizard(v)
    BY <1>1, <2>2 DEF IsWizard
  <2> QED
    BY <2>3 DEF v
<1>3. IsWizard([w EXCEPT !.gone = x])
  <2> DEFINE v == [w EXCEPT !.gone = x]
  <2>1. v = [w EXCEPT !.gone = x]
    OBVIOUS
  <2> HIDE DEF v
  <2>2. /\ v \in [exact : {TRUE}, page : {w.page}, accepted : {w.accepted}, providers : {w.providers},
               removed : {w.removed}, channels : {w.channels}, gone : {x}, pulse : {w.pulse}, mode : Mode]
        /\ v.page = w.page /\ v.accepted = w.accepted /\ v.providers = w.providers /\ v.removed = w.removed
        /\ v.channels = w.channels /\ v.gone = x /\ v.pulse = w.pulse /\ v.mode = w.mode
    BY <1>1, <2>1
  <2>3. IsWizard(v)
    BY <1>1, <2>2 DEF IsWizard
  <2> QED
    BY <2>3 DEF v
<1>4. IsWizard([w EXCEPT !.accepted = x])
  <2> DEFINE v == [w EXCEPT !.accepted = x]
  <2>1. v = [w EXCEPT !.accepted = x]
    OBVIOUS
  <2> HIDE DEF v
  <2>2. /\ v \in [exact : {TRUE}, page : {w.page}, accepted : {x}, providers : {w.providers},
               removed : {w.removed}, channels : {w.channels}, gone : {w.gone}, pulse : {w.pulse}, mode : Mode]
        /\ v.page = w.page /\ v.accepted = x /\ v.providers = w.providers /\ v.removed = w.removed
        /\ v.channels = w.channels /\ v.gone = w.gone /\ v.pulse = w.pulse /\ v.mode = w.mode
    BY <1>1, <2>1
  <2>3. IsWizard(v)
    BY <1>1, <2>2 DEF IsWizard
  <2> QED
    BY <2>3 DEF v
<1>5. ASSUME x \in Mode PROVE IsWizard([w EXCEPT !.mode = x])
  <2> DEFINE v == [w EXCEPT !.mode = x]
  <2>1. v = [w EXCEPT !.mode = x]
    OBVIOUS
  <2> HIDE DEF v
  <2>2. /\ v \in [exact : {TRUE}, page : {w.page}, accepted : {w.accepted}, providers : {w.providers},
               removed : {w.removed}, channels : {w.channels}, gone : {w.gone}, pulse : {w.pulse}, mode : Mode]
        /\ v.page = w.page /\ v.accepted = w.accepted /\ v.providers = w.providers /\ v.removed = w.removed
        /\ v.channels = w.channels /\ v.gone = w.gone /\ v.pulse = w.pulse /\ v.mode = x
    BY <1>1, <2>1, <1>5
  <2>3. IsWizard(v)
    BY <1>1, <2>2, <1>5 DEF IsWizard
  <2> QED
    BY <2>3 DEF v
<1>6. ASSUME IsSeq(x) PROVE IsWizard([w EXCEPT !.providers = x])
  <2> DEFINE v == [w EXCEPT !.providers = x]
  <2>1. v = [w EXCEPT !.providers = x]
    OBVIOUS
  <2> HIDE DEF v
  <2>2. /\ v \in [exact : {TRUE}, page : {w.page}, accepted : {w.accepted}, providers : {x},
               removed : {w.removed}, channels : {w.channels}, gone : {w.gone}, pulse : {w.pulse}, mode : Mode]
        /\ v.page = w.page /\ v.accepted = w.accepted /\ v.providers = x /\ v.removed = w.removed
        /\ v.channels = w.channels /\ v.gone = w.gone /\ v.pulse = w.pulse /\ v.mode = w.mode
    BY <1>1, <2>1, <1>6
  <2>3. IsWizard(v)
    BY <1>1, <2>2, <1>6 DEF IsWizard
  <2> QED
    BY <2>3 DEF v
<1>7. ASSUME IsSeq(x) PROVE IsWizard([w EXCEPT !.channels = x])
  <2> DEFINE v == [w EXCEPT !.channels = x]
  <2>1. v = [w EXCEPT !.channels = x]
    OBVIOUS
  <2> HIDE DEF v
  <2>2. /\ v \in [exact : {TRUE}, page : {w.page}, accepted : {w.accepted}, providers : {w.providers},
               removed : {w.removed}, channels : {x}, gone : {w.gone}, pulse : {w.pulse}, mode : Mode]
        /\ v.page = w.page /\ v.accepted = w.accepted /\ v.providers = w.providers /\ v.removed = w.removed
        /\ v.channels = x /\ v.gone = w.gone /\ v.pulse = w.pulse /\ v.mode = w.mode
    BY <1>1, <2>1, <1>7
  <2>3. IsWizard(v)
    BY <1>1, <2>2, <1>7 DEF IsWizard
  <2> QED
    BY <2>3 DEF v
<1>8. IsWizard([w EXCEPT !.page = x])
  <2> DEFINE v == [w EXCEPT !.page = x]
  <2>1. v = [w EXCEPT !.page = x]
    OBVIOUS
  <2> HIDE DEF v
  <2>2. /\ v \in [exact : {TRUE}, page : {x}, accepted : {w.accepted}, providers : {w.providers},
               removed : {w.removed}, channels : {w.channels}, gone : {w.gone}, pulse : {w.pulse}, mode : Mode]
        /\ v.page = x /\ v.accepted = w.accepted /\ v.providers = w.providers /\ v.removed = w.removed
        /\ v.channels = w.channels /\ v.gone = w.gone /\ v.pulse = w.pulse /\ v.mode = w.mode
    BY <1>1, <2>1
  <2>3. IsWizard(v)
    BY <1>1, <2>2 DEF IsWizard
  <2> QED
    BY <2>3 DEF v
<1>9. ASSUME NEW y PROVE IsWizard([w EXCEPT !.page = x, !.pulse = y])
  <2> DEFINE v == [w EXCEPT !.page = x, !.pulse = y]
  <2>1. v = [w EXCEPT !.page = x, !.pulse = y]
    OBVIOUS
  <2> HIDE DEF v
  <2>2. /\ v \in [exact : {TRUE}, page : {x}, accepted : {w.accepted}, providers : {w.providers},
               removed : {w.removed}, channels : {w.channels}, gone : {w.gone}, pulse : {y}, mode : Mode]
        /\ v.page = x /\ v.accepted = w.accepted /\ v.providers = w.providers /\ v.removed = w.removed
        /\ v.channels = w.channels /\ v.gone = w.gone /\ v.pulse = y /\ v.mode = w.mode
    BY <1>1, <2>1
  <2>3. IsWizard(v)
    BY <1>1, <2>2 DEF IsWizard
  <2> QED
    BY <2>3 DEF v
<1> QED
  BY <1>2, <1>3, <1>4, <1>5, <1>6, <1>7, <1>8, <1>9

LEMMA PagesKeepAWizard ==
    ASSUME OnboardShape, Page
    PROVE  /\ UNCHANGED <<store, existing, subs, history>>
           /\ wiz' = wiz \/ IsWizard(wiz')
<1>0. UNCHANGED <<store, existing, subs, history>>
  BY DEF Page, MarkProvider, EditProvider, MarkChannel, SelectProvider, SubmitCommonFields,
         ToggleKeepExistingApiKey, SubmitAuth, ToggleModel, AddModel, SubmitModels, BackInForm,
         SubmitChannel, NextPage, Back, ToggleDisclaimer
<1>1. wiz # Off => IsWizard(wiz)
  BY DEF OnboardShape
<1>2. ASSUME NEW i \in 1..4, MarkProvider(i) PROVE IsWizard(wiz')
  <2>1. wiz # Off
    BY <1>2 DEF MarkProvider, On
  <2>2. PICK x : wiz' = [wiz EXCEPT !.removed = x]
    BY <1>2 DEF MarkProvider
  <2> QED
    BY <1>1, <2>1, <2>2, WizardIsEdited
<1>3. ASSUME NEW i \in 1..4, MarkChannel(i) PROVE IsWizard(wiz')
  <2>1. wiz # Off
    BY <1>3 DEF MarkChannel, On
  <2>2. PICK x : wiz' = [wiz EXCEPT !.gone = x]
    BY <1>3 DEF MarkChannel
  <2> QED
    BY <1>1, <2>1, <2>2, WizardIsEdited
<1>4. ASSUME SubmitModels, wiz # Off PROVE IsWizard(wiz')
  <2> DEFINE x == IF form.at = 0 THEN Append(wiz.providers, form.work)
                  ELSE [wiz.providers EXCEPT ![form.at] = form.work]
  <2>1. IsSeq(wiz.providers)
    BY <1>1, <1>4 DEF IsWizard
  <2>2. IsSeq(x)
    BY <2>1, IsSeqAppend, IsSeqExcept
  <2>3. wiz' = [wiz EXCEPT !.providers = x]
    BY <1>4 DEF SubmitModels
  <2> HIDE DEF x
  <2> QED
    BY <1>1, <1>4, <2>2, <2>3, WizardIsEdited
<1>5. ASSUME NEW i, NEW n, NEW key, NEW keep, SubmitChannel(i, n, key, keep)
      PROVE  IsWizard(wiz')
  <2> DEFINE c == [id |-> n, key |-> IF keep THEN "" ELSE key, keep |-> keep]
             x == IF i = 0 THEN Append(wiz.channels, c) ELSE [wiz.channels EXCEPT ![i] = c]
  <2>0. wiz # Off
    BY <1>5 DEF SubmitChannel, On
  <2>1. IsSeq(wiz.channels)
    BY <1>1, <2>0 DEF IsWizard
  <2>2. IsSeq(x)
    <3> HIDE DEF c
    <3> QED BY <2>1, IsSeqAppend, IsSeqExcept
  <2>3. wiz' = [wiz EXCEPT !.channels = x]
    BY <1>5 DEF SubmitChannel
  <2> HIDE DEF x
  <2> QED
    BY <1>1, <2>0, <2>2, <2>3, WizardIsEdited
<1>6. ASSUME NextPage \/ Back PROVE IsWizard(wiz')
  <2>1. wiz # Off
    BY <1>6 DEF NextPage, Back
  <2>2. PICK v : IsWizard(v) /\ wiz' = Mounted(existing, v)
    <3>1. CASE NextPage
      <4>1. PICK y : wiz' = Mounted(existing, [wiz EXCEPT !.page = wiz.page + 1, !.pulse = y])
        BY <3>1 DEF NextPage
      <4> QED
        BY <1>1, <2>1, <4>1, WizardIsEdited
    <3>2. CASE Back
      <4>1. wiz' = Mounted(existing, [wiz EXCEPT !.page = wiz.page - 1])
        BY <3>2 DEF Back
      <4> QED
        BY <1>1, <2>1, <4>1, WizardIsEdited
    <3> QED
      BY <1>6, <3>1, <3>2
  <2> QED
    BY <2>2, MountedIsAWizard DEF OnboardShape
<1>7. ASSUME ToggleDisclaimer PROVE IsWizard(wiz')
  <2>1. wiz # Off
    BY <1>7 DEF ToggleDisclaimer, On
  <2>2. PICK x : wiz' = [wiz EXCEPT !.accepted = x]
    BY <1>7 DEF ToggleDisclaimer
  <2> QED
    BY <1>1, <2>1, <2>2, WizardIsEdited
<1>8. CASE UNCHANGED wiz
  BY <1>0, <1>1, <1>8
<1>9. CASE \E i \in 1..4 : MarkProvider(i)
  BY <1>0, <1>2, <1>9
<1>10. CASE \E i \in 1..4 : MarkChannel(i)
  BY <1>0, <1>3, <1>10
<1>11. CASE SubmitModels
  <2>1. form # NoForm
    BY <1>11 DEF SubmitModels, NoForm
  <2>2. wiz # Off
    BY <2>1 DEF OnboardShape
  <2> QED
    BY <1>0, <1>4, <1>11, <2>2
<1>12. CASE \E i \in 0..2, n \in Names, key \in {"", "new"}, keep \in BOOLEAN :
               SubmitChannel(i, n, key, keep)
  BY <1>0, <1>5, <1>12
<1>13. CASE ToggleDisclaimer
  BY <1>0, <1>7, <1>13
<1>14. CASE NextPage \/ Back
  BY <1>0, <1>6, <1>14
<1>15. \/ UNCHANGED wiz \/ (\E i \in 1..4 : MarkProvider(i)) \/ (\E i \in 1..4 : MarkChannel(i))
       \/ SubmitModels \/ ToggleDisclaimer \/ NextPage \/ Back
       \/ \E i \in 0..2, n \in Names, key \in {"", "new"}, keep \in BOOLEAN :
               SubmitChannel(i, n, key, keep)
  BY DEF Page, EditProvider, SelectProvider, SubmitCommonFields,
         ToggleKeepExistingApiKey, SubmitAuth, ToggleModel, AddModel, BackInForm
<1> QED
  BY <1>0, <1>8, <1>9, <1>10, <1>11, <1>12, <1>13, <1>14, <1>15

LEMMA WizardIsOn ==
    ASSUME NEW w, IsWizard(w) PROVE w # Off
<1>1. DOMAIN w = {"exact", "page", "accepted", "providers", "removed", "channels", "gone",
                  "pulse", "mode"}
  BY DEF IsWizard
<1>2. DOMAIN Off = {"page"}
  BY DEF Off
<1> QED
  BY <1>1, <1>2

LEMMA PagesAreShown ==
    ASSUME OnboardShape, Page PROVE wiz # Off /\ wiz' # Off
<1>1. wiz # Off
  <2>1. CASE form # NoForm
    BY <2>1 DEF OnboardShape
  <2>2. CASE form = NoForm
    <3>1. ~BackInForm /\ ~SubmitModels /\ ~ToggleKeepExistingApiKey
      BY <2>2 DEF BackInForm, SubmitModels, ToggleKeepExistingApiKey, NoForm
    <3>2. \A x : ~SubmitCommonFields(x) /\ ~SubmitAuth(x) /\ ~ToggleModel(x) /\ ~AddModel(x)
      BY <2>2 DEF SubmitCommonFields, SubmitAuth, ToggleModel, AddModel, NoForm
    <3>3. CASE wiz = Off
      <4>1. /\ \A k : ~MarkProvider(k) /\ ~EditProvider(k) /\ ~MarkChannel(k) /\ ~SelectProvider(k)
            /\ \A k, n, key, keep : ~SubmitChannel(k, n, key, keep)
            /\ ~NextPage /\ ~Back /\ ~ToggleDisclaimer
        BY <3>3 DEF MarkProvider, EditProvider, MarkChannel, SelectProvider, SubmitChannel,
                    NextPage, Back, ToggleDisclaimer, On
      <4> QED
        BY <3>1, <3>2, <4>1 DEF Page
    <3> QED
      BY <3>3
  <2> QED
    BY <2>1, <2>2
<1>3. wiz' = wiz \/ IsWizard(wiz')
  BY PagesKeepAWizard
<1> QED
  BY <1>1, <1>3, WizardIsOn

(***************************************************************************)
(* The shape through the steps of a setup.                                 *)
(***************************************************************************)
LEMMA ShapeAfterASlot ==
    ASSUME OnboardShape, NEW i \in Slot, OthersStay(i), UNCHANGED existing,
           ~Active(i)' \/ (IsSetup(subs'[i])
                           /\ (Busy(i, Lists)' => IsFiniteSet(DOMAIN subs'[i].held))),
           disk' \in [FILES -> {disk'[f] : f \in FILES}],
           \A f \in Lists : Listed(disk'[f]),
           (wiz' = wiz /\ form' = form) \/ (wiz' = Off /\ form' = NoForm)
    PROVE  OnboardShape'
<1>1. \A j \in Slot \ {i} : /\ (Active(j)' <=> Active(j)) /\ subs'[j] = subs[j]
                             /\ (Busy(j, Lists)' <=> Busy(j, Lists))
  BY DEF OthersStay, Active, Busy, At, Job
<1>2. \A j \in Slot : Active(j)' => IsSetup(subs'[j])
  BY <1>1 DEF OnboardShape
<1>3. \A j \in Slot : Busy(j, Lists)' => IsFiniteSet(DOMAIN subs'[j].held)
  <2>1. Busy(i, Lists)' => Active(i)'
    BY DEF Busy, At
  <2> QED
    BY <1>1, <2>1 DEF OnboardShape
<1>4. subs' \in [Slot -> {subs'[j] : j \in Slot}]
  BY DEF OthersStay
<1>5. /\ wiz' # Off => IsWizard(wiz')
      /\ wiz' = Off => form' = NoForm
  BY DEF OnboardShape
<1>6. IsFiniteSet(existing'.providers) /\ IsFiniteSet(existing'.channels)
  BY DEF OnboardShape
<1> QED
  BY <1>2, <1>3, <1>4, <1>5, <1>6 DEF OnboardShape

\* What a setup writes into providers.toml and channels.toml is finite.
LEMMA ListsAreFinite ==
    ASSUME NEW s, IsSeq(s.providers), IsSeq(s.channels), NEW old, IsFiniteSet(DOMAIN old)
    PROVE  /\ IsFiniteSet(DOMAIN saveProvidersConfig(old, s))
           /\ IsFiniteSet(DOMAIN saveChannelsConfig(old, s))
<1>1. /\ Len(s.providers) \in Nat /\ DOMAIN s.providers = 1..Len(s.providers)
      /\ Len(s.channels) \in Nat /\ DOMAIN s.channels = 1..Len(s.channels)
  BY IsSeqFacts
<1>2. IsFiniteSet(DOMAIN s.providers) /\ IsFiniteSet(DOMAIN s.channels)
  BY <1>1, FS_Interval
<1>3. IsFiniteSet(Kept(s)) /\ IsFiniteSet(KeptChannels(s))
  <2>1. Kept(s) \in SUBSET DOMAIN s.providers /\ KeptChannels(s) \in SUBSET DOMAIN s.channels
    BY DEF Kept, KeptChannels
  <2> QED
    BY <1>2, <2>1, FS_Subset
<1> DEFINE ids == [i \in Kept(s) |-> s.providers[i].id]
           ns == [i \in KeptChannels(s) |-> s.channels[i].id]
<1>4. IsFiniteSet({ids[i] : i \in Kept(s)}) /\ IsFiniteSet({ns[i] : i \in KeptChannels(s)})
  <2>1. ids = [i \in Kept(s) |-> ids[i]] /\ ns = [i \in KeptChannels(s) |-> ns[i]]
    OBVIOUS
  <2> HIDE DEF ids, ns
  <2> QED
    BY <1>3, <2>1, ImageIsFinite
<1>5. {p.id : p \in Chosen(s)} = {ids[i] : i \in Kept(s)}
      /\ {s.channels[i].id : i \in KeptChannels(s)} = {ns[i] : i \in KeptChannels(s)}
  BY DEF Chosen
<1>6. IsFiniteSet({p.id : p \in Chosen(s)})
      /\ IsFiniteSet({s.channels[i].id : i \in KeptChannels(s)})
  BY <1>4, <1>5
<1>7. IsFiniteSet(DOMAIN old \ s.removed) /\ IsFiniteSet(DOMAIN old \ s.gone)
  <2>1. DOMAIN old \ s.removed \in SUBSET DOMAIN old /\ DOMAIN old \ s.gone \in SUBSET DOMAIN old
    OBVIOUS
  <2> QED
    BY <2>1, FS_Subset
<1>8. /\ DOMAIN saveProvidersConfig(old, s) = (DOMAIN old \ s.removed) \cup {p.id : p \in Chosen(s)}
      /\ DOMAIN saveChannelsConfig(old, s) =
             (DOMAIN old \ s.gone) \cup {s.channels[i].id : i \in KeptChannels(s)}
  BY DEF saveProvidersConfig, saveChannelsConfig, Assigned, Put
<1>9. IsFiniteSet((DOMAIN old \ s.removed) \cup {p.id : p \in Chosen(s)})
  BY <1>6, <1>7, FS_Union
<1>10. IsFiniteSet((DOMAIN old \ s.gone) \cup {s.channels[i].id : i \in KeptChannels(s)})
  BY <1>6, <1>7, FS_Union
<1> QED
  BY <1>8, <1>9, <1>10

\* A step writes one file, or none.
LEMMA DiskAfterAWrite ==
    ASSUME OnboardShape, NEW f \in FILES, NEW text, f \in Lists => Listed(text),
           disk' = [disk EXCEPT ![f] = text]
    PROVE  /\ disk' \in [FILES -> {disk'[g] : g \in FILES}]
           /\ \A g \in Lists : Listed(disk'[g])
           /\ disk'[f] = text /\ \A g \in FILES \ {f} : disk'[g] = disk[g]
<1>1. disk \in [FILES -> {disk[g] : g \in FILES}] /\ \A g \in Lists : Listed(disk[g])
  BY DEF OnboardShape
<1>2. Lists \subseteq FILES
  BY DEF Lists, FILES
<1> QED
  BY <1>1, <1>2

LEMMA ShapeHoldsAtFirst ==
    ASSUME OnboardInit PROVE OnboardShape
<1>1. PICK b \in Scenarios : disk = b.disk
  BY DEF OnboardInit
<1>2. /\ disk \in [FILES -> {disk[f] : f \in FILES}]
      /\ \A f \in {"providers", "channels"} :
            IsFiniteSet(DOMAIN disk[f].entries)
  BY <1>1, ScenariosAssumption
<1>3. \A f \in Lists : Listed(disk[f])
  BY <1>2 DEF Lists, Listed
<1>4. wiz = Off /\ form = NoForm /\ existing = NoConfig /\ subs = [i \in Slot |-> Idle]
  BY DEF OnboardInit
<1>5. IsFiniteSet(existing.providers) /\ IsFiniteSet(existing.channels)
  BY <1>4, FS_EmptySet DEF NoConfig
<1>6. \A i \in Slot : ~Active(i) /\ ~Busy(i, Lists)
  BY <1>4 DEF Active, Busy, At, Idle
<1> QED
  BY <1>2, <1>3, <1>4, <1>5, <1>6 DEF OnboardShape

LEMMA SetupStepKeepsTheShape ==
    ASSUME OnboardShape, NEW i \in Slot,
           \/ Continue(i) \/ Refuse(i) \/ KeychainSet(i) \/ SecretRead(i) \/ SecretCut(i)
           \/ SecretWrite(i) \/ ConfigRead(i) \/ ConfigCut(i) \/ ConfigWrite(i)
           \/ TemplateCheck(i) \/ TemplateBackup(i) \/ TemplateWrite(i) \/ Finish(i)
           \/ IoFails(i)
    PROVE  OnboardShape' /\ OthersStay(i) /\ Active(i) /\ IsSetup(subs[i])
<1>1. Active(i)
  BY DEF Continue, Refuse, KeychainSet, SecretRead, SecretCut, SecretWrite, ConfigRead, ConfigCut,
         ConfigWrite, TemplateCheck, TemplateBackup, TemplateWrite, Finish, IoFails, At
<1>2. IsSetup(subs[i]) /\ HaveSlots
  BY <1>1 DEF OnboardShape, HaveSlots
<1>3. /\ disk \in [FILES -> {disk[f] : f \in FILES}]
      /\ \A f \in Lists : Listed(disk[f])
  BY DEF OnboardShape
<1>4. UNCHANGED existing /\ ((wiz' = wiz /\ form' = form) \/ (wiz' = Off /\ form' = NoForm))
  BY DEF Continue, Refuse, KeychainSet, SecretRead, SecretCut, SecretWrite, ConfigRead, ConfigCut,
         ConfigWrite, TemplateCheck, TemplateBackup, TemplateWrite, Finish, IoFails, Quiet
\* A job is done, or the setup has ended.
<1>5. ASSUME Pop(i) \/ Fail(i)
      PROVE  OthersStay(i) /\ (~Active(i)' \/ (IsSetup(subs'[i]) /\ ~Busy(i, Lists)'))
  <2>1. CASE Pop(i)
    <3>1. OthersStay(i) /\ (\/ subs'[i].at = "read" /\ IsSetup(subs'[i])
                            \/ subs'[i].at = "done" /\ ~Active(i)')
      BY <1>2, <2>1, DoesAJob
    <3>2. subs'[i].at = "read" => ~Busy(i, Lists)'
      BY DEF Busy, At
    <3> QED
      BY <3>1, <3>2
  <2>2. CASE Fail(i)
    BY <1>2, <2>2, Fails
  <2> QED
    BY <1>5, <2>1, <2>2
\* A job that writes no list goes on.
<1>6. ASSUME NEW at \in {"cut", "write", "end"}, NEW held, Go(i, at, held),
             Job(i).job \notin Lists
      PROVE  OthersStay(i) /\ IsSetup(subs'[i]) /\ ~Busy(i, Lists)'
  <2>1. OthersStay(i) /\ IsSetup(subs'[i]) /\ subs'[i].jobs = subs[i].jobs
    BY <1>2, <1>6, GoesOn
  <2>2. Job(i)' = Job(i)
    BY <2>1 DEF Job
  <2> QED
    BY <1>6, <2>1, <2>2 DEF Busy, At
<1>7. ASSUME Continue(i) \/ Refuse(i) \/ KeychainSet(i) \/ SecretWrite(i) \/ Finish(i) \/ IoFails(i)
      PROVE  OnboardShape' /\ OthersStay(i)
  <2>1. (Pop(i) \/ Fail(i)) /\ disk' = disk
    BY <1>7 DEF Continue, Refuse, KeychainSet, SecretWrite, Finish, IoFails, store
  <2>2. OthersStay(i) /\ (~Active(i)' \/ (IsSetup(subs'[i]) /\ ~Busy(i, Lists)'))
    BY <1>5, <2>1
  <2> QED
    BY <1>3, <1>4, <2>1, <2>2, ShapeAfterASlot
<1>8. ASSUME SecretRead(i) \/ SecretCut(i) \/ TemplateCheck(i) \/ TemplateBackup(i)
             \/ TemplateWrite(i)
      PROVE  OnboardShape' /\ OthersStay(i)
  <2>1. disk' = disk /\ Job(i).job \notin Lists
    BY <1>8 DEF SecretRead, SecretCut, TemplateCheck, TemplateBackup, TemplateWrite, At, Lists
  <2>2. Fail(i) \/ \E at \in {"cut", "write", "end"} : \E held : Go(i, at, held)
    BY <1>8 DEF SecretRead, SecretCut, TemplateCheck, TemplateBackup, TemplateWrite
  <2>3. OthersStay(i) /\ (~Active(i)' \/ (IsSetup(subs'[i]) /\ ~Busy(i, Lists)'))
    BY <1>5, <1>6, <2>1, <2>2
  <2> QED
    BY <1>3, <1>4, <2>1, <2>3, ShapeAfterASlot
<1>9. ASSUME ConfigRead(i) PROVE OnboardShape' /\ OthersStay(i)
  <2> DEFINE f == FileOf(Job(i).job)
  <2>1. disk' = disk
    BY <1>9 DEF ConfigRead
  <2>2. CASE disk[f].file = "torn"
    <3>1. Fail(i)
      BY <1>9, <2>2 DEF ConfigRead
    <3>2. OthersStay(i) /\ (~Active(i)' \/ (IsSetup(subs'[i]) /\ ~Busy(i, Lists)'))
      BY <1>5, <3>1
    <3> QED
      BY <1>3, <1>4, <2>1, <3>2, ShapeAfterASlot
  <2>3. CASE disk[f].file # "torn"
    <3>1. Go(i, "cut", Parsed(f))
      BY <1>9, <2>3 DEF ConfigRead
    <3>2. /\ OthersStay(i) /\ IsSetup(subs'[i]) /\ subs'[i].held = Parsed(f)
          /\ subs'[i].jobs = subs[i].jobs
      BY <1>2, <3>1, GoesOn
    <3>3. Busy(i, Lists)' => Job(i).job \in Lists
      BY <3>2 DEF Busy, At, Job
    <3>4. ASSUME Job(i).job \in Lists PROVE IsFiniteSet(DOMAIN Parsed(f))
      <4>1. f \in Lists
        BY <3>4 DEF FileOf, Lists
      <4> QED
        BY <1>3, <4>1 DEF Listed, Parsed
    <3> HIDE DEF f
    <3> QED
      BY <1>3, <1>4, <2>1, <3>2, <3>3, <3>4, ShapeAfterASlot
  <2> QED
    BY <2>2, <2>3
<1>10. ASSUME At(i, "cut", Configs) \/ At(i, "write", Configs) PROVE FileOf(Job(i).job) \in FILES
  BY <1>10 DEF At, Configs, FileOf, FILES
<1>11. ASSUME ConfigCut(i) PROVE OnboardShape' /\ OthersStay(i)
  <2> DEFINE f == FileOf(Job(i).job)
  <2>1. At(i, "cut", Configs) /\ disk' = [disk EXCEPT ![f] = Whole(Empty)]
        /\ Go(i, "write", subs[i].held)
    BY <1>11 DEF ConfigCut
  <2>2. /\ OthersStay(i) /\ IsSetup(subs'[i]) /\ subs'[i].held = subs[i].held
        /\ subs'[i].jobs = subs[i].jobs
    BY <1>2, <2>1, GoesOn
  <2>3. Busy(i, Lists)' => Busy(i, Lists)
    BY <2>1, <2>2 DEF Busy, At, Job
  <2>4. Busy(i, Lists)' => IsFiniteSet(DOMAIN subs'[i].held)
    BY <2>2, <2>3 DEF OnboardShape
  <2>5. Listed(Whole(Empty))
    BY FS_EmptySet DEF Listed, Empty, Whole
  <2>6. f \in FILES
    BY <1>10, <2>1
  <2> HIDE DEF f
  <2>7. /\ disk' \in [FILES -> {disk'[g] : g \in FILES}]
        /\ \A g \in Lists : Listed(disk'[g])
    BY <2>1, <2>5, <2>6, DiskAfterAWrite
  <2> QED
    BY <1>4, <2>2, <2>4, <2>7, ShapeAfterASlot
<1>12. ASSUME ConfigWrite(i) PROVE OnboardShape' /\ OthersStay(i)
  <2> DEFINE f == FileOf(Job(i).job)
             s == subs[i].state
             old == subs[i].held
  <2>1. At(i, "write", Configs) /\ Pop(i)
    BY <1>12 DEF ConfigWrite
  <2>2. OthersStay(i) /\ (~Active(i)' \/ (IsSetup(subs'[i]) /\ ~Busy(i, Lists)'))
    BY <1>5, <2>1
  <2>3. PICK text \in Over(disk[f], Whole(Text(Job(i).job, old, s)), Whole(Empty)) :
            disk' = [disk EXCEPT ![f] = text]
    BY <1>12 DEF ConfigWrite
  <2>4. f \in FILES
    BY <1>10, <2>1
  <2>5. ASSUME f \in Lists PROVE Listed(text)
    <3>1. Job(i).job = f
      BY <2>5 DEF FileOf, Lists
    <3>2. Busy(i, Lists)
      BY <2>1, <2>5, <3>1 DEF Busy, At
    <3>3. IsFiniteSet(DOMAIN old)
      BY <3>2 DEF OnboardShape
    <3>4. IsSeq(s.providers) /\ IsSeq(s.channels)
      BY <1>2 DEF IsSetup
    <3>5. IsFiniteSet(DOMAIN saveProvidersConfig(old, s))
          /\ IsFiniteSet(DOMAIN saveChannelsConfig(old, s))
      BY <3>3, <3>4, ListsAreFinite
    <3>6. text = TornFile \/ text = Whole(Text(f, old, s))
      BY <2>3, <3>1 DEF Over
    <3>7. f = "providers" \/ f = "channels"
      BY <2>5 DEF Lists
    <3>8. text \in {TornFile, Whole(saveProvidersConfig(old, s)), Whole(saveChannelsConfig(old, s))}
      <4> HIDE DEF f
      <4> QED
        BY <3>6, <3>7 DEF Text
    <3> QED
      BY <3>5, <3>8, FS_EmptySet DEF Listed, TornFile, Whole
  <2> HIDE DEF f
  <2>6. /\ disk' \in [FILES -> {disk'[g] : g \in FILES}]
        /\ \A g \in Lists : Listed(disk'[g])
    BY <2>3, <2>4, <2>5, DiskAfterAWrite
  <2> QED
    BY <1>4, <2>2, <2>6, ShapeAfterASlot
<1> QED
  BY <1>1, <1>2, <1>7, <1>8, <1>9, <1>11, <1>12

LEMMA UnchangedSlots ==
    ASSUME UNCHANGED subs
    PROVE  /\ \A i : (Active(i)' <=> Active(i)) /\ Job(i)' = Job(i)
           /\ \A i, at, jobs : At(i, at, jobs)' <=> At(i, at, jobs)
           /\ \A i, jobs : Busy(i, jobs)' <=> Busy(i, jobs)
  BY DEF Active, Job, At, Busy

\* The wizard's last page, and the command.
Begins(i) ==
    \/ \E mode \in Modes : Submit(i, mode)
    \/ \E p \in Builtin, m \in Offered, pulse \in Pulses : Command(i, p, m, pulse)

\* What they do.
Started(i) ==
    /\ ~Active(i) /\ (i = 2 => Active(1))
    /\ subs' \in [Slot -> {subs'[j] : j \in Slot}]
    /\ subs'[i] = [at |-> "read", state |-> subs'[i].state, jobs |-> Jobs(subs'[i].state),
                   held |-> Missing]
    /\ \A j \in Slot \ {i} : subs'[j] = IF Active(j) THEN subs[j] ELSE Idle
    /\ alone' = (alone /\ \A j \in Slot : ~Active(j))
    /\ UNCHANGED <<store, existing, form, halfway, loose, backups>>
    /\ IsSeq(subs'[i].state.providers) /\ IsSeq(subs'[i].state.channels)
    /\ subs'[i].state.mode \in Mode
    /\ wiz' = wiz \/ (wiz # Off /\ IsWizard(wiz'))

LEMMA StartedAs ==
    ASSUME NEW i \in Slot, NEW s, IsSeq(s.providers), IsSeq(s.channels), s.mode \in Mode,
           /\ ~Active(i) /\ (i = 2 => Active(1)) /\ Spend("submits")
           /\ subs' = [j \in Slot |->
                   IF j = i THEN [at |-> "read", state |-> s, jobs |-> Jobs(s), held |-> Missing]
                   ELSE IF Active(j) THEN subs[j] ELSE Idle]
           /\ alone' = (alone /\ \A j \in Slot : ~Active(j))
           /\ UNCHANGED <<store, existing, form, halfway, loose, backups>>,
           wiz' = wiz \/ (wiz # Off /\ IsWizard(wiz'))
    PROVE  Started(i)
<1> DEFINE h == [at |-> "read", state |-> s, jobs |-> Jobs(s), held |-> Missing]
<1>1. h.state = s /\ h = [at |-> "read", state |-> h.state, jobs |-> Jobs(h.state), held |-> Missing]
  OBVIOUS
<1>2. /\ subs' \in [Slot -> {subs'[j] : j \in Slot}] /\ subs'[i] = h
      /\ \A j \in Slot \ {i} : subs'[j] = IF Active(j) THEN subs[j] ELSE Idle
  OBVIOUS
<1> HIDE DEF h
<1> QED
  BY <1>1, <1>2 DEF Started

LEMMA StartedWith ==
    ASSUME OnboardShape, NEW i \in Slot, Begins(i) PROVE Started(i)
<1>1. CASE \E mode \in Modes : Submit(i, mode)
  <2>1. PICK mode \in Modes : Submit(i, mode)
    BY <1>1
  <2>2. wiz # Off /\ IsWizard(wiz) /\ mode \in Mode
    BY <2>1, OnboardingAssumption DEF Submit, On, OnboardShape, Mode
  <2>3. wiz' = [wiz EXCEPT !.mode = mode]
    BY <2>1 DEF Submit
  <2>4. IsWizard(wiz')
    BY <2>2, <2>3, WizardIsEdited
  <2> DEFINE s == wiz'
  <2>5. /\ ~Active(i) /\ (i = 2 => Active(1)) /\ Spend("submits")
        /\ subs' = [j \in Slot |->
                IF j = i THEN [at |-> "read", state |-> s, jobs |-> Jobs(s), held |-> Missing]
                ELSE IF Active(j) THEN subs[j] ELSE Idle]
        /\ alone' = (alone /\ \A j \in Slot : ~Active(j))
        /\ UNCHANGED <<store, existing, form, halfway, loose, backups>>
    BY <2>1 DEF Submit, Setup
  <2>6. IsSeq(s.providers) /\ IsSeq(s.channels) /\ s.mode \in Mode
    BY <2>4 DEF IsWizard
  <2>7. wiz' = wiz \/ (wiz # Off /\ IsWizard(wiz'))
    BY <2>2, <2>4
  <2> HIDE DEF s
  <2> QED
    BY <2>5, <2>6, <2>7, StartedAs
<1>2. CASE \E p \in Builtin, m \in Offered, pulse \in Pulses : Command(i, p, m, pulse)
  <2>1. PICK p \in Builtin, m \in Offered, pulse \in Pulses : Command(i, p, m, pulse)
    BY <1>2
  <2> DEFINE q == [id |-> p, custom |-> FALSE, was |-> Missing, key |-> "new", keep |-> FALSE,
                   models |-> {m}]
             s == [exact |-> FALSE, providers |-> <<q>>, removed |-> {}, channels |-> <<>>,
                   gone |-> {}, pulse |-> pulse, mode |-> "backup"]
  <2>2. /\ ~Active(i) /\ (i = 2 => Active(1)) /\ Spend("submits")
        /\ subs' = [j \in Slot |->
                IF j = i THEN [at |-> "read", state |-> s, jobs |-> Jobs(s), held |-> Missing]
                ELSE IF Active(j) THEN subs[j] ELSE Idle]
        /\ alone' = (alone /\ \A j \in Slot : ~Active(j))
        /\ UNCHANGED <<store, existing, form, halfway, loose, backups>> /\ wiz' = wiz
    BY <2>1 DEF Command, Options, Setup
  <2>3. s.providers = <<q>> /\ s.channels = <<>> /\ s.mode \in Mode
    BY DEF Mode
  <2>4. IsSeq(<<q>>) /\ IsSeq(<<>>)
    <3>1. <<q>> \in Seq({q}) /\ <<>> \in Seq({q})
      OBVIOUS
    <3> HIDE DEF q
    <3> QED
      BY <3>1, IsSeqIntro
  <2> HIDE DEF s
  <2> QED
    BY <2>2, <2>3, <2>4, StartedAs
<1> QED
  BY <1>1, <1>2 DEF Begins

LEMMA ShapeAfterASetup ==
    ASSUME OnboardShape, NEW i \in Slot, Started(i)
    PROVE  OnboardShape'
<1> DEFINE s == subs'[i].state
<1>0. IsSeq(s.providers) /\ IsSeq(s.channels) /\ s.mode \in Mode
  BY DEF Started
<1>1. /\ subs' \in [Slot -> {subs'[j] : j \in Slot}]
      /\ subs'[i] = [at |-> "read", state |-> s, jobs |-> Jobs(s), held |-> Missing]
      /\ \A j \in Slot \ {i} : subs'[j] = IF Active(j) THEN subs[j] ELSE Idle
  BY DEF Started
<1>2. /\ UNCHANGED <<store, existing, form>>
      /\ wiz' # Off => IsWizard(wiz')
      /\ wiz' = Off => form = NoForm
  BY WizardIsOn DEF Started, OnboardShape
<1> HIDE DEF s
<1>3. IsSetup(subs'[i])
  <2>1. IsSeq(Jobs(s)) /\ Jobs(s) # <<>>
    BY <1>0, JobsOfASetup
  <2> DEFINE h == subs'[i]
  <2>2. h = [at |-> "read", state |-> s, jobs |-> Jobs(s), held |-> Missing]
    BY <1>1
  <2> HIDE DEF h
  <2>3. /\ h \in [at : {"read", "cut", "write", "end"}, state : {h.state}, jobs : {h.jobs},
                  held : {h.held}]
        /\ h.state = s /\ h.jobs = Jobs(s)
    BY <2>2
  <2>4. IsSetup(h)
    BY <1>0, <2>1, <2>3 DEF IsSetup
  <2> QED
    BY <2>4 DEF h
<1>4. ~Busy(i, Lists)'
  BY <1>1 DEF Busy, At
<1>5. \A j \in Slot \ {i} : Active(j)' => Active(j) /\ subs'[j] = subs[j]
  BY <1>1 DEF Active, Idle
<1>6. \A j \in Slot : Active(j)' => IsSetup(subs'[j])
  BY <1>3, <1>5 DEF OnboardShape
<1>7. \A j \in Slot : Busy(j, Lists)' => IsFiniteSet(DOMAIN subs'[j].held)
  <2> SUFFICES ASSUME NEW j \in Slot, Busy(j, Lists)' PROVE IsFiniteSet(DOMAIN subs'[j].held)
    OBVIOUS
  <2>1. j # i
    BY <1>4
  <2>2. Active(j)'
    BY DEF Busy, At
  <2>3. subs'[j] = subs[j]
    BY <1>5, <2>1, <2>2
  <2>4. Busy(j, Lists)
    BY <2>3 DEF Busy, At, Job, Active
  <2> QED
    BY <2>3, <2>4 DEF OnboardShape
<1> QED
  BY <1>1, <1>2, <1>6, <1>7 DEF OnboardShape, store

LEMMA ShapeIsKept ==
    ASSUME OnboardShape, [OnboardNext]_onboardVars PROVE OnboardShape'
<1>1. CASE Start
  <2>1. UNCHANGED <<disk, subs>> /\ existing' = Existing /\ Loads
    BY <1>1 DEF Start, store
  <2>2. IsFiniteSet(existing'.providers) /\ IsFiniteSet(existing'.channels)
    BY <2>1, ExistingIsFinite
  <2>3. IsWizard(DEFAULT_STATE)
    <3>1. <<>> \in Seq({})
      OBVIOUS
    <3>2. IsSeq(<<>>)
      BY <3>1, IsSeqIntro
    <3> QED
      BY <3>2 DEF IsWizard, DEFAULT_STATE, Mode
  <2> DEFINE page == getStartingPage(Existing)
             v == [DEFAULT_STATE EXCEPT !.page = page]
             w == [v EXCEPT !.accepted = page > 1]
  <2>4. IsWizard(v)
    BY <2>3, WizardIsEdited
  <2>5. IsWizard(w)
    <3> HIDE DEF v
    <3> QED
      BY <2>4, WizardIsEdited
  <2>6. wiz' = Mounted(Existing, w)
    BY <1>1 DEF Start, DEFAULT_STATE
  <2>7. IsWizard(wiz')
    <3> HIDE DEF w
    <3> QED
      BY <2>1, <2>2, <2>5, <2>6, MountedIsAWizard
  <2>8. wiz' # Off
    BY <2>7, WizardIsOn
  <2> QED
    BY <2>1, <2>2, <2>7, <2>8, UnchangedSlots DEF OnboardShape
<1>2. CASE Page
  <2>1. UNCHANGED <<store, existing, subs, history>> /\ (wiz' = wiz \/ IsWizard(wiz'))
        /\ wiz # Off /\ wiz' # Off
    BY <1>2, PagesKeepAWizard, PagesAreShown
  <2> QED
    BY <2>1, UnchangedSlots DEF OnboardShape, store
<1>3. CASE SetupStep \/ \E i \in Slot : IoFails(i)
  BY <1>3, SetupStepKeepsTheShape DEF SetupStep
<1>4. CASE Crash
  <2>1. wiz' = Off /\ form' = NoForm /\ UNCHANGED <<disk, existing>>
    BY <1>4 DEF Crash, store
  <2>2. \A i \in Slot : subs'[i] = subs[i] \/ subs'[i] = Idle
    BY <1>4 DEF Crash
  <2>3. subs' \in [Slot -> {subs'[i] : i \in Slot}]
    BY <1>4 DEF Crash
  <2>4. \A i \in Slot : Active(i)' => Active(i) /\ subs'[i] = subs[i]
    BY <2>2 DEF Active, Idle
  <2>5. \A i \in Slot : Busy(i, Lists)' => Busy(i, Lists) /\ subs'[i] = subs[i]
    BY <2>4 DEF Busy, At, Job
  <2> QED
    BY <2>1, <2>3, <2>4, <2>5 DEF OnboardShape
<1>5. CASE \E i \in Slot : Begins(i)
  <2>1. PICK i \in Slot : Begins(i)
    BY <1>5
  <2> QED
    BY <2>1, StartedWith, ShapeAfterASetup
<1>6. CASE UNCHANGED onboardVars
  <2>1. UNCHANGED <<wiz, form, existing, disk, subs>>
    BY <1>6 DEF onboardVars, store
  <2> QED
    BY <2>1, UnchangedSlots DEF OnboardShape
<1> QED
  BY <1>1, <1>2, <1>3, <1>4, <1>5, <1>6 DEF OnboardNext, Begins

(***************************************************************************)
(* The user's text.                                                        *)
(***************************************************************************)
LEMMA TextHoldsAtFirst ==
    ASSUME OnboardInit PROVE TextInv
<1>1. PICK b \in Scenarios : guide = b.guide
  BY DEF OnboardInit
<1>2. guide \in [file : {"user"}, bak : {Missing, "user", "template"}]
  BY <1>1, ScenariosAssumption
<1>3. \A i \in Slot : ~At(i, "write", {"templates"})
  BY DEF OnboardInit, At, Active, Idle
<1>4. backups = 0
  BY DEF OnboardInit
<1> QED
  BY <1>2, <1>3, <1>4 DEF TextInv

LEMMA TextIsKept ==
    ASSUME OnboardShape, TextInv, [OnboardNext]_onboardVars PROVE TextInv'
<1> DEFINE W(i) == At(i, "write", {"templates"}) /\ subs[i].state.mode # "overwrite"
<1>0. /\ backups \in Nat
      /\ guide \in [file : {Missing, "user", "template"}, bak : {Missing, "user", "template"}]
      /\ backups = 0 => guide.file = "user"
      /\ backups = 1 => guide.bak = "user"
      /\ \A i \in Slot : W(i) => backups >= 1
  BY DEF TextInv
\* A step that leaves the text alone and brings no setup to the writing.
<1>1. ASSUME UNCHANGED <<guide, backups>>, \A i \in Slot : W(i)' => W(i) \/ backups >= 1
      PROVE  TextInv'
  BY <1>0, <1>1 DEF TextInv
<1>2. CASE UNCHANGED <<subs, guide, backups>>
  <2>1. \A i \in Slot : W(i)' => W(i)
    BY <1>2, UnchangedSlots
  <2> HIDE DEF W
  <2> QED
    BY <1>1, <1>2, <2>1
<1>3. CASE Start \/ Page \/ UNCHANGED onboardVars
  <2>1. UNCHANGED <<subs, guide, backups>>
    BY <1>3, PagesKeepAWizard DEF Start, store, history, onboardVars
  <2> QED
    BY <1>2, <2>1
<1>4. CASE Crash \/ \E i \in Slot : Started(i)
  <2>1. UNCHANGED <<guide, backups>>
    BY <1>4 DEF Crash, Started, store
  <2>2. \A i \in Slot : subs'[i] = subs[i] \/ subs'[i] = Idle \/ subs'[i].at = "read"
    <3>1. CASE Crash
      BY <3>1 DEF Crash
    <3>2. CASE \E i \in Slot : Started(i)
      <4>1. PICK i \in Slot : Started(i)
        BY <3>2
      <4>2. subs'[i].at = "read"
        BY <4>1 DEF Started
      <4> QED
        BY <4>1, <4>2 DEF Started
    <3> QED
      BY <1>4, <3>1, <3>2
  <2>3. \A i \in Slot : W(i)' => W(i)
    BY <2>2 DEF At, Active, Job, Idle
  <2> HIDE DEF W
  <2> QED
    BY <1>1, <2>1, <2>3
<1>5. ASSUME NEW i \in Slot,
             \/ Continue(i) \/ Refuse(i) \/ KeychainSet(i) \/ SecretRead(i) \/ SecretCut(i)
             \/ SecretWrite(i) \/ ConfigRead(i) \/ ConfigCut(i) \/ ConfigWrite(i)
             \/ TemplateCheck(i) \/ TemplateBackup(i) \/ TemplateWrite(i) \/ Finish(i)
             \/ IoFails(i)
      PROVE  TextInv'
  <2>1. OthersStay(i) /\ Active(i) /\ IsSetup(subs[i]) /\ HaveSlots
    BY <1>5, SetupStepKeepsTheShape DEF OnboardShape, HaveSlots
  <2>2. \A j \in Slot \ {i} : W(j)' <=> W(j)
    BY <2>1 DEF OthersStay, At, Active, Job
  <2>3. ASSUME Pop(i) \/ Fail(i) PROVE ~W(i)'
    <3>1. subs'[i].at \in {"read", "done", "failed"}
      BY <2>1, <2>3, DoesAJob, Fails
    <3> QED
      BY <3>1 DEF At
  <2>4. ASSUME NEW at \in {"cut", "write", "end"}, NEW held, Go(i, at, held)
        PROVE  /\ subs'[i].at = at /\ subs'[i].state = subs[i].state /\ Job(i)' = Job(i)
    BY <2>1, <2>4, GoesOn DEF Job
  <2>5. CASE Continue(i) \/ Refuse(i) \/ KeychainSet(i) \/ SecretWrite(i) \/ ConfigWrite(i)
             \/ Finish(i) \/ IoFails(i)
    <3>1. (Pop(i) \/ Fail(i)) /\ UNCHANGED <<guide, backups>>
      BY <2>5 DEF Continue, Refuse, KeychainSet, SecretWrite, ConfigWrite, Finish, IoFails,
                  store, history
    <3>2. \A j \in Slot : W(j)' => W(j)
      BY <2>2, <2>3, <3>1
    <3> HIDE DEF W
    <3> QED
      BY <1>1, <3>1, <3>2
  <2>6. CASE SecretRead(i) \/ SecretCut(i) \/ ConfigRead(i) \/ ConfigCut(i)
    <3>1. UNCHANGED <<guide, backups>>
          /\ (Fail(i) \/ \E at \in {"cut", "write", "end"} : \E held : Go(i, at, held))
      BY <2>6 DEF SecretRead, SecretCut, ConfigRead, ConfigCut
    <3>2. Job(i).job # "templates"
      BY <2>6 DEF SecretRead, SecretCut, ConfigRead, ConfigCut, At, Configs
    <3>3. ~W(i)'
      <4>1. CASE Fail(i)
        BY <2>3, <4>1
      <4>2. CASE \E at \in {"cut", "write", "end"} : \E held : Go(i, at, held)
        <5>1. Job(i)' = Job(i)
          BY <2>4, <4>2
        <5> QED
          BY <3>2, <5>1 DEF At
      <4> QED
        BY <3>1, <4>1, <4>2
    <3>4. \A j \in Slot : W(j)' => W(j)
      BY <2>2, <3>3
    <3> HIDE DEF W
    <3> QED
      BY <1>1, <3>1, <3>4
  <2>7. CASE TemplateCheck(i)
    <3>1. UNCHANGED <<guide, backups>> /\ subs[i].state.mode \in Mode
      BY <2>1, <2>7 DEF TemplateCheck, IsSetup
    <3>2. \/ Go(i, "end", Missing) \/ Go(i, "cut", Missing)
          \/ /\ Go(i, "write", Missing)
             /\ guide.file = Missing \/ subs[i].state.mode = "overwrite"
      BY <2>7, <3>1 DEF TemplateCheck, Mode
    <3>3. W(i)' => guide.file = Missing
      <4>1. CASE Go(i, "end", Missing) \/ Go(i, "cut", Missing)
        <5>1. subs'[i].at # "write"
          BY <2>4, <4>1
        <5> QED
          BY <5>1 DEF At
      <4>2. CASE Go(i, "write", Missing) /\ subs[i].state.mode = "overwrite"
        BY <2>4, <4>2
      <4> QED
        BY <3>2, <4>1, <4>2
    <3>4. guide.file = Missing => backups >= 1
      BY <1>0, OnboardingAssumption
    <3>5. \A j \in Slot : W(j)' => W(j) \/ backups >= 1
      BY <2>2, <3>3, <3>4
    <3> HIDE DEF W
    <3> QED
      BY <1>1, <3>1, <3>5
  <2>8. CASE TemplateBackup(i)
    <3>1. CASE guide.file = Missing
      <4>1. UNCHANGED <<guide, backups>> /\ Go(i, "end", Missing)
        BY <2>8, <3>1 DEF TemplateBackup
      <4>2. subs'[i].at = "end"
        BY <2>4, <4>1
      <4>3. ~W(i)'
        BY <4>2 DEF At
      <4>4. \A j \in Slot : W(j)' => W(j)
        BY <2>2, <4>3
      <4> HIDE DEF W
      <4> QED
        BY <1>1, <4>1, <4>4
    <3>2. CASE guide.file # Missing
      <4>1. guide' = [file |-> Missing, bak |-> guide.file] /\ backups' = backups + 1
        BY <2>8, <3>2 DEF TemplateBackup
      <4>2. backups' \in Nat /\ backups' >= 1 /\ (backups' = 1 => backups = 0)
        BY <1>0, <4>1
      <4>3. guide' \in [file : {Missing, "user", "template"}, bak : {Missing, "user", "template"}]
        BY <1>0, <4>1
      <4>4. backups' = 1 => guide'.bak = "user"
        BY <1>0, <4>1, <4>2
      <4>5. backups' # 0
        BY <4>2
      <4> QED
        BY <4>2, <4>3, <4>4, <4>5 DEF TextInv
    <3> QED
      BY <3>1, <3>2
  <2>9. CASE TemplateWrite(i)
    <3>1. /\ guide' = [guide EXCEPT !.file = "template"]
          /\ W(i) \/ subs[i].state.mode = "overwrite"
          /\ backups' = IF subs[i].state.mode = "overwrite" THEN 2 ELSE backups
      BY <2>9 DEF TemplateWrite
    <3>2. backups' \in Nat /\ backups' >= 1 /\ (backups' = 1 => backups = 1)
      BY <1>0, <3>1
    <3>3. guide' \in [file : {Missing, "user", "template"}, bak : {Missing, "user", "template"}]
          /\ guide'.bak = guide.bak
      <4>1. guide \in [file : {Missing, "user", "template"}, bak : {Missing, "user", "template"}]
            /\ guide' = [guide EXCEPT !.file = "template"]
        BY <1>0, <3>1
      <4> QED
        BY <4>1
    <3>4. backups' = 1 => guide'.bak = "user"
      BY <1>0, <3>2, <3>3
    <3>5. backups' # 0
      BY <3>2
    <3> QED
      BY <3>2, <3>3, <3>4, <3>5 DEF TextInv
  <2> QED
    BY <1>5, <2>5, <2>6, <2>7, <2>8, <2>9
<1>6. CASE SetupStep \/ \E i \in Slot : IoFails(i)
  BY <1>5, <1>6 DEF SetupStep
<1>7. CASE \E i \in Slot : Begins(i)
  <2>1. \E i \in Slot : Started(i)
    BY <1>7, StartedWith
  <2> QED
    BY <1>4, <2>1
<1> QED
  BY <1>3, <1>4, <1>6, <1>7 DEF OnboardNext, Begins

(***************************************************************************)
(* The store of secrets.                                                   *)
(***************************************************************************)
\* Nothing that was known is forgotten, unless the store is lost.
Grows == Safe' /\ ~Lost' => Safe /\ ~Lost /\ KnownNames \subseteq KnownNames'

StepOf(i) ==
    \/ Continue(i) \/ Refuse(i) \/ KeychainSet(i) \/ SecretRead(i) \/ SecretCut(i)
    \/ SecretWrite(i) \/ ConfigRead(i) \/ ConfigCut(i) \/ ConfigWrite(i)
    \/ TemplateCheck(i) \/ TemplateBackup(i) \/ TemplateWrite(i) \/ Finish(i)
    \/ IoFails(i)

LEMMA StoreHoldsAtFirst ==
    ASSUME OnboardInit PROVE StoreInv
<1>1. PICK b \in Scenarios : secrets = b.secrets /\ native = b.native
  BY DEF OnboardInit
<1>2. /\ secrets \in {NoFile, TornFile, Whole(secrets.entries)}
      /\ native \in BOOLEAN /\ (native => secrets.file = "whole")
  BY <1>1, ScenariosAssumption DEF IsFile
<1>3. secrets \in [file : {"missing", "torn", "whole"}, entries : {secrets.entries}]
      /\ (secrets.file # "whole" => secrets.entries = Empty)
  BY <1>2 DEF NoFile, TornFile, Whole, Empty
<1>4. \A i \in Slot : ~Active(i)
  BY DEF OnboardInit, Active, Idle
<1>5. \A i \in Slot : ~Writing(i) /\ ~At(i, "cut", {"secret"}) /\ ~At(i, "write", {"secret"})
  BY <1>4 DEF Writing, Busy, At
<1>6. alone = TRUE
  BY DEF OnboardInit
<1> QED
  BY <1>2, <1>3, <1>4, <1>5, <1>6 DEF StoreInv, Slot

\* A step that writes no secret: a setup that wrote one goes on, or is over.
LEMMA StoreLeftAlone ==
    ASSUME StoreInv, UNCHANGED <<secrets, native>>, alone' \in BOOLEAN, alone' => alone,
           alone' => ~Active(2)',
           \A i \in Slot : At(i, "cut", {"secret"})' => At(i, "cut", {"secret"}),
           \A i \in Slot : At(i, "write", {"secret"})' => At(i, "write", {"secret"}),
           \A i \in Slot : Writing(i)' => subs'[i].held = subs[i].held
    PROVE  StoreInv' /\ Grows
<1>1. 1 \in Slot /\ 2 \in Slot
  BY DEF Slot
<1>2. \A i \in Slot : Writing(i)' => Writing(i)
  BY DEF Writing, Busy
<1>3. At(1, "cut", {"secret"})' => At(1, "cut", {"secret"}) /\ subs'[1].held = subs[1].held
  BY <1>1 DEF Writing, Busy
<1>4. StoreInv'
  BY <1>1, <1>2, <1>3 DEF StoreInv
<1>5. Grows
  <2> SUFFICES ASSUME Safe', ~Lost' PROVE Safe /\ ~Lost /\ KnownNames \subseteq KnownNames'
    BY DEF Grows
  <2>1. Safe
    BY DEF Safe
  <2>2. ~Lost
    BY <1>1, <1>2 DEF Lost
  <2>3. CASE Writing(1)'
    BY <1>1, <1>2, <2>1, <2>2, <2>3 DEF KnownNames
  <2>4. CASE ~Writing(1)' /\ ~Writing(1)
    BY <2>1, <2>2, <2>4 DEF KnownNames
  <2>5. CASE ~Writing(1)' /\ Writing(1)
    <3>1. alone
      BY <1>1, <2>1, <2>5 DEF Safe, StoreInv
    <3>2. secrets.file # "torn"
      BY <2>5 DEF Lost
    <3>3. At(1, "cut", {"secret"})
      BY <2>5, <3>1, <3>2 DEF StoreInv, Writing, Busy
    <3>4. subs[1].held = secrets.entries
      BY <3>1, <3>2, <3>3 DEF StoreInv
    <3> QED
      BY <2>1, <2>2, <2>5, <3>4 DEF KnownNames
  <2> QED
    BY <2>3, <2>4, <2>5
<1> QED
  BY <1>4, <1>5

\* The steps of the secrets file, and the keychain's.
LEMMA StoreIsWritten ==
    ASSUME OnboardShape, StoreInv, NEW i \in Slot,
           KeychainSet(i) \/ SecretRead(i) \/ SecretCut(i) \/ SecretWrite(i)
    PROVE  /\ StoreInv' /\ Grows
           /\ Pop(i) /\ Safe' /\ ~Lost' => Job(i).name \in KnownNames'
<1>0. OthersStay(i) /\ Active(i) /\ IsSetup(subs[i]) /\ HaveSlots
  BY SetupStepKeepsTheShape DEF OnboardShape, HaveSlots
<1>1. 1 \in Slot /\ 2 \in Slot
  BY DEF Slot
<1>2. /\ native \in BOOLEAN /\ alone \in BOOLEAN
      /\ secrets \in [file : {"missing", "torn", "whole"}, entries : {secrets.entries}]
      /\ secrets.file # "whole" => secrets.entries = Empty
      /\ native => secrets.file = "whole" /\ \A j \in Slot : ~Writing(j)
      /\ alone => ~Active(2)
  BY DEF StoreInv
<1>3. alone' = alone /\ native' = native
  BY DEF KeychainSet, SecretRead, SecretCut, SecretWrite, Quiet
<1>4. \A j \in Slot \ {i} : (Writing(j)' <=> Writing(j)) /\ (Active(j)' <=> Active(j))
  BY <1>0 DEF OthersStay, Writing, Busy, At, Active, Job
<1>5. alone => i = 1 /\ ~Active(2)'
  BY <1>0, <1>1, <1>2, <1>4 DEF Slot
<1>6. ASSUME Pop(i) \/ Fail(i) PROVE ~Writing(i)'
  <2>1. subs'[i].at \in {"read", "done", "failed"}
    BY <1>0, <1>6, DoesAJob, Fails
  <2> QED
    BY <2>1 DEF Writing, Busy, At
<1>7. ASSUME NEW at \in {"cut", "write"}, NEW held, Go(i, at, held),
             At(i, "read", {"secret"}) \/ At(i, "cut", {"secret"})
      PROVE  At(i, at, {"secret"})' /\ Writing(i)' /\ subs'[i].held = held /\ subs'[i].at = at
  <2>1. /\ IsSetup(subs'[i]) /\ subs'[i].at = at /\ subs'[i].held = held
        /\ subs'[i].jobs = subs[i].jobs
    BY <1>0, <1>7, GoesOn
  <2>2. Active(i)' /\ Job(i)' = Job(i) /\ subs'[i].jobs # <<>>
    BY <2>1 DEF Active, Job, IsSetup
  <2>3. Job(i).job \in {"secret"}
    BY <1>7 DEF At
  <2>4. At(i, at, {"secret"})'
    BY <2>1, <2>2, <2>3 DEF At
  <2> QED
    BY <2>1, <2>4 DEF Writing, Busy
<1>8. ASSUME NEW f, NEW n, NEW v
      PROVE  /\ Whole(With(f, n, v)) \in [file : {"whole"}, entries : {Whole(With(f, n, v)).entries}]
             /\ DOMAIN Whole(With(f, n, v)).entries = DOMAIN f \cup {n}
             /\ Whole(With(f, n, v)).file = "whole"
  BY DEF Whole, With
<1>9. CASE KeychainSet(i)
  <2>1. native /\ Pop(i) /\ secrets' = Whole(With(secrets.entries, Job(i).name, Job(i).value))
    BY <1>9 DEF KeychainSet
  <2>2. \A j \in Slot : ~Writing(j)'
    BY <1>2, <1>4, <1>6, <2>1
  <2>3. /\ secrets' \in [file : {"whole"}, entries : {secrets'.entries}] /\ secrets'.file = "whole"
        /\ DOMAIN secrets'.entries = DOMAIN secrets.entries \cup {Job(i).name}
    BY <1>8, <2>1
  <2>4. \A at \in {"cut", "write"} : ~At(1, at, {"secret"})'
    BY <1>1, <2>2 DEF Writing, Busy
  <2>5. StoreInv'
    BY <1>2, <1>3, <1>5, <2>2, <2>3, <2>4 DEF StoreInv
  <2>6. KnownNames = DOMAIN secrets.entries /\ KnownNames' = DOMAIN secrets'.entries /\ Safe /\ ~Lost
    BY <1>1, <1>2, <2>1, <2>2 DEF KnownNames, Safe, Lost
  <2> QED
    BY <2>3, <2>5, <2>6 DEF Grows
<1>10. CASE SecretRead(i)
  <2>1. /\ ~native /\ At(i, "read", {"secret"})
        /\ secrets' = IF secrets.file = "missing" THEN TornFile ELSE secrets
        /\ IF secrets.file = "torn" THEN Fail(i) ELSE Go(i, "cut", secrets.entries)
    BY <1>10 DEF SecretRead
  <2>2. /\ secrets' \in [file : {"torn", "whole"}, entries : {secrets'.entries}]
        /\ secrets'.entries = secrets.entries /\ (secrets'.file = "torn" => secrets.entries = Empty)
        /\ (secrets.file = "torn" => secrets'.file = "torn")
    BY <1>2, <2>1 DEF TornFile, Empty
  <2>3. ~Writing(i) /\ ~Pop(i)
    <3>1. subs[i].at = "read"
      BY <2>1 DEF At
    <3>2. CASE Pop(i)
      <4>1. subs'[i].at # "failed" /\ subs'[i].at # "cut"
        BY <1>0, <3>2, DoesAJob
      <4>2. subs'[i].at = "failed" \/ subs'[i].at = "cut"
        BY <1>0, <1>7, <2>1, Fails
      <4> QED
        BY <4>1, <4>2
    <3> QED
      BY <3>1, <3>2 DEF Writing, Busy, At
  <2>4. CASE secrets.file = "torn"
    <3>1. ~Writing(i)'
      BY <1>6, <2>1, <2>4
    <3>2. alone => ~Writing(1)'
      BY <1>5, <3>1
    <3>3. StoreInv'
      BY <1>1, <1>2, <1>3, <1>5, <2>1, <2>2, <3>2 DEF StoreInv, Writing, Busy
    <3>4. Safe' => Lost'
      BY <1>3, <2>1, <2>2, <2>4, <3>2 DEF Safe, Lost
    <3> QED
      BY <2>3, <3>3, <3>4 DEF Grows
  <2>5. CASE secrets.file # "torn"
    <3>1. /\ At(i, "cut", {"secret"})' /\ Writing(i)' /\ subs'[i].held = secrets.entries
          /\ subs'[i].at = "cut"
      BY <1>7, <2>1, <2>5
    <3>2. alone => /\ subs'[1].held = secrets'.entries /\ ~At(1, "write", {"secret"})' /\ Writing(1)'
      BY <1>5, <2>2, <3>1 DEF At
    <3>3. StoreInv'
      BY <1>1, <1>2, <1>3, <1>5, <2>1, <2>2, <3>2 DEF StoreInv
    <3>4. Safe' => Safe /\ ~Lost /\ KnownNames = KnownNames'
      BY <1>3, <1>5, <2>1, <2>2, <2>3, <2>5, <3>2 DEF Safe, Lost, KnownNames
    <3> QED
      BY <2>3, <3>3, <3>4 DEF Grows
  <2> QED
    BY <2>4, <2>5
<1>11. CASE SecretCut(i)
  <2>1. At(i, "cut", {"secret"}) /\ secrets' = TornFile /\ Go(i, "write", subs[i].held)
    BY <1>11 DEF SecretCut
  <2>2. At(i, "write", {"secret"})' /\ Writing(i)' /\ subs'[i].held = subs[i].held
        /\ subs'[i].at = "write"
    BY <1>7, <2>1
  <2>3. Writing(i) /\ ~native
    BY <1>2, <2>1 DEF Writing, Busy
  <2>4. /\ secrets' \in [file : {"torn"}, entries : {secrets'.entries}] /\ secrets'.file = "torn"
        /\ secrets'.entries = Empty
    BY <2>1 DEF TornFile, Empty
  <2>5. ~At(i, "cut", {"secret"})' /\ ~Pop(i)
    <3>1. Pop(i) => subs'[i].at # "write"
      BY <1>0, DoesAJob
    <3> QED
      BY <2>2, <3>1 DEF At
  <2>6. StoreInv'
    BY <1>1, <1>2, <1>3, <1>5, <2>3, <2>4, <2>5 DEF StoreInv
  <2>7. Safe' => Safe /\ ~Lost /\ KnownNames = KnownNames'
    BY <1>3, <1>5, <2>2, <2>3 DEF Safe, Lost, KnownNames
  <2> QED
    BY <2>5, <2>6, <2>7 DEF Grows
<1>12. CASE SecretWrite(i)
  <2>1. /\ At(i, "write", {"secret"}) /\ Pop(i)
        /\ secrets' \in Over(secrets, Replaced(i), TornFile)
    BY <1>12 DEF SecretWrite
  <2>2. Writing(i) /\ ~native /\ ~Writing(i)'
    BY <1>2, <1>6, <2>1 DEF Writing, Busy
  <2>3. secrets' = Replaced(i) \/ secrets' = TornFile
    BY <2>1 DEF Over
  <2>4. /\ secrets' \in [file : {"torn", "whole"}, entries : {secrets'.entries}]
        /\ secrets'.file # "whole" => secrets'.entries = Empty
        /\ secrets'.file = "whole" => DOMAIN secrets'.entries = DOMAIN subs[i].held \cup {Job(i).name}
    <3>1. CASE secrets' = TornFile
      BY <3>1 DEF TornFile, Empty
    <3>2. CASE secrets' = Replaced(i)
      <4> DEFINE new == Whole(With(subs[i].held, Job(i).name, Job(i).value))
      <4>1. /\ new \in [file : {"whole"}, entries : {new.entries}] /\ new.file = "whole"
            /\ DOMAIN new.entries = DOMAIN subs[i].held \cup {Job(i).name}
        BY <1>8
      <4>2. secrets' = new
        BY <3>2 DEF Replaced
      <4> HIDE DEF new
      <4> QED
        BY <4>1, <4>2
    <3> QED
      BY <2>3, <3>1, <3>2
  <2>5. alone => ~Writing(1)'
    BY <1>5, <2>2
  <2>6. StoreInv'
    BY <1>1, <1>2, <1>3, <1>5, <2>2, <2>4, <2>5 DEF StoreInv, Writing, Busy
  <2>7. Safe' /\ ~Lost' => /\ Safe /\ ~Lost /\ KnownNames \subseteq KnownNames'
                          /\ Job(i).name \in KnownNames'
    <3> SUFFICES ASSUME Safe', ~Lost'
                 PROVE  /\ Safe /\ ~Lost /\ KnownNames \subseteq KnownNames'
                        /\ Job(i).name \in KnownNames'
      OBVIOUS
    <3>1. alone /\ Safe /\ i = 1
      BY <1>3, <1>5, <2>2 DEF Safe
    <3>2. secrets'.file = "whole" /\ ~Writing(1)'
      BY <2>4, <2>5, <3>1 DEF Lost
    <3>3. KnownNames' = DOMAIN secrets'.entries /\ KnownNames = DOMAIN subs[i].held /\ ~Lost
      BY <2>2, <3>1, <3>2 DEF KnownNames, Lost
    <3> QED
      BY <2>4, <3>1, <3>2, <3>3
  <2> QED
    BY <2>6, <2>7 DEF Grows
<1> QED
  BY <1>9, <1>10, <1>11, <1>12

LEMMA StoreIsKept ==
    ASSUME OnboardShape, StoreInv, [OnboardNext]_onboardVars PROVE StoreInv' /\ Grows
\* Steps that leave the setups alone.
<1>1. CASE Start \/ Page \/ UNCHANGED onboardVars
  <2>1. UNCHANGED <<secrets, native, alone, subs>>
    BY <1>1, PagesKeepAWizard DEF Start, store, history, onboardVars
  <2>2. /\ \A i \in Slot, at \in {"cut", "write"} : At(i, at, {"secret"})' => At(i, at, {"secret"})
        /\ ~Active(2) => ~Active(2)'
    BY <2>1, UnchangedSlots
  <2>3. alone' \in BOOLEAN /\ (alone' => ~Active(2)')
    BY <2>1, <2>2 DEF StoreInv
  <2> QED
    BY <2>1, <2>2, <2>3, StoreLeftAlone
\* Setups that end, or begin.
<1>2. CASE Crash \/ (\E i \in Slot : Started(i)) \/ (\E i \in Slot : Refuse(i) \/ IoFails(i))
  <2>1. UNCHANGED <<secrets, native>>
    BY <1>2 DEF Crash, Started, store, Refuse, IoFails, Quiet
  <2>2. \A i \in Slot : \/ subs'[i] = subs[i]
                       \/ subs'[i].at \in {"idle", "read", "failed"}
    <3>1. CASE Crash
      BY <3>1 DEF Crash, Idle
    <3>2. ASSUME NEW i \in Slot, Started(i)
          PROVE  \A j \in Slot : subs'[j] = subs[j] \/ subs'[j].at \in {"idle", "read", "failed"}
      <4>1. subs'[i].at = "read"
        BY <3>2 DEF Started
      <4> QED
        BY <3>2, <4>1 DEF Started, Idle
    <3>3. ASSUME NEW i \in Slot, Refuse(i) \/ IoFails(i)
          PROVE  \A j \in Slot : subs'[j] = subs[j] \/ subs'[j].at \in {"idle", "read", "failed"}
      BY <3>3, Fails DEF OnboardShape, HaveSlots, Refuse, IoFails, OthersStay
    <3> QED
      BY <1>2, <3>1, <3>2, <3>3
  <2>3. \A i \in Slot, at \in {"cut", "write"} :
           At(i, at, {"secret"})' => At(i, at, {"secret"}) /\ subs'[i] = subs[i]
    BY <2>2 DEF At, Active, Job
  <2>4. \A i \in Slot : Writing(i)' => subs'[i].held = subs[i].held
    BY <2>3 DEF Writing, Busy
  <2>5. alone' \in BOOLEAN /\ (alone' => alone) /\ (alone' => ~Active(2)')
    <3>1. alone \in BOOLEAN /\ (alone => ~Active(2)) /\ 2 \in Slot /\ 1 \in Slot
      BY DEF StoreInv, Slot
    <3>2. CASE Crash
      <4>1. alone' = alone /\ (subs'[2] = subs[2] \/ subs'[2] = Idle)
        BY <3>1, <3>2 DEF Crash
      <4> QED
        BY <3>1, <4>1 DEF Active, Idle
    <3>3. ASSUME NEW i \in Slot, Started(i)
          PROVE  alone' \in BOOLEAN /\ (alone' => alone) /\ (alone' => ~Active(2)')
      <4>1. alone' = (alone /\ \A j \in Slot : ~Active(j)) /\ (i = 2 => Active(1))
        BY <3>3 DEF Started
      <4>2. CASE i = 2
        BY <3>1, <4>1, <4>2
      <4>3. CASE i = 1
        <5>1. subs'[2] = subs[2] \/ subs'[2] = Idle
          BY <3>1, <3>3, <4>3 DEF Started
        <5> QED
          BY <3>1, <4>1, <5>1 DEF Active, Idle
      <4> QED
        BY <4>2, <4>3 DEF Slot
    <3>4. ASSUME NEW i \in Slot, Refuse(i) \/ IoFails(i)
          PROVE  alone' \in BOOLEAN /\ (alone' => alone) /\ (alone' => ~Active(2)')
      <4>1. alone' = alone /\ OthersStay(i) /\ ~Active(i)'
        BY <3>4, Fails DEF OnboardShape, HaveSlots, Refuse, IoFails, Quiet
      <4>2. i # 2 => (Active(2)' <=> Active(2))
        BY <3>1, <4>1 DEF OthersStay, Active
      <4> QED
        BY <3>1, <4>1, <4>2
    <3> QED
      BY <1>2, <3>2, <3>3, <3>4
  <2> QED
    BY <2>1, <2>3, <2>4, <2>5, StoreLeftAlone
\* Jobs that are not of the store.
<1>3. ASSUME NEW i \in Slot,
             \/ Continue(i) \/ ConfigRead(i) \/ ConfigCut(i) \/ ConfigWrite(i)
             \/ TemplateCheck(i) \/ TemplateBackup(i) \/ TemplateWrite(i) \/ Finish(i)
      PROVE  StoreInv' /\ Grows
  <2>1. OthersStay(i) /\ Active(i) /\ IsSetup(subs[i]) /\ HaveSlots
    BY <1>3, SetupStepKeepsTheShape DEF OnboardShape, HaveSlots
  <2>2. UNCHANGED <<secrets, native, alone>>
    BY <1>3 DEF Continue, ConfigRead, ConfigCut, ConfigWrite, TemplateCheck, TemplateBackup,
                TemplateWrite, Finish, Quiet, store, history
  <2>3. Job(i).job # "secret"
    BY <1>3 DEF Continue, ConfigRead, ConfigCut, ConfigWrite, TemplateCheck, TemplateBackup,
                TemplateWrite, Finish, At, Configs
  <2>4. Pop(i) \/ Fail(i) \/ \E at \in {"cut", "write", "end"} : \E held : Go(i, at, held)
    BY <1>3 DEF Continue, ConfigRead, ConfigCut, ConfigWrite, TemplateCheck, TemplateBackup,
                TemplateWrite, Finish
  <2>5. ~Writing(i)'
    <3>1. CASE Pop(i) \/ Fail(i)
      <4>1. subs'[i].at \in {"read", "done", "failed"}
        BY <2>1, <3>1, DoesAJob, Fails
      <4> QED
        BY <4>1 DEF Writing, Busy, At
    <3>2. CASE \E at \in {"cut", "write", "end"} : \E held : Go(i, at, held)
      <4>1. Job(i)' = Job(i)
        BY <2>1, <3>2, GoesOn DEF Job
      <4> QED
        BY <2>3, <4>1 DEF Writing, Busy, At
    <3> QED
      BY <2>4, <3>1, <3>2
  <2>6. \A j \in Slot \ {i} : subs'[j] = subs[j] /\ (Active(j)' <=> Active(j))
    BY <2>1 DEF OthersStay, Active
  <2>7. \A j \in Slot, at \in {"cut", "write"} :
           At(j, at, {"secret"})' => At(j, at, {"secret"}) /\ subs'[j] = subs[j]
    BY <2>5, <2>6 DEF At, Active, Job, Writing, Busy
  <2>8. \A j \in Slot : Writing(j)' => subs'[j].held = subs[j].held
    BY <2>7 DEF Writing, Busy
  <2>9. alone' \in BOOLEAN /\ (alone' => alone) /\ (alone' => ~Active(2)')
    <3>1. alone \in BOOLEAN /\ (alone => ~Active(2)) /\ 2 \in Slot
      BY DEF StoreInv, Slot
    <3>2. alone => i # 2
      BY <2>1, <3>1
    <3> QED
      BY <2>2, <2>6, <3>1, <3>2
  <2> QED
    BY <2>2, <2>7, <2>8, <2>9, StoreLeftAlone
<1>4. CASE \E i \in Slot : KeychainSet(i) \/ SecretRead(i) \/ SecretCut(i) \/ SecretWrite(i)
  BY <1>4, StoreIsWritten
<1>5. CASE \E i \in Slot : Begins(i)
  <2>1. \E i \in Slot : Started(i)
    BY <1>5, StartedWith
  <2> QED
    BY <1>2, <2>1
<1> QED
  BY <1>1, <1>2, <1>3, <1>4, <1>5 DEF OnboardNext, SetupStep, Begins

(***************************************************************************)
(* Keys come before the providers that need them.                          *)
(***************************************************************************)
LEMMA KeysHoldAtFirst ==
    ASSUME OnboardInit PROVE KeysInv
<1>1. /\ loose = {p \in DOMAIN Parsed("providers") : ~Stored(Parsed("providers")[p])}
      /\ existing = NoConfig /\ \A i \in Slot : ~Active(i)
  BY DEF OnboardInit, Active, Idle
<1>2. \A i \in Slot : ~Writing(i) /\ ~Busy(i, {"providers"})
  BY <1>1 DEF Writing, Busy, At
<1>3. KnownNames = DOMAIN secrets.entries
  BY <1>2 DEF KnownNames, Slot
<1>4. Backed(disk.providers.entries)
  BY <1>1, <1>3 DEF Backed, Parsed, Stored
<1>5. existing.providers = {}
  BY <1>1 DEF NoConfig
<1> QED
  BY <1>1, <1>2, <1>4, <1>5 DEF KeysInv

\* What a step has to show.
Renewed ==
    /\ loose \subseteq loose'
    /\ disk'.providers = disk.providers
       \/ Backed(disk.providers.entries)'
    /\ existing' = existing
       \/ \A x \in existing'.providers : x.stored => x.secret \in KnownNames'
    /\ \A j \in Slot : Busy(j, {"providers"})' =>
          (Busy(j, {"providers"}) /\ subs'[j].held = subs[j].held) \/ Backed(subs[j].held)'
    /\ \A j \in Slot : Active(j)' =>
          \/ Active(j) /\ subs'[j].state = subs[j].state /\ subs'[j].jobs = subs[j].jobs
          \/ Owed(j)'

LEMMA KeysAreKeptIf ==
    ASSUME KeysInv, Grows, Safe' /\ ~Lost' => Renewed
    PROVE  KeysInv'
<1> SUFFICES ASSUME Safe', ~Lost'
             PROVE  (/\ Backed(disk.providers.entries)
                     /\ \A x \in existing.providers : x.stored => x.secret \in KnownNames
                     /\ \A i \in Slot : Busy(i, {"providers"}) => Backed(subs[i].held)
                     /\ \A i \in Slot : Active(i) => Owed(i))'
  BY DEF KeysInv
<1>1. Safe /\ ~Lost /\ KnownNames \subseteq KnownNames'
  BY DEF Grows
<1>2. /\ Backed(disk.providers.entries)
      /\ \A x \in existing.providers : x.stored => x.secret \in KnownNames
      /\ \A i \in Slot : Busy(i, {"providers"}) => Backed(subs[i].held)
      /\ \A i \in Slot : Active(i) => Owed(i)
  BY <1>1 DEF KeysInv
<1>3. Renewed
  OBVIOUS
<1>4. Backed(disk.providers.entries)'
  BY <1>1, <1>2, <1>3 DEF Renewed, Backed
<1>5. \A x \in existing'.providers : x.stored => x.secret \in KnownNames'
  BY <1>1, <1>2, <1>3 DEF Renewed
<1>6. \A i \in Slot : Busy(i, {"providers"})' => Backed(subs[i].held)'
  BY <1>1, <1>2, <1>3 DEF Renewed, Backed
<1>7. \A i \in Slot : Active(i)' => Owed(i)'
  <2> SUFFICES ASSUME NEW i \in Slot, Active(i)' PROVE Owed(i)'
    OBVIOUS
  <2>1. CASE Active(i) /\ subs'[i].state = subs[i].state /\ subs'[i].jobs = subs[i].jobs
    BY <1>1, <1>2, <2>1 DEF Owed
  <2> QED
    BY <1>3, <2>1 DEF Renewed
<1> QED
  BY <1>4, <1>5, <1>6, <1>7

\* A job that is done takes its place out of what is owed.
LEMMA OwedAfterAJob ==
    ASSUME NEW i \in Slot, IsSetup(subs[i]), Owed(i), KnownNames \subseteq KnownNames',
           subs'[i].state = subs[i].state, subs'[i].jobs = Tail(subs[i].jobs),
           Job(i).job # "refuse", Job(i).job = "secret" => Job(i).name \in KnownNames'
    PROVE  Owed(i)'
<1> DEFINE q == subs[i].jobs
           r == Tail(q)
<1>1. IsSeq(q) /\ q # <<>>
  BY DEF IsSetup
<1>2. /\ IsSeq(r) /\ Len(r) = Len(q) - 1 /\ Len(q) \in Nat /\ Len(q) > 0 /\ Job(i) = q[1]
      /\ \A k \in 1..(Len(q) - 1) : r[k] = q[k + 1]
  BY <1>1, IsSeqTail DEF Job
<1>3. DOMAIN q = 1..Len(q) /\ DOMAIN r = 1..Len(r)
  BY <1>1, <1>2, IsSeqFacts
<1> SUFFICES ASSUME NEW p \in Chosen(subs[i].state), ~p.keep, SecretOf(p.id) \notin KnownNames'
             PROVE  \E k \in DOMAIN r : /\ r[k] = KeyJob(p)
                                       /\ \A l \in 1..k : r[l].job # "providers"
  BY DEF Owed
<1>4. PICK k \in DOMAIN q : q[k] = KeyJob(p) /\ \A l \in 1..k : q[l].job # "providers"
  BY DEF Owed
<1>5. k # 1
  <2> SUFFICES ASSUME k = 1 PROVE FALSE
    OBVIOUS
  <2>1. Job(i) = KeyJob(p)
    BY <1>2, <1>4
  <2>2. Job(i) = [job |-> "refuse"] \/ Job(i) = [job |-> "secret", name |-> SecretOf(p.id), value |-> p.key]
    BY <2>1 DEF KeyJob
  <2>3. Job(i).job = "secret" /\ Job(i).name = SecretOf(p.id)
    BY <2>2
  <2> QED
    BY <2>3
<1>6. k \in 1..Len(q)
  BY <1>3
<1> HIDE DEF q, r
<1>7. /\ k - 1 \in 1..Len(r) /\ r[k - 1] = q[k]
      /\ \A l \in 1..(k - 1) : l \in 1..(Len(q) - 1) /\ l + 1 \in 1..k
  BY <1>2, <1>5, <1>6
<1>8. \A l \in 1..(k - 1) : r[l].job # "providers"
  <2> SUFFICES ASSUME NEW l \in 1..(k - 1) PROVE r[l].job # "providers"
    OBVIOUS
  <2>1. r[l] = q[l + 1] /\ l + 1 \in 1..k
    BY <1>2, <1>7
  <2> QED
    BY <1>4, <2>1
<1> QED
  BY <1>3, <1>4, <1>7, <1>8

\* At the beginning all is owed.
LEMMA OwedAtTheStart ==
    ASSUME NEW i \in Slot, Started(i) PROVE Owed(i)'
<1> DEFINE s == subs'[i].state
           n == Len(s.providers)
<1>1. /\ IsSeq(s.providers) /\ IsSeq(s.channels)
      /\ subs'[i] = [at |-> "read", state |-> s, jobs |-> Jobs(s), held |-> Missing]
  BY DEF Started
<1> HIDE DEF s
<1>2. subs'[i].jobs = Jobs(s)
  BY <1>1
<1>3. /\ IsSeq(Jobs(s)) /\ n <= Len(Jobs(s)) /\ n \in Nat /\ Len(Jobs(s)) \in Nat
      /\ DOMAIN Jobs(s) = 1..Len(Jobs(s)) /\ DOMAIN s.providers = 1..n
      /\ \A k \in 1..n : Jobs(s)[k] = KeyJobs(s)[k]
  BY <1>1, JobsOfASetup, IsSeqFacts
<1>4. \A k \in 1..n : KeyJobs(s)[k].job # "providers"
  BY <1>3 DEF KeyJobs, KeyJob, Pass
<1> SUFFICES ASSUME NEW p \in Chosen(s)
             PROVE  \E k \in DOMAIN Jobs(s) :
                       /\ Jobs(s)[k] = KeyJob(p)
                       /\ \A l \in 1..k : Jobs(s)[l].job # "providers"
  BY <1>2 DEF Owed, s
<1>5. PICK k \in Kept(s) : p = s.providers[k]
  BY DEF Chosen
<1>6. k \in 1..n
  BY <1>3, <1>5 DEF Kept
<1>7. KeyJobs(s)[k] = KeyJob(p)
  BY <1>3, <1>5, <1>6 DEF KeyJobs
<1> HIDE DEF n
<1>8. k \in 1..Len(Jobs(s)) /\ \A l \in 1..k : l \in 1..n
  BY <1>3, <1>6
<1> QED
  BY <1>3, <1>4, <1>6, <1>7, <1>8

\* What setup writes into providers.toml: the keys of its providers are there.
LEMMA ProvidersAreBacked ==
    ASSUME OnboardShape, KeysInv, Safe, ~Lost, KnownNames \subseteq KnownNames',
           NEW i \in Slot, ConfigWrite(i), Job(i).job = "providers"
    PROVE  Backed(disk.providers.entries)'
<1> DEFINE s == subs[i].state
           old == subs[i].held
           new == saveProvidersConfig(old, s)
<1>1. At(i, "write", Configs) /\ Active(i) /\ IsSetup(subs[i])
  BY SetupStepKeepsTheShape DEF ConfigWrite
<1>2. /\ \A x \in existing.providers : x.stored => x.secret \in KnownNames
      /\ Backed(old) /\ Owed(i)
  <2>1. Busy(i, {"providers"})
    BY <1>1 DEF Busy, At
  <2> QED
    BY <1>1, <2>1 DEF KeysInv
<1>3. disk'.providers \in {TornFile, Whole(new)}
  <2>1. FileOf(Job(i).job) = "providers"
    BY DEF FileOf
  <2>2. PICK text \in Over(disk["providers"], Whole(Text("providers", old, s)), Whole(Empty)) :
            disk' = [disk EXCEPT !["providers"] = text]
    BY <2>1 DEF ConfigWrite
  <2>3. text \in {TornFile, Whole(new)}
    BY <2>2 DEF Over, Text
  <2>4. "providers" \in DOMAIN disk
    BY DEF OnboardShape, FILES
  <2> QED
    BY <2>2, <2>3, <2>4
<1>4. /\ loose \subseteq loose'
      /\ \A q \in Chosen(s) :
            q.keep /\ q.id \notin loose' => \E x \in Found(q.was) : x.stored /\ x.secret = SecretOf(q.id)
  <2>1. FileOf(Job(i).job) = "providers"
    BY DEF FileOf
  <2>2. loose' = loose \cup {p.id : p \in {q \in Chosen(s) :
                /\ q.keep
                /\ ~\E x \in Found(q.was) : x.stored /\ x.secret = SecretOf(q.id)}}
    BY <2>1 DEF ConfigWrite
  <2> QED
    BY <2>2
<1>5. /\ DOMAIN new = (DOMAIN old \ s.removed) \cup {p.id : p \in Chosen(s)}
      /\ \A p \in DOMAIN new : new[p] = IF p \in {q.id : q \in Chosen(s)} THEN SecretOf(p) ELSE old[p]
  BY DEF saveProvidersConfig, Assigned, Put
<1>6. Job(i) = subs[i].jobs[1] /\ \A k \in DOMAIN subs[i].jobs : 1 \in 1..k
  <2>1. IsSeq(subs[i].jobs) /\ subs[i].jobs # <<>>
    BY <1>1 DEF IsSetup
  <2>2. Head(subs[i].jobs) = subs[i].jobs[1] /\ DOMAIN subs[i].jobs = 1..Len(subs[i].jobs)
        /\ Len(subs[i].jobs) \in Nat
    BY <2>1, IsSeqTail, IsSeqFacts
  <2> QED
    BY <2>2 DEF Job
<1> HIDE DEF new
<1>7. ASSUME NEW p \in DOMAIN new \ loose' PROVE new[p] \in KnownNames
  <2>1. CASE p \in {q.id : q \in Chosen(s)}
    <3>1. PICK q \in Chosen(s) : q.id = p
      BY <2>1
    <3>2. new[p] = SecretOf(q.id)
      BY <1>5, <1>7, <2>1, <3>1
    <3>3. CASE q.keep
      <4>1. PICK x \in Found(q.was) : x.stored /\ x.secret = SecretOf(q.id)
        BY <1>4, <1>7, <3>1, <3>3
      <4> QED
        BY <1>2, <3>2, <4>1 DEF Found
    <3>4. CASE \E k \in DOMAIN subs[i].jobs :
                  /\ subs[i].jobs[k] = KeyJob(q)
                  /\ \A l \in 1..k : subs[i].jobs[l].job # "providers"
      BY <1>6, <3>4
    <3>5. CASE SecretOf(q.id) \in KnownNames
      BY <3>2, <3>5
    <3> QED
      BY <1>2, <3>3, <3>4, <3>5 DEF Owed
  <2>2. CASE p \notin {q.id : q \in Chosen(s)}
    <3>1. new[p] = old[p] /\ p \in DOMAIN old \ loose
      BY <1>4, <1>5, <1>7, <2>2
    <3> QED
      BY <1>2, <3>1 DEF Backed
  <2> QED
    BY <2>1, <2>2
<1>8. CASE disk'.providers = Whole(new)
  BY <1>7, <1>8 DEF Backed, Whole
<1>9. CASE disk'.providers = TornFile
  BY <1>9 DEF Backed, TornFile
<1> QED
  BY <1>3, <1>8, <1>9

LEMMA KeysAreKept ==
    ASSUME OnboardShape, StoreInv, KeysInv, [OnboardNext]_onboardVars PROVE KeysInv'
<1>0. Grows
  BY StoreIsKept
<1> SUFFICES ASSUME Safe', ~Lost' PROVE Renewed
  BY <1>0, KeysAreKeptIf
<1>1. Safe /\ ~Lost /\ KnownNames \subseteq KnownNames'
  BY <1>0 DEF Grows
<1>2. CASE Start
  <2>1. UNCHANGED <<disk, subs, loose>> /\ existing' = Existing
    BY <1>2 DEF Start, store, history
  <2>2. \A x \in existing'.providers : x.stored => x.secret \in KnownNames
    <3> SUFFICES ASSUME NEW x \in existing'.providers, x.stored PROVE x.secret \in KnownNames
      OBVIOUS
    <3>1. PICK p \in DOMAIN Parsed("providers") : x = Info(p)
      BY <2>1 DEF Existing
    <3>2. x.secret = Parsed("providers")[p] /\ x.stored = Stored(x.secret)
      BY <3>1 DEF Info
    <3>3. secrets.file = "whole" /\ x.secret \in DOMAIN secrets.entries
      <4>1. x.secret \in DOMAIN secrets.entries
        BY <3>2 DEF Stored
      <4>2. secrets.entries # Empty
        BY <4>1 DEF Empty
      <4>3. secrets \in [file : {"missing", "torn", "whole"}, entries : {secrets.entries}]
            /\ (secrets.file # "whole" => secrets.entries = Empty)
        BY DEF StoreInv
      <4> QED
        BY <4>1, <4>2, <4>3
    <3>4. CASE ~Writing(1)
      BY <3>3, <3>4 DEF KnownNames
    <3>5. CASE Writing(1)
      <4>1. alone
        BY <1>1, <3>5 DEF Safe, StoreInv, Slot
      <4>2. At(1, "cut", {"secret"})
        BY <3>3, <3>5, <4>1 DEF StoreInv, Writing, Busy
      <4>3. subs[1].held = secrets.entries
        BY <3>3, <4>1, <4>2 DEF StoreInv
      <4> QED
        BY <3>3, <3>5, <4>3 DEF KnownNames
    <3> QED
      BY <3>4, <3>5
  <2> QED
    BY <1>1, <2>1, <2>2, UnchangedSlots DEF Renewed
<1>3. CASE Page \/ UNCHANGED onboardVars
  <2>1. UNCHANGED <<disk, subs, loose, existing>>
    BY <1>3, PagesKeepAWizard DEF store, history, onboardVars
  <2> QED
    BY <2>1, UnchangedSlots DEF Renewed
<1>4. CASE Crash
  <2>1. UNCHANGED <<disk, loose, existing>>
    BY <1>4 DEF Crash, store
  <2>2. \A i \in Slot : subs'[i] = subs[i] \/ subs'[i] = Idle
    BY <1>4 DEF Crash
  <2>3. \A i \in Slot : Active(i)' => Active(i) /\ subs'[i] = subs[i]
    BY <2>2 DEF Active, Idle
  <2>4. \A i \in Slot : Busy(i, {"providers"})' => Busy(i, {"providers"}) /\ subs'[i] = subs[i]
    BY <2>3 DEF Busy, At, Job
  <2> QED
    BY <2>1, <2>3, <2>4 DEF Renewed
<1>5. CASE \E i \in Slot : Begins(i)
  <2>1. PICK i \in Slot : Started(i)
    BY <1>5, StartedWith
  <2>2. UNCHANGED <<disk, loose, existing>>
    BY <2>1 DEF Started, store
  <2>3. subs'[i].at = "read" /\ Owed(i)'
    BY <2>1, OwedAtTheStart DEF Started
  <2>4. \A j \in Slot \ {i} : Active(j)' => Active(j) /\ subs'[j] = subs[j]
    BY <2>1 DEF Started, Active, Idle
  <2>5. \A j \in Slot : Busy(j, {"providers"})' => Busy(j, {"providers"}) /\ subs'[j] = subs[j]
    BY <2>3, <2>4 DEF Busy, At, Job, Active
  <2> QED
    BY <2>2, <2>3, <2>4, <2>5 DEF Renewed
<1>6. ASSUME NEW i \in Slot, StepOf(i) PROVE Renewed
  <2>0. OthersStay(i) /\ Active(i) /\ IsSetup(subs[i]) /\ HaveSlots
    BY <1>6, SetupStepKeepsTheShape DEF StepOf, OnboardShape, HaveSlots
  <2>1. existing' = existing
    BY <1>6 DEF StepOf, Continue, Refuse, KeychainSet, SecretRead, SecretCut, SecretWrite,
                ConfigRead, ConfigCut, ConfigWrite, TemplateCheck, TemplateBackup, TemplateWrite,
                Finish, IoFails, Quiet
  <2>2. \A j \in Slot \ {i} :
           /\ Active(j)' => Active(j) /\ subs'[j] = subs[j]
           /\ Busy(j, {"providers"})' => Busy(j, {"providers"}) /\ subs'[j] = subs[j]
    BY <2>0 DEF OthersStay, Active, Busy, At, Job
  <2>3. Owed(i)
    BY <1>1, <2>0 DEF KeysInv
  \* The slot's own part, by what becomes of it.
  <2>4. ASSUME Fail(i)
        PROVE  ~Active(i)' /\ ~Busy(i, {"providers"})'
    BY <2>0, <2>4, Fails DEF Busy, At
  <2>5. ASSUME Pop(i), Job(i).job # "refuse", Job(i).job = "secret" => Job(i).name \in KnownNames'
        PROVE  Owed(i)' /\ ~Busy(i, {"providers"})'
    <3>1. /\ subs'[i].state = subs[i].state /\ subs'[i].jobs = Tail(subs[i].jobs)
          /\ subs'[i].at \in {"read", "done"}
      BY <2>0, <2>5, DoesAJob
    <3>2. Owed(i)'
      BY <1>1, <2>0, <2>3, <2>5, <3>1, OwedAfterAJob
    <3> QED
      BY <3>1, <3>2 DEF Busy, At
  <2>6. ASSUME NEW at \in {"cut", "write", "end"}, NEW held, Go(i, at, held)
        PROVE  /\ subs'[i].state = subs[i].state /\ subs'[i].jobs = subs[i].jobs
               /\ subs'[i].held = held /\ Job(i)' = Job(i)
    BY <2>0, <2>6, GoesOn DEF Job
  \* Together.
  <2>7. ASSUME loose \subseteq loose',
               disk'.providers = disk.providers
                  \/ Backed(disk.providers.entries)',
               Busy(i, {"providers"})' =>
                  \/ Busy(i, {"providers"}) /\ subs'[i].held = subs[i].held
                  \/ Backed(subs[i].held)',
               Active(i)' =>
                  \/ Active(i) /\ subs'[i].state = subs[i].state /\ subs'[i].jobs = subs[i].jobs
                  \/ Owed(i)'
        PROVE  Renewed
    BY <2>1, <2>2, <2>7 DEF Renewed
  <2>8. CASE Refuse(i) \/ IoFails(i)
    <3>1. Fail(i) /\ UNCHANGED <<disk, loose>>
      BY <2>8 DEF Refuse, IoFails, store
    <3> QED
      BY <2>4, <2>7, <3>1
  <2>9. CASE Continue(i) \/ Finish(i)
    <3>1. /\ Pop(i) /\ UNCHANGED <<disk, loose>>
          /\ Job(i).job # "refuse" /\ Job(i).job # "secret"
      BY <2>9 DEF Continue, Finish, At, store, history
    <3> QED
      BY <2>5, <2>7, <3>1
  <2>10. CASE KeychainSet(i) \/ SecretRead(i) \/ SecretCut(i) \/ SecretWrite(i)
    <3>1. UNCHANGED <<disk, loose>> /\ Job(i).job = "secret"
      BY <2>10 DEF KeychainSet, SecretRead, SecretCut, SecretWrite, At
    <3>2. Pop(i) => Job(i).name \in KnownNames'
      BY <2>10, StoreIsWritten
    <3>3. CASE Pop(i)
      <4>1. Owed(i)' /\ ~Busy(i, {"providers"})'
        BY <2>5, <3>1, <3>2, <3>3
      <4> QED
        BY <2>7, <3>1, <4>1
    <3>4. CASE Fail(i)
      BY <2>4, <2>7, <3>1, <3>4
    <3>5. CASE \E at \in {"cut", "write", "end"} : \E held : Go(i, at, held)
      <4>1. /\ subs'[i].state = subs[i].state /\ subs'[i].jobs = subs[i].jobs
            /\ Job(i)' = Job(i)
        BY <2>6, <3>5
      <4>2. ~Busy(i, {"providers"})'
        BY <3>1, <4>1 DEF Busy, At
      <4> QED
        BY <2>0, <2>7, <3>1, <4>1, <4>2
    <3> QED
      BY <2>10, <3>3, <3>4, <3>5 DEF KeychainSet, SecretRead, SecretCut, SecretWrite
  <2>11. CASE TemplateCheck(i) \/ TemplateBackup(i) \/ TemplateWrite(i)
    <3>1. /\ UNCHANGED <<disk, loose>> /\ Job(i).job = "templates"
          /\ \E at \in {"cut", "write", "end"} : \E held : Go(i, at, held)
      BY <2>11 DEF TemplateCheck, TemplateBackup, TemplateWrite, At
    <3>2. /\ subs'[i].state = subs[i].state /\ subs'[i].jobs = subs[i].jobs
          /\ Job(i)' = Job(i)
      BY <2>6, <3>1
    <3>3. ~Busy(i, {"providers"})'
      BY <3>1, <3>2 DEF Busy, At
    <3> QED
      BY <2>0, <2>7, <3>1, <3>2, <3>3
  <2>12. CASE ConfigRead(i)
    <3> DEFINE f == FileOf(Job(i).job)
    <3>1. UNCHANGED <<disk, loose>>
      BY <2>12 DEF ConfigRead
    <3>2. CASE disk[f].file = "torn"
      <4>1. Fail(i)
        BY <2>12, <3>2 DEF ConfigRead
      <4> QED
        BY <2>4, <2>7, <3>1, <4>1
    <3>3. CASE disk[f].file # "torn"
      <4>1. Go(i, "cut", Parsed(f))
        BY <2>12, <3>3 DEF ConfigRead
      <4>2. /\ subs'[i].state = subs[i].state /\ subs'[i].jobs = subs[i].jobs
            /\ subs'[i].held = Parsed(f) /\ Job(i)' = Job(i)
        BY <2>6, <4>1
      <4>3. Busy(i, {"providers"})' => Job(i).job = "providers"
        BY <4>2 DEF Busy, At
      <4>4. ASSUME Job(i).job = "providers" PROVE Backed(subs[i].held)'
        <5>1. f = "providers"
          BY <4>4 DEF FileOf
        <5>2. subs'[i].held = disk.providers.entries
          BY <4>2, <5>1 DEF Parsed
        <5>3. Backed(disk.providers.entries)
          BY <1>1 DEF KeysInv
        <5> QED
          BY <1>1, <3>1, <5>2, <5>3 DEF Backed
      <4> QED
        BY <2>0, <2>7, <3>1, <4>2, <4>3, <4>4
    <3> QED
      BY <3>2, <3>3
  <2>13. CASE ConfigCut(i)
    <3> DEFINE f == FileOf(Job(i).job)
    <3>1. /\ At(i, "cut", Configs) /\ disk' = [disk EXCEPT ![f] = Whole(Empty)]
          /\ Go(i, "write", subs[i].held) /\ loose' = loose
      BY <2>13 DEF ConfigCut
    <3>2. /\ subs'[i].state = subs[i].state /\ subs'[i].jobs = subs[i].jobs
          /\ subs'[i].held = subs[i].held /\ Job(i)' = Job(i)
      BY <2>6, <3>1
    <3>3. Busy(i, {"providers"})' => Busy(i, {"providers"})
      BY <2>0, <3>1, <3>2 DEF Busy, At
    <3>4. disk'.providers = disk.providers \/ disk'.providers.entries = Empty
      BY <3>1 DEF OnboardShape, FILES, Whole
    <3>5. disk'.providers.entries = Empty => Backed(disk.providers.entries)'
      BY DEF Backed, Empty
    <3> QED
      BY <2>0, <2>7, <3>1, <3>2, <3>3, <3>4, <3>5
  <2>14. CASE ConfigWrite(i)
    <3>1. At(i, "write", Configs) /\ Pop(i)
      BY <2>14 DEF ConfigWrite
    <3>2. Job(i).job # "refuse" /\ Job(i).job # "secret"
      BY <3>1 DEF At, Configs
    <3>3. Owed(i)' /\ ~Busy(i, {"providers"})'
      BY <2>5, <3>1, <3>2
    <3>4. loose \subseteq loose'
      BY <2>14 DEF ConfigWrite
    <3>5. CASE Job(i).job = "providers"
      <4>1. Backed(disk.providers.entries)'
        BY <1>1, <2>14, <3>5, ProvidersAreBacked
      <4> QED
        BY <2>7, <3>3, <3>4, <4>1
    <3>6. CASE Job(i).job # "providers"
      <4>1. FileOf(Job(i).job) # "providers"
        BY <3>6 DEF FileOf
      <4>2. disk'.providers = disk.providers
        BY <2>14, <4>1 DEF ConfigWrite, OnboardShape, FILES
      <4> QED
        BY <2>7, <3>3, <3>4, <4>2
    <3> QED
      BY <3>5, <3>6
  <2> QED
    BY <1>6, <2>8, <2>9, <2>10, <2>11, <2>12, <2>13, <2>14 DEF StepOf
<1>7. CASE SetupStep \/ \E i \in Slot : IoFails(i)
  BY <1>6, <1>7 DEF SetupStep, StepOf
<1> QED
  BY <1>2, <1>3, <1>4, <1>5, <1>7 DEF OnboardNext, Begins

(***************************************************************************)
(* The theorems.                                                           *)
(***************************************************************************)
OnboardInv == OnboardShape /\ TextInv /\ StoreInv /\ KeysInv

\* What the theorems below rest on holds in every state.
THEOREM OnboardInvariant == OnboardSpec => []OnboardInv
<1>1. OnboardInit => OnboardInv
  BY ShapeHoldsAtFirst, TextHoldsAtFirst, StoreHoldsAtFirst, KeysHoldAtFirst DEF OnboardInv
<1>2. OnboardInv /\ [OnboardNext]_onboardVars => OnboardInv'
  BY ShapeIsKept, TextIsKept, StoreIsKept, KeysAreKept DEF OnboardInv
<1> QED
  BY <1>1, <1>2, PTL DEF OnboardSpec

\* The user's own guidance text is in place or in the backup, through every step of the
\* copy, until a second backup is made or the user has it written over.
THEOREM TextSurvives == OnboardSpec => []TextSurvivesABackup
<1>1. OnboardInv => TextSurvivesABackup
  <2> SUFFICES ASSUME TextInv, backups <= 1 PROVE "user" \in {guide.file, guide.bak}
    BY DEF OnboardInv, TextSurvivesABackup
  <2>1. backups \in Nat
    BY DEF TextInv
  <2>2. backups = 0 \/ backups = 1
    BY <2>1
  <2> QED
    BY <2>2 DEF TextInv
<1> QED
  BY <1>1, OnboardInvariant, PTL

\* A provider that providers.toml names has its key in the store, whatever step failed,
\* whenever the process died and however often setup was run.
THEOREM CredentialsStayStored == OnboardSpec => []CredentialsAreStored
<1>1. OnboardInv => CredentialsAreStored
  <2> SUFFICES ASSUME OnboardInv, Safe, secrets.file # "torn",
                      NEW p \in DOMAIN Parsed("providers") \ loose
               PROVE  Stored(Parsed("providers")[p])
    BY DEF CredentialsAreStored, Safe
  <2>1. ~Lost
    BY DEF Lost
  <2>2. Parsed("providers")[p] \in KnownNames
    BY <2>1 DEF OnboardInv, KeysInv, Backed, Parsed
  <2>3. KnownNames = DOMAIN secrets.entries
    <3>1. CASE ~Writing(1)
      BY <3>1 DEF KnownNames
    <3>2. CASE Writing(1)
      <4>1. alone
        BY <3>2 DEF OnboardInv, StoreInv, Safe, Slot
      <4>2. subs[1].held = secrets.entries
        BY <3>2, <4>1 DEF OnboardInv, StoreInv, Writing, Busy
      <4> QED
        BY <3>2, <4>2 DEF KnownNames
    <3> QED
      BY <3>1, <3>2
  <2> QED
    BY <2>2, <2>3 DEF Stored
<1> QED
  BY <1>1, OnboardInvariant, PTL

(***************************************************************************)
(* The wizard's list.                                                      *)
(***************************************************************************)
IsProvider(p) ==
    p \in [id : {p.id}, custom : {p.custom}, was : {p.was}, key : {p.key}, keep : {p.keep},
           models : {p.models}]
\* No two entries of one id.
Distinct(q) == \A j, k \in DOMAIN q : q[j].id = q[k].id => j = k
IsForm(f) ==
    /\ f \in [step : {"common", "auth", "models"}, at : {f.at}, work : {f.work},
              stored : {f.stored}]
    /\ IsProvider(f.work)
\* The id of a form is that of its entry, or a new one.
Fits(f, q) == \A j \in DOMAIN q : q[j].id = f.work.id => j = f.at

ListInv ==
    /\ \A x, y \in existing.providers : x.id = y.id => x = y
    /\ wiz # Off => /\ \A k \in DOMAIN wiz.providers : IsProvider(wiz.providers[k])
                    /\ Distinct(wiz.providers)
    /\ form # NoForm => IsForm(form) /\ Fits(form, wiz.providers)

(***************************************************************************)
(* What is saved.                                                          *)
(***************************************************************************)
\* One job comes right after another, or before it.
Then(q, a, b) == \A l \in DOMAIN q : q[l].job = a => l + 1 \in DOMAIN q /\ q[l + 1].job = b
Before(q, a, b) == \A k, l \in DOMAIN q : q[k].job = a /\ q[l].job = b => k < l
Ordered(q, s) ==
    /\ Then(q, "providers", "models") /\ Before(q, "providers", "models")
    /\ s.pulse => Then(q, "preferences", "pulse")
    /\ \A l \in DOMAIN q : q[l].job = "secret" =>
          (\E p \in Chosen(s) : q[l] = KeyJob(p)) \/ q[l].name[2] # "api-key"

\* While no two setups have met there is one, that runs or has just succeeded.
There == Active(1) \/ subs[1].at = "done"
Asks == subs[1].state
ToDo(job) == \E l \in DOMAIN subs[1].jobs : subs[1].jobs[l].job = job
\* What a file holds, or the setup that has emptied it; and the secrets.
Emptied(f) == At(1, "write", Configs) /\ FileOf(Job(1).job) = f
Now(f) == IF Emptied(f) THEN subs[1].held ELSE disk[f].entries
Hand == IF Writing(1) THEN subs[1].held ELSE secrets.entries

RunInv ==
    /\ subs[2] = Idle
    /\ \A f \in FILES : IsFile(disk[f])
    /\ There => /\ Ordered(subs[1].jobs, Asks) /\ Distinct(Asks.providers)
                /\ IsSeq(Asks.providers)
                /\ Asks.exact \/ Asks.removed = {}
    /\ subs[1].at = "done" => subs[1].jobs = <<>>
    /\ At(1, "cut", Configs) => subs[1].held = disk[FileOf(Job(1).job)].entries
    /\ At(1, "write", Configs) => disk[FileOf(Job(1).job)] = Whole(Empty)

\* Every model has its provider, but for those that go with their providers, until the
\* models are written.
Between == Active(1) /\ Job(1).job = "models"
ModelInv ==
    ~halfway =>
        \A m \in DOMAIN Now("models") :
            \/ Now("models")[m] \in DOMAIN Now("providers")
            \/ Between /\ Now("models")[m] \in Asks.removed

HasPulse(f) == f = Empty \/ "pulse" \in DOMAIN f

\* A file whose job is done holds what was chosen.
ProvidersIn(f, s) ==
    /\ \A p \in Chosen(s) : p.id \in DOMAIN f
    /\ s.removed \cap DOMAIN f = {}
ModelsIn(f, s) ==
    /\ \A m \in DOMAIN PutModels(s) : m \in DOMAIN f /\ f[m] = PutModels(s)[m]
    /\ s.exact => \A m \in DOMAIN f, p \in Chosen(s) : f[m] = p.id => m \in p.models
ChannelsIn(f, s) == \A j \in KeptChannels(s) : s.channels[j].id \in DOMAIN f
\* A key is stored, or its job is to come.
KeyIsComing(p) ==
    \/ \E l \in DOMAIN subs[1].jobs : subs[1].jobs[l] = KeyJob(p)
    \/ SecretOf(p.id) \in DOMAIN Hand /\ Hand[SecretOf(p.id)] = p.key
SavedInv ==
    There =>
        /\ \A p \in Chosen(Asks) : p.keep \/ KeyIsComing(p)
        /\ ToDo("providers") \/ ProvidersIn(disk.providers.entries, Asks)
        /\ ToDo("models") \/ ModelsIn(disk.models.entries, Asks)
        /\ Asks.channels = <<>> \/ ToDo("channels") \/ ChannelsIn(disk.channels.entries, Asks)
        /\ ~Asks.pulse \/ ToDo("pulse") \/ disk.preferences.entries.pulse

SoloInv == alone => RunInv /\ ModelInv /\ HasPulse(Now("preferences")) /\ SavedInv

(***************************************************************************)
(* The wizard's list holds no id twice.                                    *)
(***************************************************************************)
\* What a finite set is listed as.
LEMMA ListsEachOnce ==
    ASSUME NEW S, IsFiniteSet(S)
    PROVE  /\ Cardinality(S) \in Nat
           /\ \A k \in 1..Cardinality(S) : SetToSeq(S)[k] \in S
           /\ \A j, k \in 1..Cardinality(S) : SetToSeq(S)[j] = SetToSeq(S)[k] => j = k
<1> DEFINE D == 1..Cardinality(S)
<1>1. Cardinality(S) \in Nat /\ ExistsBijection(D, S)
  BY FS_CardinalityType
<1>2. PICK g : g \in Bijection(D, S)
  BY <1>1 DEF ExistsBijection
<1>3. g \in [D -> S] /\ \A j, k \in D : g[j] = g[k] => j = k
  BY <1>2 DEF Bijection, Injection, IsInjective
<1>4. \E f \in [D -> S] : IsInjective(f)
  BY <1>3 DEF IsInjective
<1>5. SetToSeq(S) \in [D -> S] /\ IsInjective(SetToSeq(S))
  BY <1>4 DEF SetToSeq
<1> QED
  BY <1>1, <1>5 DEF IsInjective

LEMMA MountedIsDistinct ==
    ASSUME NEW e, IsFiniteSet(e.providers), \A x, y \in e.providers : x.id = y.id => x = y,
           NEW w, IsWizard(w),
           \A k \in DOMAIN w.providers : IsProvider(w.providers[k]), Distinct(w.providers)
    PROVE  /\ \A k \in DOMAIN Mounted(e, w).providers : IsProvider(Mounted(e, w).providers[k])
           /\ Distinct(Mounted(e, w).providers)
<1> DEFINE n == Cardinality(e.providers)
           q == ProviderInstances(e)
<1>1. Mounted(e, w).providers \in {q, w.providers}
  BY DEF Mounted, IsWizard
<1>2. /\ \A k \in 1..n : SetToSeq(e.providers)[k] \in e.providers
      /\ \A j, k \in 1..n : SetToSeq(e.providers)[j] = SetToSeq(e.providers)[k] => j = k
  BY ListsEachOnce
<1>3. /\ DOMAIN q = 1..n
      /\ \A k \in 1..n : q[k] = ProviderInstance(e, SetToSeq(e.providers)[k])
  BY DEF ProviderInstances
<1>4. \A x : IsProvider(ProviderInstance(e, x)) /\ ProviderInstance(e, x).id = x.id
  BY DEF ProviderInstance, IsProvider
<1> HIDE DEF q, n
<1>5. \A k \in DOMAIN q : IsProvider(q[k])
  BY <1>3, <1>4
<1>6. Distinct(q)
  <2> SUFFICES ASSUME NEW j \in 1..n, NEW k \in 1..n, q[j].id = q[k].id PROVE j = k
    BY <1>3 DEF Distinct
  <2>1. SetToSeq(e.providers)[j].id = SetToSeq(e.providers)[k].id
    BY <1>3, <1>4
  <2> QED
    BY <1>2, <2>1
<1> QED
  BY <1>1, <1>5, <1>6

LEMMA ExistingIsDistinct == \A x, y \in Existing.providers : x.id = y.id => x = y
<1> SUFFICES ASSUME NEW x \in Existing.providers, NEW y \in Existing.providers, x.id = y.id
             PROVE  x = y
  OBVIOUS
<1>1. PICK p \in DOMAIN Parsed("providers"), r \in DOMAIN Parsed("providers") :
          x = Info(p) /\ y = Info(r)
  BY DEF Existing
<1> QED
  BY <1>1 DEF Info

\* A provider whose form is submitted takes its own place, or a new one.
LEMMA SubmittedIsDistinct ==
    ASSUME NEW q, IsSeq(q), Distinct(q), \A k \in DOMAIN q : IsProvider(q[k]),
           NEW p, IsProvider(p), NEW at, \A j \in DOMAIN q : q[j].id = p.id => j = at,
           NEW r, r = IF at = 0 THEN Append(q, p) ELSE [q EXCEPT ![at] = p]
    PROVE  Distinct(r) /\ \A k \in DOMAIN r : IsProvider(r[k])
<1>1. Len(q) \in Nat /\ DOMAIN q = 1..Len(q)
  BY IsSeqFacts
<1>2. CASE at = 0
  <2> DEFINE S == {q[k] : k \in DOMAIN q} \cup {p}
  <2>1. q \in Seq(S)
    <3>1. q \in Seq({q[k] : k \in DOMAIN q})
      BY DEF IsSeq
    <3> DEFINE T == {q[k] : k \in DOMAIN q}
    <3>2. q \in Seq(T) /\ T \subseteq S
      BY <3>1
    <3> HIDE DEF T, S
    <3>3. q \in [1..Len(q) -> T]
      BY <3>2
    <3>4. q \in [1..Len(q) -> S]
      BY <3>2, <3>3
    <3> QED
      BY <1>1, <3>4
  <2>2. p \in S
    OBVIOUS
  <2> HIDE DEF S
  <2>3. DOMAIN r = 1..(Len(q) + 1) /\ r[Len(q) + 1] = p /\ \A k \in 1..Len(q) : r[k] = q[k]
    BY <1>1, <1>2, <2>1, <2>2
  <2>4. \A k \in DOMAIN r : k \in DOMAIN q \/ k = Len(q) + 1
    BY <1>1, <2>3
  <2>5. \A k \in DOMAIN q : q[k].id # p.id
    BY <1>1, <1>2
  <2> QED
    BY <1>1, <2>3, <2>4, <2>5 DEF Distinct
<1>3. CASE at # 0
  <2>1. DOMAIN r = DOMAIN q /\ \A k \in DOMAIN q : r[k] = IF k = at THEN p ELSE q[k]
    BY <1>1, <1>3
  <2> QED
    BY <2>1 DEF Distinct
<1> QED
  BY <1>2, <1>3

\* The form of an entry, or of a new one.
LEMMA FormIsOpened ==
    ASSUME NEW at, NEW p, IsProvider(p), NEW stored
    PROVE  /\ IsForm(Form(at, p, stored)) /\ Form(at, p, stored).at = at
           /\ Form(at, p, stored).work = p
  BY DEF IsForm, Form, FormStep

\* What is typed into it.
LEMMA ProviderIsFilled ==
    ASSUME NEW p, IsProvider(p), NEW x
    PROVE  /\ IsProvider([p EXCEPT !.id = x]) /\ [p EXCEPT !.id = x].id = x
           /\ IsProvider([p EXCEPT !.keep = x]) /\ [p EXCEPT !.keep = x].id = p.id
           /\ IsProvider([p EXCEPT !.key = x]) /\ [p EXCEPT !.key = x].id = p.id
           /\ IsProvider([p EXCEPT !.models = x]) /\ [p EXCEPT !.models = x].id = p.id
<1>1. p \in [id : {p.id}, custom : {p.custom}, was : {p.was}, key : {p.key}, keep : {p.keep},
             models : {p.models}]
  BY DEF IsProvider
<1> QED
  BY <1>1 DEF IsProvider

LEMMA ListHoldsAtFirst == ASSUME OnboardInit PROVE ListInv
  BY DEF OnboardInit, ListInv, NoConfig

\* A form that a page fills in: the wizard's list stays.
LEMMA FormIsEdited ==
    ASSUME ListInv, UNCHANGED <<existing, wiz>>, form # NoForm,
           NEW step \in {"common", "auth", "models"}, NEW p, IsProvider(p),
           form' = [form EXCEPT !.step = step, !.work = p],
           p.id = form.work.id \/ \A j \in DOMAIN wiz.providers : wiz.providers[j].id = p.id => j = form.at
    PROVE  ListInv'
<1>1. IsForm(form) /\ Fits(form, wiz.providers)
  BY DEF ListInv
<1>2. IsForm(form') /\ form'.at = form.at /\ form'.work = p
  <2>1. form \in [step : {"common", "auth", "models"}, at : {form.at}, work : {form.work},
                  stored : {form.stored}]
    BY <1>1 DEF IsForm
  <2>2. /\ form' \in [step : {"common", "auth", "models"}, at : {form.at}, work : {p},
                       stored : {form.stored}]
        /\ form'.at = form.at /\ form'.work = p /\ form'.stored = form.stored
    BY <2>1
  <2> QED
    BY <2>2 DEF IsForm
<1>3. Fits(form', wiz.providers)
  BY <1>1, <1>2 DEF Fits
<1> QED
  BY <1>2, <1>3 DEF ListInv

LEMMA FormsKeepTheList ==
    ASSUME OnboardShape, ListInv,
           \/ \E slug \in Slugs : SubmitCommonFields(slug)
           \/ ToggleKeepExistingApiKey
           \/ \E key \in {"", "new"} : SubmitAuth(key)
           \/ \E m \in Models : ToggleModel(m) \/ AddModel(m)
    PROVE  ListInv'
<1>1. form # NoForm /\ UNCHANGED <<existing, wiz>>
  <2>1. form.step \in {"common", "auth", "models"}
    <3>1. \A x : /\ SubmitCommonFields(x) => form.step = "common"
                 /\ SubmitAuth(x) => form.step = "auth"
                 /\ ToggleModel(x) => form.step = "models"
                 /\ AddModel(x) => form.step = "models"
      BY DEF SubmitCommonFields, SubmitAuth, ToggleModel, AddModel
    <3>2. ToggleKeepExistingApiKey => form.step = "auth"
      BY DEF ToggleKeepExistingApiKey
    <3> QED
      BY <3>1, <3>2
  <2>2. form # NoForm
    <3>1. NoForm.step = "list"
      BY DEF NoForm
    <3> QED
      BY <2>1, <3>1
  <2>3. UNCHANGED <<existing, wiz>>
    BY DEF SubmitCommonFields, ToggleKeepExistingApiKey, SubmitAuth, ToggleModel, AddModel
  <2> QED
    BY <2>2, <2>3
<1>2. IsForm(form) /\ IsProvider(form.work)
  BY <1>1 DEF ListInv, IsForm
<1>3. form.step \in {"common", "auth", "models"} /\ form = [form EXCEPT !.step = form.step]
  BY <1>2 DEF IsForm
<1>4. CASE \E slug \in Slugs : SubmitCommonFields(slug)
  <2>1. PICK slug \in Slugs : SubmitCommonFields(slug)
    BY <1>4
  <2> DEFINE p == [form.work EXCEPT !.id = slug]
  <2>2. IsProvider(p) /\ p.id = slug
    BY <1>2, ProviderIsFilled
  <2>3. form' = [form EXCEPT !.step = "auth", !.work = p]
    BY <2>1 DEF SubmitCommonFields
  <2>4. \A j \in DOMAIN wiz.providers : wiz.providers[j].id = slug => j = form.at
    BY <2>1 DEF SubmitCommonFields, ValidSlug
  <2> HIDE DEF p
  <2> QED
    BY <1>1, <2>2, <2>3, <2>4, FormIsEdited
<1>5. CASE ToggleKeepExistingApiKey
  <2> DEFINE p == [form.work EXCEPT !.keep = ~form.work.keep]
  <2>1. IsProvider(p) /\ p.id = form.work.id
    BY <1>2, ProviderIsFilled
  <2>2. form' = [form EXCEPT !.step = form.step, !.work = p]
    BY <1>2, <1>5 DEF ToggleKeepExistingApiKey, IsForm
  <2> HIDE DEF p
  <2> QED
    BY <1>1, <1>3, <2>1, <2>2, FormIsEdited
<1>6. CASE \E key \in {"", "new"} : SubmitAuth(key)
  <2>1. PICK key \in {"", "new"} : SubmitAuth(key)
    BY <1>6
  <2> DEFINE p == [form.work EXCEPT !.key = key]
  <2>2. IsProvider(p) /\ p.id = form.work.id
    BY <1>2, ProviderIsFilled
  <2>3. form' = [form EXCEPT !.step = "models", !.work = p]
    BY <2>1 DEF SubmitAuth
  <2> HIDE DEF p
  <2> QED
    BY <1>1, <2>2, <2>3, FormIsEdited
<1>7. CASE \E m \in Models : ToggleModel(m) \/ AddModel(m)
  <2>1. PICK x : form' = [form EXCEPT !.work.models = x]
    <3>1. PICK m \in Models : ToggleModel(m) \/ AddModel(m)
      BY <1>7
    <3>2. CASE ToggleModel(m)
      BY <3>2 DEF ToggleModel
    <3>3. CASE AddModel(m)
      BY <3>3 DEF AddModel
    <3> QED
      BY <3>1, <3>2, <3>3
  <2> DEFINE p == [form.work EXCEPT !.models = x]
  <2>2. IsProvider(p) /\ p.id = form.work.id
    BY <1>2, ProviderIsFilled
  <2>3. form' = [form EXCEPT !.step = form.step, !.work = p]
    BY <1>2, <2>1 DEF IsForm
  <2> HIDE DEF p
  <2> QED
    BY <1>1, <1>3, <2>2, <2>3, FormIsEdited
<1> QED
  BY <1>4, <1>5, <1>6, <1>7

\* The form that an entry, or a node of the selector, opens.
LEMMA OpeningKeepsTheList ==
    ASSUME OnboardShape, ListInv,
           (\E i \in 1..4 : EditProvider(i)) \/ (\E c \in Builtin \cup Slugs \cup {"custom"} : SelectProvider(c))
    PROVE  ListInv'
<1>1. wiz # Off /\ UNCHANGED <<existing, wiz>>
  BY DEF EditProvider, SelectProvider, On
<1>2. (\A k \in DOMAIN wiz.providers : IsProvider(wiz.providers[k])) /\ Distinct(wiz.providers)
  BY <1>1 DEF ListInv
<1>3. ASSUME NEW i \in DOMAIN wiz.providers, NEW stored, form' = Form(i, wiz.providers[i], stored)
      PROVE  ListInv'
  <2>1. IsForm(form') /\ form'.at = i /\ form'.work = wiz.providers[i]
    BY <1>2, <1>3, FormIsOpened
  <2>2. Fits(form', wiz.providers)
    BY <1>2, <2>1 DEF Fits, Distinct
  <2> QED
    BY <1>1, <2>1, <2>2 DEF ListInv
<1>4. CASE \E i \in 1..4 : EditProvider(i)
  BY <1>3, <1>4 DEF EditProvider
<1>5. ASSUME NEW c, SelectProvider(c) PROVE ListInv'
  <2> DEFINE same == {i \in DOMAIN wiz.providers : wiz.providers[i].id = c}
             new == [id |-> c, custom |-> c \notin Builtin,
                     was |-> IF Found(c) = {} THEN Missing ELSE c, key |-> "",
                     keep |-> HasStored(c), models |-> {}]
  <2>1. form' = IF same = {} THEN Form(0, new, HasStored(c))
                ELSE LET i == CHOOSE i \in same : TRUE IN Form(i, wiz.providers[i], HasStored(c))
    BY <1>5 DEF SelectProvider
  <2>2. CASE same = {}
    <3>1. IsProvider(new) /\ new.id = c
      BY DEF IsProvider
    <3>2. form' = Form(0, new, HasStored(c))
      BY <2>1, <2>2
    <3>3. \A j \in DOMAIN wiz.providers : wiz.providers[j].id # c
      BY <2>2
    <3> HIDE DEF new, same
    <3>4. IsForm(form') /\ form'.work = new
      BY <3>1, <3>2, FormIsOpened
    <3>5. Fits(form', wiz.providers)
      BY <3>1, <3>3, <3>4 DEF Fits
    <3> QED
      BY <1>1, <3>4, <3>5 DEF ListInv
  <2>3. CASE same # {}
    <3> DEFINE i == CHOOSE i \in same : TRUE
    <3>1. i \in same
      BY <2>3
    <3>2. i \in DOMAIN wiz.providers /\ form' = Form(i, wiz.providers[i], HasStored(c))
      BY <2>1, <2>3, <3>1
    <3> HIDE DEF i
    <3> QED
      BY <1>3, <3>2
  <2> QED
    BY <2>2, <2>3
<1> QED
  BY <1>4, <1>5

LEMMA SubmittingKeepsTheList ==
    ASSUME OnboardShape, ListInv, SubmitModels PROVE ListInv'
<1>1. form # NoForm
  BY DEF SubmitModels, NoForm
<1>2. wiz # Off /\ IsWizard(wiz)
  BY <1>1 DEF OnboardShape
<1>3. /\ IsSeq(wiz.providers) /\ Distinct(wiz.providers)
      /\ \A k \in DOMAIN wiz.providers : IsProvider(wiz.providers[k])
      /\ IsProvider(form.work) /\ Fits(form, wiz.providers)
  BY <1>1, <1>2 DEF ListInv, IsWizard, IsForm
<1> DEFINE r == IF form.at = 0 THEN Append(wiz.providers, form.work)
                ELSE [wiz.providers EXCEPT ![form.at] = form.work]
<1>4. Distinct(r) /\ \A k \in DOMAIN r : IsProvider(r[k])
  BY <1>3, SubmittedIsDistinct DEF Fits
<1>5. wiz'.providers = r
  BY <1>2 DEF SubmitModels, IsWizard
<1>6. form' = NoForm /\ existing' = existing
  BY DEF SubmitModels
<1> HIDE DEF r
<1> QED
  BY <1>4, <1>5, <1>6 DEF ListInv

\* A page takes its list again when it is shown.
LEMMA MovingKeepsTheList ==
    ASSUME OnboardShape, ListInv, NextPage \/ Back PROVE ListInv'
<1>1. wiz # Off /\ form = NoForm /\ form' = NoForm /\ existing' = existing
  BY DEF NextPage, Back
<1>2. IsWizard(wiz) /\ IsFiniteSet(existing.providers)
  BY <1>1 DEF OnboardShape
<1>3. PICK w : IsWizard(w) /\ w.providers = wiz.providers /\ wiz' = Mounted(existing, w)
  <2>1. CASE NextPage
    <3>1. PICK y : wiz' = Mounted(existing, [wiz EXCEPT !.page = wiz.page + 1, !.pulse = y])
      BY <2>1 DEF NextPage
    <3>2. [wiz EXCEPT !.page = wiz.page + 1, !.pulse = y].providers = wiz.providers
      BY <1>2 DEF IsWizard
    <3> QED
      BY <1>2, <3>1, <3>2, WizardIsEdited
  <2>2. CASE Back
    <3>1. wiz' = Mounted(existing, [wiz EXCEPT !.page = wiz.page - 1])
      BY <2>2 DEF Back
    <3>2. [wiz EXCEPT !.page = wiz.page - 1].providers = wiz.providers
      BY <1>2 DEF IsWizard
    <3> QED
      BY <1>2, <3>1, <3>2, WizardIsEdited
  <2> QED
    BY <2>1, <2>2
<1>4. /\ \A k \in DOMAIN wiz.providers : IsProvider(wiz.providers[k])
      /\ Distinct(wiz.providers) /\ \A x, y \in existing.providers : x.id = y.id => x = y
  BY <1>1 DEF ListInv
<1>5. (\A k \in DOMAIN wiz'.providers : IsProvider(wiz'.providers[k])) /\ Distinct(wiz'.providers)
  BY <1>2, <1>3, <1>4, MountedIsDistinct
<1> QED
  BY <1>1, <1>4, <1>5 DEF ListInv

LEMMA ListIsKept ==
    ASSUME OnboardShape, ListInv, [OnboardNext]_onboardVars PROVE ListInv'
\* The list and the form are as they were.
<1>1. ASSUME existing' = existing, form' = form,
             wiz' = wiz \/ (wiz # Off /\ wiz' # Off /\ wiz'.providers = wiz.providers)
      PROVE  ListInv'
  <2>1. form # NoForm => wiz # Off
    BY DEF OnboardShape
  <2> QED
    BY <1>1, <2>1 DEF ListInv
\* The wizard is over.
<1>2. ASSUME existing' = existing, wiz' = Off, form' = NoForm PROVE ListInv'
  BY <1>2 DEF ListInv
<1>3. CASE Start
  <2> DEFINE page == getStartingPage(Existing)
             w == [DEFAULT_STATE EXCEPT !.page = page, !.accepted = page > 1]
  <2>1. existing' = Existing /\ form' = NoForm /\ wiz' = Mounted(Existing, w) /\ wiz = Off
    BY <1>3 DEF Start
  <2>2. IsFiniteSet(Existing.providers) /\ \A x, y \in Existing.providers : x.id = y.id => x = y
    <3>1. Loads
      BY <1>3 DEF Start
    <3> QED
      BY <3>1, ExistingIsFinite, ExistingIsDistinct
  <2>3. w.providers = <<>> /\ IsWizard(w)
    <3>1. <<>> \in Seq({})
      OBVIOUS
    <3>2. IsSeq(<<>>)
      BY <3>1, IsSeqIntro
    <3> QED
      BY <3>2 DEF IsWizard, DEFAULT_STATE, Mode
  <2> HIDE DEF w
  <2>4. (\A k \in DOMAIN w.providers : IsProvider(w.providers[k])) /\ Distinct(w.providers)
    BY <2>3 DEF Distinct
  <2>5. (\A k \in DOMAIN wiz'.providers : IsProvider(wiz'.providers[k])) /\ Distinct(wiz'.providers)
    BY <2>1, <2>2, <2>3, <2>4, MountedIsDistinct
  <2> QED
    BY <2>1, <2>2, <2>5 DEF ListInv
<1>4. CASE Page
  <2>0. UNCHANGED existing /\ wiz # Off /\ wiz' # Off /\ IsWizard(wiz)
    BY <1>4, PagesKeepAWizard, PagesAreShown DEF OnboardShape
  <2>1. CASE \E i \in 1..4 : MarkProvider(i) \/ MarkChannel(i)
    <3>1. form' = form /\ wiz'.providers = wiz.providers
      BY <2>0, <2>1 DEF MarkProvider, MarkChannel, IsWizard
    <3> QED
      BY <1>1, <2>0, <3>1
  <2>2. CASE \E i \in 0..2, n \in Names, key \in {"", "new"}, keep \in BOOLEAN :
                 SubmitChannel(i, n, key, keep)
    <3>1. form' = form /\ wiz'.providers = wiz.providers
      <4>1. PICK x : wiz' = [wiz EXCEPT !.channels = x] /\ form' = form
        BY <2>2 DEF SubmitChannel
      <4> QED
        BY <2>0, <4>1 DEF IsWizard
    <3> QED
      BY <1>1, <2>0, <3>1
  <2>3. CASE ToggleDisclaimer
    <3>1. form' = form /\ wiz'.providers = wiz.providers
      BY <2>0, <2>3 DEF ToggleDisclaimer, IsWizard
    <3> QED
      BY <1>1, <2>0, <3>1
  <2>4. CASE BackInForm
    <3>1. form # NoForm /\ wiz' = wiz
      BY <2>4 DEF BackInForm
    <3>2. IsForm(form) /\ Fits(form, wiz.providers)
      BY <3>1 DEF ListInv
    <3>3. CASE form' = NoForm
      BY <2>0, <3>1, <3>3 DEF ListInv
    <3>4. CASE \E step \in {"common", "auth"} : form' = [form EXCEPT !.step = step]
      <4>1. PICK step \in {"common", "auth"} : form' = [form EXCEPT !.step = step]
        BY <3>4
      <4>2. form' = [form EXCEPT !.step = step, !.work = form.work]
        BY <3>2, <4>1 DEF IsForm
      <4>3. IsProvider(form.work)
        BY <3>2 DEF IsForm
      <4> QED
        BY <2>0, <3>1, <4>2, <4>3, FormIsEdited
    <3> QED
      BY <2>4, <3>3, <3>4 DEF BackInForm
  <2>5. CASE \/ \E slug \in Slugs : SubmitCommonFields(slug)
             \/ ToggleKeepExistingApiKey
             \/ \E key \in {"", "new"} : SubmitAuth(key)
             \/ \E m \in Models : ToggleModel(m) \/ AddModel(m)
    BY <2>5, FormsKeepTheList
  <2>6. CASE (\E i \in 1..4 : EditProvider(i)) \/ (\E c \in Builtin \cup Slugs \cup {"custom"} : SelectProvider(c))
    BY <2>6, OpeningKeepsTheList
  <2>7. CASE SubmitModels
    BY <2>7, SubmittingKeepsTheList
  <2>8. CASE NextPage \/ Back
    BY <2>8, MovingKeepsTheList
  <2> QED
    BY <1>4, <2>1, <2>2, <2>3, <2>4, <2>5, <2>6, <2>7, <2>8 DEF Page
<1>5. CASE SetupStep \/ \E i \in Slot : IoFails(i)
  <2>1. existing' = existing
    BY <1>5 DEF SetupStep, Continue, Refuse, KeychainSet, SecretRead, SecretCut, SecretWrite,
                ConfigRead, ConfigCut, ConfigWrite, TemplateCheck, TemplateBackup, TemplateWrite,
                Finish, IoFails, Quiet
  <2>2. (wiz' = wiz /\ form' = form) \/ (wiz' = Off /\ form' = NoForm)
    BY <1>5 DEF SetupStep, Continue, Refuse, KeychainSet, SecretRead, SecretCut, SecretWrite,
                ConfigRead, ConfigCut, ConfigWrite, TemplateCheck, TemplateBackup, TemplateWrite,
                Finish, IoFails, Quiet
  <2> QED
    BY <1>1, <1>2, <2>1, <2>2
<1>6. CASE Crash
  BY <1>2, <1>6 DEF Crash
<1>7. CASE \E i \in Slot : Begins(i)
  <2>1. PICK i \in Slot : Begins(i)
    BY <1>7
  <2>2. existing' = existing /\ form' = form
    BY <2>1, StartedWith DEF Started
  <2>3. wiz' = wiz \/ (wiz # Off /\ wiz' # Off /\ wiz'.providers = wiz.providers)
    <3>1. CASE \E mode \in Modes : Submit(i, mode)
      <4>1. PICK mode \in Modes : Submit(i, mode)
        BY <3>1
      <4>2. wiz # Off /\ IsWizard(wiz) /\ wiz' = [wiz EXCEPT !.mode = mode] /\ mode \in Mode
        BY <4>1, OnboardingAssumption DEF Submit, On, OnboardShape, Mode
      <4>3. IsWizard(wiz') /\ wiz'.providers = wiz.providers
        BY <4>2, WizardIsEdited DEF IsWizard
      <4> QED
        BY <4>2, <4>3, WizardIsOn
    <3>2. CASE \E p \in Builtin, m \in Offered, pulse \in Pulses : Command(i, p, m, pulse)
      BY <3>2 DEF Command, Options
    <3> QED
      BY <2>1, <3>1, <3>2 DEF Begins
  <2> QED
    BY <1>1, <2>2, <2>3
<1>8. CASE UNCHANGED onboardVars
  BY <1>1, <1>8 DEF onboardVars
<1> QED
  BY <1>3, <1>4, <1>5, <1>6, <1>7, <1>8 DEF OnboardNext, Begins

(***************************************************************************)
(* The order of the steps.                                                 *)
(***************************************************************************)
LEMMA FileIsLast ==
    ASSUME NEW q, NEW f, IsSeq(q)
    PROVE  /\ IsSeq(q \o File(f)) /\ Len(q \o File(f)) = Len(q) + 1 /\ Len(q) \in Nat
           /\ \A k \in 1..Len(q) : (q \o File(f))[k] = q[k]
           /\ (q \o File(f))[Len(q) + 1] = File(f)[1]
<1>1. Len(File(f)) = 1
  BY DEF File
<1>2. IsSeq(File(f)) /\ IsSeq(q \o File(f)) /\ Len(q \o File(f)) = Len(q) + 1 /\ Len(q) \in Nat
      /\ \A k \in 1..Len(q) : (q \o File(f))[k] = q[k]
  BY FileAtTheEnd
<1>3. \A k \in 1..Len(File(f)) : (q \o File(f))[Len(q) + k] = File(f)[k]
  BY <1>2, IsSeqConcat
<1>4. (q \o File(f))[Len(q) + 1] = File(f)[1]
  BY <1>1, <1>3
<1> QED
  BY <1>2, <1>4

\* What is at which place: k steps for the channels, u for the pulse.
LEMMA JobsInPlace ==
    ASSUME NEW s, IsSeq(s.providers), IsSeq(s.channels)
    PROVE  \E k, u \in Nat : LET q == Jobs(s)  n == Len(s.providers) IN
              /\ n \in Nat /\ DOMAIN s.providers = 1..n
              /\ IsSeq(q) /\ Len(q) = n + k + u + 4 /\ DOMAIN q = 1..(n + k + u + 4)
              /\ \A l \in 1..n : q[l] = KeyJobs(s)[l]
              /\ q[n + 1] = [job |-> "providers"] /\ q[n + 2] = [job |-> "models"]
              /\ \A l \in 1..k : \/ q[n + 2 + l] = [job |-> "channels"]
                                 \/ \E c : q[n + 2 + l] = CredentialJob(c)
                                 \/ q[n + 2 + l] = Pass
              /\ s.channels # <<>> => k > 0 /\ q[n + 2 + k] = [job |-> "channels"]
              /\ q[n + k + 3] = [job |-> "preferences"]
              /\ IF s.pulse THEN u = 1 /\ q[n + k + 4] = [job |-> "pulse"] ELSE u = 0
              /\ q[n + k + u + 4] = [job |-> "templates"]
<1> DEFINE keys == KeyJobs(s)
           creds == CredentialJobs(s)
           named == IF s.channels = <<>> THEN <<>> ELSE creds \o File("channels")
           pulse == IF s.pulse THEN File("pulse") ELSE <<>>
           n == Len(s.providers)
           k == Len(named)
           u == Len(pulse)
<1>0. \A f \in {"providers", "models", "channels", "preferences", "templates"} :
          File(f)[1] = [job |-> f]
  BY DEF File
<1>1. n \in Nat /\ DOMAIN s.providers = 1..n
      /\ Len(s.channels) \in Nat /\ DOMAIN s.channels = 1..Len(s.channels)
  BY IsSeqFacts
<1>2. IsSeq(keys) /\ Len(keys) = n
  <2>1. keys = [i \in 1..n |-> keys[i]]
    BY <1>1 DEF KeyJobs
  <2> HIDE DEF keys, n
  <2> QED
    BY <1>1, <2>1, IsSeqOfMap
<1>3. IsSeq(creds) /\ Len(creds) = Len(s.channels)
      /\ \A i \in 1..Len(s.channels) : creds[i] = Pass \/ \E c : creds[i] = CredentialJob(c)
  <2>1. creds = [i \in 1..Len(s.channels) |-> creds[i]]
    BY <1>1 DEF CredentialJobs
  <2>2. \A i \in 1..Len(s.channels) : creds[i] = Pass \/ \E c : creds[i] = CredentialJob(c)
    BY <1>1 DEF CredentialJobs
  <2> HIDE DEF creds
  <2> QED
    BY <1>1, <2>1, <2>2, IsSeqOfMap
<1>4. IsSeq(<<>>) /\ Len(<<>>) = 0
  <2>1. <<>> \in Seq({})
    OBVIOUS
  <2> QED
    BY <2>1, IsSeqIntro
<1> HIDE DEF keys, creds
<1>5. /\ IsSeq(named) /\ k \in Nat
      /\ \A l \in 1..k : named[l] = [job |-> "channels"] \/ named[l] = Pass
                         \/ \E c : named[l] = CredentialJob(c)
      /\ s.channels # <<>> => k > 0 /\ named[k] = [job |-> "channels"]
  <2>1. CASE s.channels = <<>>
    <3>1. named = <<>>
      BY <2>1
    <3> HIDE DEF named
    <3> QED
      BY <1>4, <2>1, <3>1
  <2>2. CASE s.channels # <<>>
    <3>1. named = creds \o File("channels")
      BY <2>2
    <3> HIDE DEF named
    <3>2. /\ IsSeq(named) /\ k = Len(creds) + 1 /\ Len(creds) \in Nat
          /\ \A l \in 1..Len(creds) : named[l] = creds[l]
          /\ named[Len(creds) + 1] = File("channels")[1]
      BY <1>3, <3>1, FileIsLast
    <3>3. \A l \in 1..k : l \in 1..Len(creds) \/ l = Len(creds) + 1
      BY <3>2
    <3> QED
      BY <1>0, <1>3, <3>2, <3>3
  <2> QED
    BY <1>0, <2>1, <2>2
<1>6. /\ IsSeq(pulse) /\ u \in Nat
      /\ IF s.pulse THEN u = 1 /\ pulse[1] = [job |-> "pulse"] ELSE u = 0
  <2>1. IsSeq(File("pulse")) /\ File("pulse")[1] = [job |-> "pulse"] /\ Len(File("pulse")) = 1
    BY <1>4, FileAtTheEnd DEF File
  <2> QED
    BY <1>4, <2>1
<1> DEFINE a == keys \o File("providers")
           b == a \o File("models")
           c == b \o named
           d == c \o File("preferences")
           e == d \o pulse
           g == e \o File("templates")
<1>7. Jobs(s) = g
  BY DEF Jobs, keys, creds
<1> HIDE DEF named, pulse, n, k, u
<1>8. /\ IsSeq(a) /\ Len(a) = n + 1 /\ \A l \in 1..n : a[l] = keys[l]
      /\ a[n + 1] = [job |-> "providers"]
  <2>1. /\ IsSeq(a) /\ Len(a) = Len(keys) + 1 /\ \A l \in 1..Len(keys) : a[l] = keys[l]
        /\ a[Len(keys) + 1] = File("providers")[1]
    <3>1. a = keys \o File("providers")
      OBVIOUS
    <3> HIDE DEF a
    <3> QED
      BY <1>2, <3>1, FileIsLast
  <2> QED
    BY <1>2, <1>0, <2>1
<1>9. /\ IsSeq(b) /\ Len(b) = n + 2 /\ \A l \in 1..(n + 1) : b[l] = a[l]
      /\ b[n + 2] = [job |-> "models"]
  <2> HIDE DEF a
  <2>1. /\ IsSeq(b) /\ Len(b) = Len(a) + 1 /\ \A l \in 1..Len(a) : b[l] = a[l]
        /\ b[Len(a) + 1] = File("models")[1]
    <3>1. b = a \o File("models")
      OBVIOUS
    <3> HIDE DEF b
    <3> QED
      BY <1>8, <3>1, FileIsLast
  <2>2. (n + 1) + 1 = n + 2
    BY <1>1
  <2> QED
    BY <1>8, <1>0, <2>1, <2>2
<1>10. /\ IsSeq(c) /\ Len(c) = n + k + 2 /\ \A l \in 1..(n + 2) : c[l] = b[l]
       /\ \A l \in 1..k : c[n + 2 + l] = named[l]
  <2> HIDE DEF b
  <2>1. /\ IsSeq(c) /\ Len(c) = (n + 2) + k /\ \A l \in 1..(n + 2) : c[l] = b[l]
        /\ \A l \in 1..k : c[(n + 2) + l] = named[l]
    BY <1>5, <1>9, IsSeqConcat DEF k
  <2>2. (n + 2) + k = n + k + 2
    BY <1>1, <1>5
  <2> QED
    BY <1>0, <2>1, <2>2
<1>11. /\ IsSeq(d) /\ Len(d) = n + k + 3 /\ \A l \in 1..(n + k + 2) : d[l] = c[l]
       /\ d[n + k + 3] = [job |-> "preferences"]
  <2> HIDE DEF c
  <2>1. /\ IsSeq(d) /\ Len(d) = Len(c) + 1 /\ \A l \in 1..Len(c) : d[l] = c[l]
        /\ d[Len(c) + 1] = File("preferences")[1]
    <3>1. d = c \o File("preferences")
      OBVIOUS
    <3> HIDE DEF d
    <3> QED
      BY <1>10, <3>1, FileIsLast
  <2>2. (n + k + 2) + 1 = n + k + 3
    BY <1>1, <1>5
  <2> QED
    BY <1>10, <1>0, <2>1, <2>2
<1>12. /\ IsSeq(e) /\ Len(e) = n + k + u + 3 /\ \A l \in 1..(n + k + 3) : e[l] = d[l]
       /\ \A l \in 1..u : e[n + k + 3 + l] = pulse[l]
  <2> HIDE DEF d
  <2>1. /\ IsSeq(e) /\ Len(e) = (n + k + 3) + u /\ \A l \in 1..(n + k + 3) : e[l] = d[l]
        /\ \A l \in 1..u : e[(n + k + 3) + l] = pulse[l]
    BY <1>6, <1>11, IsSeqConcat DEF u
  <2>2. (n + k + 3) + u = n + k + u + 3
    BY <1>1, <1>5, <1>6
  <2> QED
    BY <1>0, <2>1, <2>2
<1>13. /\ IsSeq(g) /\ Len(g) = n + k + u + 4 /\ \A l \in 1..(n + k + u + 3) : g[l] = e[l]
       /\ g[n + k + u + 4] = [job |-> "templates"]
  <2> HIDE DEF e
  <2>1. /\ IsSeq(g) /\ Len(g) = Len(e) + 1 /\ \A l \in 1..Len(e) : g[l] = e[l]
        /\ g[Len(e) + 1] = File("templates")[1]
    <3>1. g = e \o File("templates")
      OBVIOUS
    <3> HIDE DEF g
    <3> QED
      BY <1>12, <3>1, FileIsLast
  <2>2. (n + k + u + 3) + 1 = n + k + u + 4
    BY <1>1, <1>5, <1>6
  <2> QED
    BY <1>12, <1>0, <2>1, <2>2
<1> HIDE DEF a, b, c, d, e, g
<1>14. \A l \in 1..n : g[l] = keys[l]
  BY <1>1, <1>5, <1>6, <1>8, <1>9, <1>10, <1>11, <1>12, <1>13
<1>15. g[n + 1] = [job |-> "providers"] /\ g[n + 2] = [job |-> "models"]
  BY <1>1, <1>5, <1>6, <1>8, <1>9, <1>10, <1>11, <1>12, <1>13
<1>16. \A l \in 1..k : g[n + 2 + l] = named[l]
  <2> SUFFICES ASSUME NEW l \in 1..k PROVE g[n + 2 + l] = named[l]
    OBVIOUS
  <2>1. /\ n + 2 + l \in 1..(n + k + 2) /\ n + 2 + l \in 1..(n + k + 3)
        /\ n + 2 + l \in 1..(n + k + u + 3)
    BY <1>1, <1>5, <1>6
  <2> QED
    BY <1>10, <1>11, <1>12, <1>13, <2>1
<1>17. g[n + k + 3] = [job |-> "preferences"]
  BY <1>1, <1>5, <1>6, <1>11, <1>12, <1>13
<1>18. \A l \in 1..u : g[n + k + 3 + l] = pulse[l]
  BY <1>1, <1>5, <1>6, <1>12, <1>13
<1>19. IF s.pulse THEN u = 1 /\ g[n + k + 4] = [job |-> "pulse"] ELSE u = 0
  <2>1. n + k + 3 + 1 = n + k + 4
    BY <1>1, <1>5
  <2> QED
    BY <1>6, <1>18, <2>1
<1>20. DOMAIN g = 1..(n + k + u + 4)
  BY <1>13, IsSeqFacts
<1>21. s.channels # <<>> => k > 0 /\ g[n + 2 + k] = [job |-> "channels"]
  BY <1>5, <1>16
<1>22. \A l \in 1..k : \/ g[n + 2 + l] = [job |-> "channels"]
                       \/ \E x : g[n + 2 + l] = CredentialJob(x)
                       \/ g[n + 2 + l] = Pass
  BY <1>5, <1>16
<1> QED
  BY <1>1, <1>5, <1>6, <1>7, <1>13, <1>14, <1>15, <1>17, <1>19, <1>20, <1>21, <1>22 DEF keys, n

\* A setup that begins has everything before it, in order.
LEMMA JobsAreOrdered ==
    ASSUME NEW s, IsSeq(s.providers), IsSeq(s.channels)
    PROVE  /\ Ordered(Jobs(s), s)
           /\ \A p \in Chosen(s) : \E l \in DOMAIN Jobs(s) : Jobs(s)[l] = KeyJob(p)
           /\ \A job \in {"providers", "models"} : \E l \in DOMAIN Jobs(s) : Jobs(s)[l].job = job
           /\ s.channels # <<>> => \E l \in DOMAIN Jobs(s) : Jobs(s)[l].job = "channels"
           /\ s.pulse => \E l \in DOMAIN Jobs(s) : Jobs(s)[l].job = "pulse"
<1> DEFINE q == Jobs(s)
           n == Len(s.providers)
<1>1. PICK k \in Nat, u \in Nat :
              /\ n \in Nat /\ DOMAIN s.providers = 1..n
              /\ IsSeq(q) /\ Len(q) = n + k + u + 4 /\ DOMAIN q = 1..(n + k + u + 4)
              /\ \A l \in 1..n : q[l] = KeyJobs(s)[l]
              /\ q[n + 1] = [job |-> "providers"] /\ q[n + 2] = [job |-> "models"]
              /\ \A l \in 1..k : \/ q[n + 2 + l] = [job |-> "channels"]
                                 \/ \E c : q[n + 2 + l] = CredentialJob(c)
                                 \/ q[n + 2 + l] = Pass
              /\ s.channels # <<>> => k > 0 /\ q[n + 2 + k] = [job |-> "channels"]
              /\ q[n + k + 3] = [job |-> "preferences"]
              /\ IF s.pulse THEN u = 1 /\ q[n + k + 4] = [job |-> "pulse"] ELSE u = 0
              /\ q[n + k + u + 4] = [job |-> "templates"]
  BY JobsInPlace
<1>2. \A l \in 1..n : \/ q[l] \in {Pass, [job |-> "refuse"]}
                      \/ \E p \in Chosen(s) : q[l] = KeyJob(p) /\ KeyJob(p).job = "secret"
  <2> SUFFICES ASSUME NEW l \in 1..n
               PROVE  \/ KeyJobs(s)[l] \in {Pass, [job |-> "refuse"]}
                      \/ \E p \in Chosen(s) : KeyJobs(s)[l] = KeyJob(p) /\ KeyJob(p).job = "secret"
    BY <1>1
  <2> DEFINE p == s.providers[l]
  <2>1. KeyJobs(s)[l] = IF l \in Kept(s) THEN KeyJob(p) ELSE Pass
    BY <1>1 DEF KeyJobs
  <2>2. KeyJob(p) \in {Pass, [job |-> "refuse"]} \/ KeyJob(p).job = "secret"
    BY DEF KeyJob
  <2>3. l \in Kept(s) => p \in Chosen(s)
    BY DEF Chosen
  <2> QED
    BY <2>1, <2>2, <2>3
<1>3. \A c : CredentialJob(c) = Pass \/ (CredentialJob(c).job = "secret" /\ CredentialJob(c).name[2] # "api-key")
  BY DEF CredentialJob, Credential
<1>4. Pass.job = "pass"
  BY DEF Pass
<1>5. \A p \in Chosen(s) : \E l \in 1..n : q[l] = KeyJob(p)
  <2> SUFFICES ASSUME NEW p \in Chosen(s) PROVE \E l \in 1..n : q[l] = KeyJob(p)
    OBVIOUS
  <2>1. PICK l \in Kept(s) : p = s.providers[l]
    BY DEF Chosen
  <2>2. l \in 1..n /\ KeyJobs(s)[l] = KeyJob(p)
    BY <1>1, <2>1 DEF Kept, KeyJobs
  <2> QED
    BY <1>1, <2>2
<1> HIDE DEF q, n
<1>0. n \in Nat /\ k \in Nat /\ u \in Nat /\ DOMAIN q = 1..(n + k + u + 4)
  BY <1>1
\* What the job of each place is.
<1>6. ASSUME NEW l \in DOMAIN q
      PROVE  \/ l \in 1..n /\ q[l].job \in {"pass", "refuse", "secret"}
             \/ l = n + 1 /\ q[l].job = "providers"
             \/ l = n + 2 /\ q[l].job = "models"
             \/ l > n + 2 /\ l < n + k + 3 /\ q[l].job \in {"channels", "secret", "pass"}
             \/ l = n + k + 3 /\ q[l].job = "preferences"
             \/ l > n + k + 3 /\ q[l].job \in {"pulse", "templates"}
  <2>1. l \in Nat /\ l >= 1 /\ l <= n + k + u + 4
    BY <1>0
  <2>2. CASE l <= n
    <3>1. l \in 1..n
      BY <1>1, <2>1, <2>2
    <3> QED
      BY <1>2, <1>4, <3>1
  <2>3. CASE l = n + 1
    BY <1>1, <2>3
  <2>4. CASE l = n + 2
    BY <1>1, <2>4
  <2>5. CASE l > n + 2 /\ l < n + k + 3
    <3>1. l - (n + 2) \in 1..k /\ l = n + 2 + (l - (n + 2))
      BY <1>0, <2>1, <2>5
    <3> DEFINE j == l - (n + 2)
    <3>2. j \in 1..k /\ l = n + 2 + j
      BY <3>1
    <3> HIDE DEF j
    <3>3. \/ q[l] = [job |-> "channels"] \/ (\E c : q[l] = CredentialJob(c)) \/ q[l] = Pass
      BY <1>1, <3>2
    <3> QED
      BY <1>3, <1>4, <2>5, <3>3
  <2>6. CASE l = n + k + 3
    BY <1>1, <2>6
  <2>7. CASE l > n + k + 3
    <3>1. CASE s.pulse
      <4>1. l = n + k + 4 \/ l = n + k + u + 4
        BY <1>1, <2>1, <2>7, <3>1
      <4> QED
        BY <1>1, <2>7, <3>1, <4>1
    <3>2. CASE ~s.pulse
      <4>1. l = n + k + u + 4
        BY <1>1, <2>1, <2>7, <3>2
      <4> QED
        BY <1>1, <2>7, <4>1
    <3> QED
      BY <3>1, <3>2
  <2>8. \/ l <= n \/ l = n + 1 \/ l = n + 2 \/ (l > n + 2 /\ l < n + k + 3) \/ l = n + k + 3
        \/ l > n + k + 3
    BY <1>0, <2>1
  <2> QED
    BY <2>2, <2>3, <2>4, <2>5, <2>6, <2>7, <2>8
<1>7. n + 1 \in DOMAIN q /\ n + 2 \in DOMAIN q /\ n + 2 = (n + 1) + 1 /\ n + 1 < n + 2
  BY <1>1
<1>8. Then(q, "providers", "models") /\ Before(q, "providers", "models")
  <2>1. \A l \in DOMAIN q : q[l].job = "providers" => l = n + 1
    BY <1>6
  <2>2. \A l \in DOMAIN q : q[l].job = "models" => l = n + 2
    BY <1>6
  <2>3. q[n + 2].job = "models"
    BY <1>1
  <2> QED
    BY <1>7, <2>1, <2>2, <2>3 DEF Then, Before
<1>9. ASSUME s.pulse PROVE Then(q, "preferences", "pulse")
  <2>1. \A l \in DOMAIN q : q[l].job = "preferences" => l = n + k + 3
    BY <1>6
  <2>2. (n + k + 3) + 1 \in DOMAIN q /\ (n + k + 3) + 1 = n + k + 4
    BY <1>1, <1>9
  <2>3. q[n + k + 4].job = "pulse"
    BY <1>1, <1>9
  <2> QED
    BY <2>1, <2>2, <2>3 DEF Then
<1>10. ASSUME NEW l \in DOMAIN q, q[l].job = "secret"
       PROVE  (\E p \in Chosen(s) : q[l] = KeyJob(p)) \/ q[l].name[2] # "api-key"
  <2>1. l \in 1..n \/ (l > n + 2 /\ l < n + k + 3)
    BY <1>6, <1>10
  <2>2. CASE l \in 1..n
    BY <1>2, <1>4, <1>10, <2>2
  <2>3. CASE l > n + 2 /\ l < n + k + 3
    <3> DEFINE j == l - (n + 2)
    <3>1. j \in 1..k /\ l = n + 2 + j
      BY <1>1, <2>3
    <3> HIDE DEF j
    <3>2. \/ q[l] = [job |-> "channels"] \/ (\E c : q[l] = CredentialJob(c)) \/ q[l] = Pass
      BY <1>1, <3>1
    <3> QED
      BY <1>3, <1>4, <1>10, <3>2
  <2> QED
    BY <2>1, <2>2, <2>3
<1>11. Ordered(q, s)
  BY <1>8, <1>9, <1>10 DEF Ordered
<1>12. \A p \in Chosen(s) : \E l \in DOMAIN q : q[l] = KeyJob(p)
  <2>1. 1..n \subseteq DOMAIN q
    BY <1>1
  <2> QED
    BY <1>5, <2>1
<1>13. \A job \in {"providers", "models"} : \E l \in DOMAIN q : q[l].job = job
  BY <1>1, <1>7
<1>14. s.channels # <<>> => \E l \in DOMAIN q : q[l].job = "channels"
  <2> SUFFICES ASSUME s.channels # <<>> PROVE \E l \in DOMAIN q : q[l].job = "channels"
    OBVIOUS
  <2>1. n + 2 + k \in DOMAIN q /\ q[n + 2 + k] = [job |-> "channels"]
    BY <1>1
  <2> QED
    BY <2>1
<1>15. s.pulse => \E l \in DOMAIN q : q[l].job = "pulse"
  <2> SUFFICES ASSUME s.pulse PROVE \E l \in DOMAIN q : q[l].job = "pulse"
    OBVIOUS
  <2>1. n + k + 4 \in DOMAIN q /\ q[n + k + 4] = [job |-> "pulse"]
    BY <1>1
  <2> QED
    BY <2>1
<1> QED
  BY <1>11, <1>12, <1>13, <1>14, <1>15 DEF q

\* What is left after the first step is in order too.
LEMMA RestIsOrdered ==
    ASSUME NEW s, NEW q, IsSeq(q), q # <<>>, Ordered(q, s)
    PROVE  Ordered(Tail(q), s)
<1> DEFINE r == Tail(q)
<1>1. /\ IsSeq(r) /\ Len(r) = Len(q) - 1 /\ Len(q) \in Nat /\ Len(q) > 0
      /\ \A k \in 1..(Len(q) - 1) : r[k] = q[k + 1]
  BY IsSeqTail
<1>2. DOMAIN q = 1..Len(q) /\ DOMAIN r = 1..Len(r)
  BY <1>1, IsSeqFacts
<1> HIDE DEF r
<1>3. \A k \in DOMAIN r : k + 1 \in DOMAIN q /\ r[k] = q[k + 1] /\ k \in Nat
  BY <1>1, <1>2
<1>4. \A k \in Nat : k + 1 \in DOMAIN q => k \in DOMAIN r \/ k = 0
  BY <1>1, <1>2
<1>5. ASSUME NEW a, NEW b, Then(q, a, b) PROVE Then(r, a, b)
  <2> SUFFICES ASSUME NEW l \in DOMAIN r, r[l].job = a
               PROVE  l + 1 \in DOMAIN r /\ r[l + 1].job = b
    BY DEF Then
  <2>1. l \in Nat /\ l + 1 \in DOMAIN q /\ q[l + 1].job = a
    BY <1>3
  <2>2. (l + 1) + 1 \in DOMAIN q /\ q[(l + 1) + 1].job = b
    BY <1>5, <2>1 DEF Then
  <2>3. l + 1 \in DOMAIN r
    BY <1>4, <2>1, <2>2
  <2> QED
    BY <1>3, <2>2, <2>3
<1>6. ASSUME NEW a, NEW b, Before(q, a, b) PROVE Before(r, a, b)
  <2> SUFFICES ASSUME NEW k \in DOMAIN r, NEW l \in DOMAIN r, r[k].job = a, r[l].job = b PROVE k < l
    BY DEF Before
  <2>1. k \in Nat /\ l \in Nat /\ k + 1 < l + 1
    BY <1>3, <1>6 DEF Before
  <2> QED
    BY <2>1
<1>7. Then(r, "providers", "models") /\ Before(r, "providers", "models")
  <2>1. Then(q, "providers", "models") /\ Before(q, "providers", "models")
    BY DEF Ordered
  <2> QED
    BY <1>5, <1>6, <2>1
<1>8. s.pulse => Then(r, "preferences", "pulse")
  <2>1. s.pulse => Then(q, "preferences", "pulse")
    BY DEF Ordered
  <2> QED
    BY <1>5, <2>1
<1>9. \A l \in DOMAIN q : q[l].job = "secret" =>
          (\E p \in Chosen(s) : q[l] = KeyJob(p)) \/ q[l].name[2] # "api-key"
  BY DEF Ordered
<1>10. \A l \in DOMAIN r : r[l].job = "secret" =>
          (\E p \in Chosen(s) : r[l] = KeyJob(p)) \/ r[l].name[2] # "api-key"
  BY <1>3, <1>9
<1> QED
  BY <1>7, <1>8, <1>10 DEF Ordered, r

(***************************************************************************)
(* What the steps of the one setup do.                                     *)
(***************************************************************************)
\* A step fails: the files are as they are, and an emptied one, or the models whose
\* providers were written, are remembered.
FailsHere ==
    /\ ~There' /\ UNCHANGED disk
    /\ ~halfway' => /\ ~halfway /\ \A f \in FILES : ~Emptied(f)
                    /\ Between => Now("models") = Empty

\* It goes on with its job: nothing is lost.
GoesOnHere ==
    /\ There' /\ subs[1].at # "done" /\ subs'[1].at # "done"
    /\ subs'[1].state = subs[1].state /\ subs'[1].jobs = subs[1].jobs
    /\ halfway' = halfway
    /\ \A f \in FILES : Now(f)' = Now(f)
    /\ Hand' = Hand
    /\ \A f \in FILES : \/ disk'[f] = disk[f]
                        \/ Job(1).job \in Configs /\ FileOf(Job(1).job) = f

\* It is done with it.
PopsHere ==
    /\ There' /\ subs[1].jobs # <<>> /\ IsSeq(subs[1].jobs)
    /\ subs'[1].state = subs[1].state /\ subs'[1].jobs = Tail(subs[1].jobs)
    /\ halfway' = halfway
    /\ \A f \in FILES : ~Emptied(f)'
    /\ Job(1).job # "refuse"
    /\ \A f \in FILES :
          disk'[f] = IF Job(1).job \in Configs /\ FileOf(Job(1).job) = f
                     THEN Whole(Text(Job(1).job, Now(f), Asks)) ELSE disk[f]
    /\ \A f \in FILES : Job(1).job \notin Configs => ~Emptied(f)
    /\ \A f \in FILES : FileOf(Job(1).job) # f => ~Emptied(f)
    /\ Hand' = IF Job(1).job = "secret" THEN With(Hand, Job(1).name, Job(1).value) ELSE Hand

\* The parts of RunInv about the file that is written.
FilesInv ==
    /\ \A f \in FILES : IsFile(disk[f])
    /\ subs[1].at = "done" => subs[1].jobs = <<>>
    /\ At(1, "cut", Configs) => subs[1].held = disk[FileOf(Job(1).job)].entries
    /\ At(1, "write", Configs) => disk[FileOf(Job(1).job)] = Whole(Empty)

LEMMA Filing ==
    /\ \A job \in Configs : FileOf(job) \in FILES
    /\ "secret" \notin Configs /\ "templates" \notin Configs /\ "pass" \notin Configs
    /\ "refuse" \notin Configs
    /\ IsFile(Whole(Empty)) /\ Whole(Empty).entries = Empty
    /\ \A e : IsFile(Whole(e)) /\ Whole(e).entries = e /\ Whole(e).file = "whole"
    /\ TornFile.entries = Empty
  BY DEF Configs, FileOf, FILES, IsFile, Whole, Empty, TornFile

\* The job is the first of those that are left.
LEMMA JobIsFirst ==
    ASSUME NEW i \in Slot, IsSetup(subs[i])
    PROVE  /\ IsSeq(subs[i].jobs) /\ subs[i].jobs # <<>> /\ 1 \in DOMAIN subs[i].jobs
           /\ Job(i) = subs[i].jobs[1]
<1>1. IsSeq(subs[i].jobs) /\ subs[i].jobs # <<>>
  BY DEF IsSetup
<1>2. Head(subs[i].jobs) = subs[i].jobs[1] /\ Len(subs[i].jobs) \in Nat /\ Len(subs[i].jobs) > 0
      /\ DOMAIN subs[i].jobs = 1..Len(subs[i].jobs)
  BY <1>1, IsSeqTail, IsSeqFacts
<1>3. 1 \in DOMAIN subs[i].jobs
  BY <1>2
<1> QED
  BY <1>1, <1>2, <1>3 DEF Job

LEMMA LastJob ==
    ASSUME HaveSlots, NEW i \in Slot, IsSetup(subs[i]), Pop(i)
    PROVE  subs'[i].at = "done" => subs'[i].jobs = <<>>
<1> DEFINE q == subs[i].jobs
<1>1. IsSeq(q) /\ q # <<>>
  BY JobIsFirst
<1>2. IsSeq(Tail(q)) /\ Len(Tail(q)) = Len(q) - 1 /\ Len(q) \in Nat
  BY <1>1, IsSeqTail
<1>3. Len(q) = 1 => Tail(q) = <<>>
  <2> DEFINE r == Tail(q)
             n == Len(q)
             m == Len(r)
  <2>1. IsSeq(r) /\ m = n - 1 /\ n \in Nat
    BY <1>2
  <2>2. r # <<>> <=> m > 0
    BY <2>1, IsSeqFacts
  <2>3. n = 1 => ~(m > 0)
    <3> HIDE DEF n, m
    <3> QED BY <2>1
  <2> QED
    BY <2>2, <2>3
<1>4. subs'[i].at = IF Len(q) = 1 THEN "done" ELSE "read"
  <2> DEFINE h == subs[i]
             at == IF Len(q) = 1 THEN "done" ELSE "read"
  <2>1. subs' = [subs EXCEPT ![i] = [h EXCEPT !.jobs = Tail(q), !.held = Missing, !.at = at]]
    BY DEF Pop, HaveSlots
  <2>2. subs'[i] = [h EXCEPT !.jobs = Tail(q), !.held = Missing, !.at = at]
    BY <2>1 DEF HaveSlots
  <2>3. h \in [at : {"read", "cut", "write", "end"}, state : {h.state}, jobs : {h.jobs},
               held : {h.held}]
    BY DEF IsSetup
  <2> HIDE DEF h, at
  <2>4. subs'[i].at = at
    BY <2>2, <2>3
  <2> QED
    BY <2>4 DEF at
<1>5. subs'[i].jobs = Tail(q)
  BY DoesAJob
<1> HIDE DEF q
<1> QED
  BY <1>3, <1>4, <1>5

\* A job that touches no file of the configuration and no secret.
LEMMA PopsQuietly ==
    ASSUME OnboardShape, IsSetup(subs[1]), Active(1), FilesInv, Pop(1),
           UNCHANGED <<disk, secrets, halfway>>, Job(1).job \in {"pass", "templates"}
    PROVE  PopsHere /\ FilesInv'
<1>0. HaveSlots /\ 1 \in Slot
  BY DEF OnboardShape, HaveSlots, Slot
<1>1. /\ subs'[1].state = subs[1].state /\ subs'[1].jobs = Tail(subs[1].jobs)
      /\ subs'[1].at \in {"read", "done"}
      /\ Active(1)' \/ subs'[1].at = "done"
  BY <1>0, DoesAJob DEF IsSetup, Active
<1>2. /\ \A at \in {"cut", "write"} : \A jobs : ~At(1, at, jobs)'
      /\ \A f : ~Emptied(f)' /\ ~Writing(1)'
  BY <1>1 DEF At, Emptied, Writing, Busy
<1>3. ~Writing(1) /\ (\A f : ~Emptied(f)) /\ Job(1).job \notin Configs
  BY Filing DEF Writing, Busy, At, Emptied, Configs
<1>4. Hand' = Hand
  BY <1>2, <1>3 DEF Hand
<1>5. PopsHere
  BY <1>0, <1>1, <1>2, <1>3, <1>4, JobIsFirst DEF PopsHere, There
<1>6. FilesInv'
  BY <1>0, <1>1, <1>2, LastJob DEF FilesInv
<1> QED
  BY <1>5, <1>6

\* A step that fails.
LEMMA FailsWell ==
    ASSUME OnboardShape, FilesInv, Fail(1), UNCHANGED disk,
           ~halfway' => /\ ~halfway /\ subs[1].at # "write"
                        /\ Job(1).job = "models" => disk["models"].entries = Empty
    PROVE  FailsHere /\ FilesInv'
<1>0. HaveSlots /\ 1 \in Slot
  BY DEF OnboardShape, HaveSlots, Slot
<1>1. subs'[1].at = "failed" /\ ~Active(1)'
  BY <1>0, Fails
<1>2. ~There' /\ \A at, jobs : ~At(1, at, jobs)'
  BY <1>1 DEF There, At
<1>3. FilesInv'
  BY <1>1, <1>2 DEF FilesInv
<1>4. subs[1].at # "write" => \A f : ~Emptied(f)
  BY DEF Emptied, At
<1>5. FailsHere
  BY <1>2, <1>4 DEF FailsHere, Between, Now
<1> QED
  BY <1>3, <1>5

\* A step that goes on with the job at hand.
LEMMA SameJob ==
    ASSUME OnboardShape, IsSetup(subs[1]), NEW at \in {"cut", "write", "end"}, NEW held,
           Go(1, at, held)
    PROVE  /\ There' /\ subs[1].at # "done" /\ subs'[1].at = at /\ subs'[1].held = held
           /\ subs'[1].state = subs[1].state /\ subs'[1].jobs = subs[1].jobs
           /\ Job(1)' = Job(1)
           /\ \A x, jobs : At(1, x, jobs)' <=> x = at /\ Job(1).job \in jobs
<1>0. HaveSlots /\ 1 \in Slot
  BY DEF OnboardShape, HaveSlots, Slot
<1>1. /\ IsSetup(subs'[1]) /\ subs'[1].at = at /\ subs'[1].held = held
      /\ subs'[1].state = subs[1].state /\ subs'[1].jobs = subs[1].jobs
  BY <1>0, GoesOn
<1>2. Active(1)' /\ Job(1)' = Job(1) /\ subs[1].jobs # <<>>
  BY <1>1 DEF Active, Job, IsSetup
<1>3. subs[1].at # "done"
  BY DEF IsSetup
<1> QED
  BY <1>1, <1>2, <1>3 DEF There, At

\* A job that touches no file of the configuration goes on.
LEMMA GoesOnElsewhere ==
    ASSUME OnboardShape, IsSetup(subs[1]), FilesInv, UNCHANGED <<disk, halfway>>,
           NEW at \in {"cut", "write", "end"}, NEW held, Go(1, at, held),
           Job(1).job \notin Configs, Hand' = Hand
    PROVE  GoesOnHere /\ FilesInv'
<1>1. /\ There' /\ subs[1].at # "done" /\ subs'[1].at = at
      /\ subs'[1].state = subs[1].state /\ subs'[1].jobs = subs[1].jobs
      /\ \A x : ~At(1, x, Configs)'
  BY SameJob
<1>2. \A f : ~Emptied(f) /\ ~Emptied(f)'
  BY <1>1 DEF Emptied, At
<1>3. \A f : Now(f)' = Now(f)
  BY <1>2 DEF Now
<1>4. GoesOnHere
  BY <1>1, <1>3 DEF GoesOnHere
<1>5. FilesInv'
  BY <1>1 DEF FilesInv
<1> QED
  BY <1>4, <1>5

LEMMA SecretGoesOn ==
    ASSUME OnboardShape, StoreInv, IsSetup(subs[1]), FilesInv, UNCHANGED <<disk, halfway>>,
           NEW at \in {"cut", "write"}, NEW held, Go(1, at, held),
           \/ At(1, "read", {"secret"}) /\ held = secrets.entries
           \/ At(1, "cut", {"secret"}) /\ held = subs[1].held
    PROVE  GoesOnHere /\ FilesInv'
<1>1. Job(1).job = "secret" /\ Job(1).job \notin Configs
  BY Filing DEF At
<1>2. Writing(1)' /\ subs'[1].held = held
  BY <1>1, SameJob DEF Writing, Busy
<1>3. Hand = held
  BY DEF Hand, Writing, Busy, At
<1>4. Hand' = Hand
  BY <1>2, <1>3 DEF Hand
<1> QED
  BY <1>1, <1>4, GoesOnElsewhere

LEMMA TemplateGoesOn ==
    ASSUME OnboardShape, IsSetup(subs[1]), FilesInv, UNCHANGED <<disk, secrets, halfway>>,
           NEW at \in {"cut", "write", "end"}, NEW held, Go(1, at, held),
           Job(1).job = "templates"
    PROVE  GoesOnHere /\ FilesInv'
<1>1. Job(1).job \notin Configs
  BY Filing
<1>2. ~Writing(1) /\ ~Writing(1)'
  BY SameJob DEF Writing, Busy, At
<1>3. Hand' = Hand
  BY <1>2 DEF Hand
<1> QED
  BY <1>1, <1>3, GoesOnElsewhere

\* A writer has read its file.
LEMMA FileIsRead ==
    ASSUME OnboardShape, IsSetup(subs[1]), FilesInv, UNCHANGED <<disk, secrets, halfway>>,
           At(1, "read", Configs), Go(1, "cut", disk[FileOf(Job(1).job)].entries)
    PROVE  GoesOnHere /\ FilesInv'
<1> DEFINE held == disk[FileOf(Job(1).job)].entries
<1>1. /\ There' /\ subs[1].at # "done" /\ subs'[1].at = "cut" /\ subs'[1].held = held
      /\ subs'[1].state = subs[1].state /\ subs'[1].jobs = subs[1].jobs
      /\ Job(1)' = Job(1)
      /\ \A x, jobs : At(1, x, jobs)' <=> x = "cut" /\ Job(1).job \in jobs
  <2> HIDE DEF held
  <2>1. Go(1, "cut", held)
    BY DEF held
  <2> QED
    BY <2>1, SameJob
<1>2. subs[1].at = "read" /\ Job(1).job \in Configs /\ Job(1).job # "secret"
  BY Filing DEF At
<1>3. (\A f : ~Emptied(f) /\ ~Emptied(f)') /\ ~Writing(1) /\ ~Writing(1)'
  BY <1>1, <1>2 DEF Emptied, Writing, Busy, At
<1>4. (\A f : Now(f)' = Now(f)) /\ Hand' = Hand
  BY <1>3 DEF Now, Hand
<1>5. GoesOnHere
  BY <1>1, <1>4 DEF GoesOnHere
<1>6. FilesInv'
  BY <1>1 DEF FilesInv
<1> QED
  BY <1>5, <1>6

\* It empties it.
LEMMA FileIsCut ==
    ASSUME OnboardShape, IsSetup(subs[1]), FilesInv, UNCHANGED <<secrets, halfway>>,
           At(1, "cut", Configs), Go(1, "write", subs[1].held),
           disk' = [disk EXCEPT ![FileOf(Job(1).job)] = Whole(Empty)]
    PROVE  GoesOnHere /\ FilesInv'
<1> DEFINE held == subs[1].held
           file == FileOf(Job(1).job)
<1>1. /\ There' /\ subs[1].at # "done" /\ subs'[1].at = "write" /\ subs'[1].held = held
      /\ subs'[1].state = subs[1].state /\ subs'[1].jobs = subs[1].jobs
      /\ Job(1)' = Job(1)
      /\ \A x, jobs : At(1, x, jobs)' <=> x = "write" /\ Job(1).job \in jobs
  BY SameJob
<1>2. subs[1].at = "cut" /\ Job(1).job \in Configs /\ Job(1).job # "secret" /\ file \in FILES
  BY Filing DEF At
<1>3. (\A f : ~Emptied(f) /\ (Emptied(f)' <=> f = file)) /\ ~Writing(1) /\ ~Writing(1)'
  BY <1>1, <1>2 DEF Emptied, Writing, Busy, At
<1>4. held = disk[file].entries
  BY DEF FilesInv
<1>5. disk'[file] = Whole(Empty) /\ \A f \in FILES : f # file => disk'[f] = disk[f]
  <2> HIDE DEF file
  <2> QED BY <1>2 DEF OnboardShape, file
<1>6. \A f \in FILES : Now(f)' = Now(f)
  BY <1>1, <1>3, <1>4, <1>5 DEF Now
<1>7. Hand' = Hand
  BY <1>3 DEF Hand
<1>8. GoesOnHere
  BY <1>1, <1>2, <1>5, <1>6, <1>7 DEF GoesOnHere
<1>9. \A f \in FILES : IsFile(disk'[f])
  BY <1>5, Filing DEF FilesInv
<1>10. FilesInv'
  BY <1>1, <1>5, <1>9 DEF FilesInv
<1> QED
  BY <1>8, <1>10

\* A secret is stored.
LEMMA SecretIsStored ==
    ASSUME OnboardShape, StoreInv, alone, Active(1), IsSetup(subs[1]), FilesInv,
           KeychainSet(1) \/ SecretWrite(1)
    PROVE  PopsHere /\ FilesInv'
<1>0. HaveSlots /\ 1 \in Slot
  BY DEF OnboardShape, HaveSlots, Slot
<1>1. Job(1).job = "secret" /\ Pop(1) /\ UNCHANGED <<disk, halfway>> /\ subs[1].at \in {"read", "write"}
  BY DEF KeychainSet, SecretWrite, Quiet, At
<1>2. /\ subs'[1].state = subs[1].state /\ subs'[1].jobs = Tail(subs[1].jobs)
      /\ subs'[1].at \in {"read", "done"}
      /\ Active(1)' \/ subs'[1].at = "done"
  BY <1>0, <1>1, DoesAJob DEF IsSetup, Active
<1>3. /\ \A at \in {"cut", "write"} : \A jobs : ~At(1, at, jobs)'
      /\ \A f : ~Emptied(f)' /\ ~Writing(1)'
  BY <1>2 DEF At, Emptied, Writing, Busy
<1>4. Job(1).job \notin Configs /\ \A f : ~Emptied(f)
  BY <1>1, Filing DEF At, Emptied
<1>5. Hand' = With(Hand, Job(1).name, Job(1).value)
  <2> DEFINE new(f) == With(f, Job(1).name, Job(1).value)
  <2>1. Hand' = secrets'.entries
    BY <1>3 DEF Hand
  <2>2. CASE KeychainSet(1)
    <3>1. ~Writing(1) /\ secrets' = Whole(new(secrets.entries))
      BY <1>0, <2>2 DEF KeychainSet, StoreInv
    <3>2. Hand = secrets.entries
      BY <3>1 DEF Hand
    <3>3. \A e : Whole(e).entries = e
      BY Filing
    <3> HIDE DEF new
    <3>4. Hand' = new(Hand)
      BY <2>1, <3>1, <3>2, <3>3
    <3> QED
      BY <3>4 DEF new
  <2>3. CASE SecretWrite(1)
    <3>1. At(1, "write", {"secret"}) /\ secrets' \in Over(secrets, Replaced(1), TornFile)
      BY <2>3 DEF SecretWrite
    <3>2. secrets = TornFile
      <4>1. /\ secrets \in [file : {"missing", "torn", "whole"}, entries : {secrets.entries}]
            /\ secrets.file = "torn" /\ secrets.entries = Empty
        BY <3>1 DEF StoreInv
      <4> QED
        BY <4>1 DEF TornFile, Empty
    <3>3. secrets' = Replaced(1)
      BY <3>1, <3>2 DEF Over
    <3>4. Hand = subs[1].held
      BY <3>1 DEF Hand, Writing, Busy
    <3>5. Replaced(1).entries = new(subs[1].held)
      BY Filing DEF Replaced
    <3> HIDE DEF new
    <3>6. Hand' = new(Hand)
      BY <2>1, <3>3, <3>4, <3>5
    <3> QED
      BY <3>6 DEF new
  <2> QED
    BY <2>2, <2>3
<1>6. There'
  BY <1>2 DEF There
<1>7. subs[1].jobs # <<>> /\ IsSeq(subs[1].jobs)
  BY DEF IsSetup
<1>8. PopsHere
  BY <1>1, <1>2, <1>3, <1>4, <1>5, <1>6, <1>7 DEF PopsHere
<1>9. FilesInv'
  BY <1>0, <1>1, <1>2, <1>3, LastJob DEF FilesInv
<1> QED
  BY <1>8, <1>9

\* A file is written.
LEMMA FileIsWritten ==
    ASSUME OnboardShape, Active(1), IsSetup(subs[1]), FilesInv, ConfigWrite(1)
    PROVE  PopsHere /\ FilesInv'
<1>0. HaveSlots /\ 1 \in Slot
  BY DEF OnboardShape, HaveSlots, Slot
<1> DEFINE file == FileOf(Job(1).job)
           text == Text(Job(1).job, subs[1].held, subs[1].state)
<1>1. /\ At(1, "write", Configs) /\ Pop(1) /\ UNCHANGED <<secrets, halfway>>
      /\ \E new \in Over(disk[file], Whole(text), Whole(Empty)) : disk' = [disk EXCEPT ![file] = new]
  BY DEF ConfigWrite, Quiet
<1>2. disk[file] = Whole(Empty)
  BY <1>1 DEF FilesInv
<1>3. disk' = [disk EXCEPT ![file] = Whole(text)]
  <2> HIDE DEF file, text
  <2> QED BY <1>1, <1>2 DEF Over
<1>4. Job(1).job \in Configs /\ Job(1).job # "secret" /\ Job(1).job # "refuse" /\ file \in FILES
      /\ subs[1].at = "write"
  BY <1>1, Filing DEF At
<1>5. /\ subs'[1].state = subs[1].state /\ subs'[1].jobs = Tail(subs[1].jobs)
      /\ subs'[1].at \in {"read", "done"}
      /\ Active(1)' \/ subs'[1].at = "done"
  BY <1>0, <1>1, DoesAJob DEF IsSetup, Active
<1>6. /\ \A at \in {"cut", "write"} : \A jobs : ~At(1, at, jobs)'
      /\ \A f : ~Emptied(f)' /\ ~Writing(1)'
  BY <1>5 DEF At, Emptied, Writing, Busy
<1>7. ~Writing(1) /\ \A f : Emptied(f) <=> f = file
  BY <1>1, <1>4 DEF Writing, Busy, At, Emptied
<1>8. disk'[file] = Whole(text) /\ \A f \in FILES : f # file => disk'[f] = disk[f]
  <2> HIDE DEF file, text
  <2> QED BY <1>3, <1>4 DEF OnboardShape
<1>9. Now(file) = subs[1].held
  BY <1>7 DEF Now
<1>10. Whole(text) = Whole(Text(Job(1).job, Now(file), Asks))
  BY <1>9 DEF Asks
<1>11. \A f \in FILES :
          disk'[f] = IF Job(1).job \in Configs /\ FileOf(Job(1).job) = f
                     THEN Whole(Text(Job(1).job, Now(f), Asks)) ELSE disk[f]
  <2> HIDE DEF text
  <2> QED BY <1>4, <1>8, <1>10
<1>12. Hand' = Hand
  BY <1>1, <1>6, <1>7 DEF Hand
<1>13. There'
  BY <1>5 DEF There
<1>14. subs[1].jobs # <<>> /\ IsSeq(subs[1].jobs)
  BY DEF IsSetup
<1>15. PopsHere
  <2> HIDE DEF text
  <2> QED
    BY <1>1, <1>4, <1>5, <1>6, <1>7, <1>11, <1>12, <1>13, <1>14 DEF PopsHere
<1>16. \A f \in FILES : IsFile(disk'[f])
  <2> HIDE DEF text, file
  <2> QED BY <1>8, Filing DEF FilesInv
<1>17. FilesInv'
  BY <1>0, <1>1, <1>5, <1>6, <1>16, LastJob DEF FilesInv
<1> QED
  BY <1>15, <1>17

\* Every step of the one setup is one of the three.
LEMMA StepsOfASetup ==
    ASSUME OnboardShape, StoreInv, alone, FilesInv, StepOf(1)
    PROVE  /\ FailsHere \/ GoesOnHere \/ PopsHere
           /\ FilesInv'
<1>0. HaveSlots /\ 1 \in Slot
  BY DEF OnboardShape, HaveSlots, Slot
<1>1. Active(1) /\ IsSetup(subs[1])
  BY <1>0, SetupStepKeepsTheShape DEF StepOf
<1>2. CASE Continue(1) \/ Finish(1)
  <2>1. /\ Pop(1) /\ UNCHANGED <<disk, secrets, halfway>> /\ Job(1).job \in {"pass", "templates"}
    BY <1>2 DEF Continue, Finish, At, Quiet, store, history
  <2> QED
    BY <1>1, <2>1, PopsQuietly
<1>3. CASE Refuse(1)
  <2>1. /\ Fail(1) /\ UNCHANGED <<disk, halfway>> /\ subs[1].at = "read" /\ Job(1).job = "refuse"
    BY <1>3 DEF Refuse, At, Quiet
  <2> QED
    BY <2>1, FailsWell
<1>4. CASE IoFails(1)
  <2>1. /\ Fail(1) /\ UNCHANGED disk
        /\ halfway' = (halfway \/ subs[1].at = "write" \/ Job(1).job = "models")
    BY <1>4 DEF IoFails, store
  <2> QED
    BY <2>1, FailsWell
<1>5. CASE KeychainSet(1) \/ SecretWrite(1)
  BY <1>1, <1>5, SecretIsStored
<1>6. CASE SecretRead(1)
  <2>1. /\ At(1, "read", {"secret"}) /\ UNCHANGED <<disk, halfway>>
        /\ IF secrets.file = "torn" THEN Fail(1) ELSE Go(1, "cut", secrets.entries)
    BY <1>6 DEF SecretRead, Quiet
  <2>2. subs[1].at = "read" /\ Job(1).job = "secret"
    BY <2>1 DEF At
  <2>3. CASE secrets.file = "torn"
    BY <2>1, <2>2, <2>3, FailsWell
  <2>4. CASE secrets.file # "torn"
    BY <1>1, <2>1, <2>4, SecretGoesOn
  <2> QED
    BY <2>3, <2>4
<1>7. CASE SecretCut(1)
  <2>1. /\ At(1, "cut", {"secret"}) /\ UNCHANGED <<disk, halfway>> /\ Go(1, "write", subs[1].held)
    BY <1>7 DEF SecretCut, Quiet
  <2> QED
    BY <1>1, <2>1, SecretGoesOn
<1>8. CASE ConfigRead(1)
  <2> DEFINE f == FileOf(Job(1).job)
  <2>1. /\ At(1, "read", Configs) /\ UNCHANGED <<disk, secrets, halfway>>
        /\ IF disk[f].file = "torn" THEN Fail(1) ELSE Go(1, "cut", disk[f].entries)
    BY <1>8 DEF ConfigRead, Quiet, Parsed
  <2>2. CASE disk[f].file = "torn"
    <3>1. Fail(1) /\ subs[1].at = "read"
      BY <2>1, <2>2 DEF At
    <3>2. Job(1).job = "models" => disk["models"].entries = Empty
      <4> SUFFICES ASSUME Job(1).job = "models" PROVE disk["models"].entries = Empty
        OBVIOUS
      <4>1. disk["models"].file = "torn"
        BY <2>2 DEF FileOf
      <4>2. IsFile(disk["models"])
        BY DEF FilesInv, FILES
      <4> QED
        BY <4>1, <4>2 DEF IsFile, NoFile, TornFile, Whole, Empty
    <3> QED
      BY <2>1, <3>1, <3>2, FailsWell
  <2>3. CASE disk[f].file # "torn"
    BY <1>1, <2>1, <2>3, FileIsRead
  <2> QED
    BY <2>2, <2>3
<1>9. CASE ConfigCut(1)
  <2>1. /\ UNCHANGED <<secrets, halfway>> /\ At(1, "cut", Configs) /\ Go(1, "write", subs[1].held)
        /\ disk' = [disk EXCEPT ![FileOf(Job(1).job)] = Whole(Empty)]
    BY <1>9 DEF ConfigCut, Quiet
  <2> QED
    BY <1>1, <2>1, FileIsCut
<1>10. CASE ConfigWrite(1)
  BY <1>1, <1>10, FileIsWritten
<1>11. CASE TemplateCheck(1) \/ TemplateBackup(1) \/ TemplateWrite(1)
  <2>1. /\ UNCHANGED <<disk, secrets, halfway>> /\ Job(1).job = "templates"
        /\ \E at \in {"cut", "write", "end"} : Go(1, at, Missing)
    BY <1>11 DEF TemplateCheck, TemplateBackup, TemplateWrite, At, Quiet
  <2> QED
    BY <1>1, <2>1, TemplateGoesOn
<1> QED
  BY <1>2, <1>3, <1>4, <1>5, <1>6, <1>7, <1>8, <1>9, <1>10, <1>11 DEF StepOf

(***************************************************************************)
(* What the steps keep.                                                    *)
(***************************************************************************)
\* The jobs that are left after the first.
LEMMA JobsLeft ==
    ASSUME NEW q, IsSeq(q), q # <<>>
    PROVE  /\ 1 \in DOMAIN q /\ Head(q) = q[1]
           /\ \A l \in DOMAIN q : l = 1 \/ \E k \in DOMAIN Tail(q) : Tail(q)[k] = q[l]
           /\ \A l \in DOMAIN Tail(q) : \E k \in DOMAIN q : Tail(q)[l] = q[k]
           /\ 2 \in DOMAIN q => Tail(q) # <<>> /\ Head(Tail(q)) = q[2]
<1> DEFINE r == Tail(q)
           n == Len(q)
<1>1. /\ IsSeq(r) /\ Len(r) = n - 1 /\ n \in Nat /\ n > 0 /\ Head(q) = q[1]
      /\ \A k \in 1..(n - 1) : r[k] = q[k + 1]
  BY IsSeqTail
<1>2. DOMAIN q = 1..n /\ DOMAIN r = 1..(n - 1)
  <2>1. DOMAIN q = 1..n /\ DOMAIN r = 1..Len(r)
    BY <1>1, IsSeqFacts
  <2> QED
    BY <1>1, <2>1
<1>3. r # <<>> <=> Len(r) > 0
  BY <1>1, IsSeqFacts
<1>4. r # <<>> => Head(r) = r[1]
  BY <1>1, IsSeqTail
<1> HIDE DEF r, n
<1>5. 1 \in DOMAIN q
  BY <1>1, <1>2
<1>6. ASSUME NEW l \in DOMAIN q, l # 1 PROVE \E k \in DOMAIN r : r[k] = q[l]
  <2>1. l - 1 \in 1..(n - 1) /\ (l - 1) + 1 = l
    BY <1>1, <1>2, <1>6
  <2> QED
    BY <1>1, <1>2, <2>1
<1>7. ASSUME NEW l \in DOMAIN r PROVE \E k \in DOMAIN q : r[l] = q[k]
  <2>1. l + 1 \in 1..n
    BY <1>1, <1>2, <1>7
  <2> QED
    BY <1>1, <1>2, <1>7, <2>1
<1>8. ASSUME 2 \in DOMAIN q PROVE r # <<>> /\ Head(r) = q[2]
  <2>1. 1 \in 1..(n - 1) /\ n - 1 > 0 /\ 1 + 1 = 2
    BY <1>1, <1>2, <1>8
  <2>2. r[1] = q[2]
    BY <1>1, <2>1
  <2> QED
    BY <1>1, <1>3, <1>4, <2>1, <2>2
<1> QED
  BY <1>1, <1>5, <1>6, <1>7, <1>8 DEF r

\* The provider that gets a model is a chosen one that has it.
LEMMA OwnersAreChosen ==
    ASSUME NEW s, IsSeq(s.providers), NEW m \in DOMAIN PutModels(s)
    PROVE  \E p \in Chosen(s) : m \in p.models /\ PutModels(s)[m] = p.id
<1> DEFINE having == {i \in Kept(s) : m \in s.providers[i].models}
           n == Len(s.providers)
           last == CHOOSE i \in having : \A j \in having : j <= i
<1>1. n \in Nat /\ DOMAIN s.providers = 1..n
  BY IsSeqFacts
<1>2. having # {}
  BY DEF PutModels, Chosen
<1>3. having \subseteq 0..n
  BY <1>1 DEF Kept
<1>4. \E i \in having : \A j \in having : j <= i
  <2> HIDE DEF having, n
  <2> QED BY <1>1, <1>2, <1>3, Greatest
<1>5. last \in having
  <2> HIDE DEF having
  <2> QED BY <1>4
<1>6. PutModels(s)[m] = s.providers[last].id
  BY DEF PutModels, Owner
<1>7. last \in Kept(s) /\ m \in s.providers[last].models
  <2> HIDE DEF last
  <2> QED BY <1>5
<1> HIDE DEF last
<1> QED
  BY <1>6, <1>7 DEF Chosen

\* The ids of a list tell its providers apart.
LEMMA ChosenById ==
    ASSUME NEW s, Distinct(s.providers), NEW p \in Chosen(s), NEW r \in Chosen(s), p.id = r.id
    PROVE  p = r
  BY DEF Chosen, Distinct, Kept

\* The texts of the files hold what was chosen.
LEMMA ProvidersAreSaved ==
    ASSUME NEW s, NEW old
    PROVE  /\ ProvidersIn(saveProvidersConfig(old, s), s)
           /\ \A x \in DOMAIN old : x \in s.removed \/ x \in DOMAIN saveProvidersConfig(old, s)
<1> DEFINE f == saveProvidersConfig(old, s)
<1>1. DOMAIN f = (DOMAIN old \ s.removed) \cup {p.id : p \in Chosen(s)}
  BY DEF saveProvidersConfig, Assigned, Put
<1>2. \A p \in Chosen(s) : p.id \notin s.removed
  BY DEF Chosen, Kept
<1> HIDE DEF f
<1>3. ProvidersIn(f, s)
  BY <1>1, <1>2 DEF ProvidersIn
<1> QED
  BY <1>1, <1>3 DEF f

LEMMA ModelsAreSaved ==
    ASSUME NEW s, IsSeq(s.providers), Distinct(s.providers), NEW old
    PROVE  /\ ModelsIn(ModelsFile(old, s), s)
           /\ \A m \in DOMAIN ModelsFile(old, s) :
                 \/ \E p \in Chosen(s) : ModelsFile(old, s)[m] = p.id
                 \/ /\ m \in DOMAIN old /\ ModelsFile(old, s)[m] = old[m]
                    /\ s.exact => old[m] \notin s.removed
<1> DEFINE f == ModelsFile(old, s)
           put == PutModels(s)
           dropped == {m \in DOMAIN old :
              \/ old[m] \in s.removed
              \/ \E p \in Chosen(s) : old[m] = p.id /\ m \notin p.models}
           stay == DOMAIN old \ (IF s.exact THEN dropped ELSE {})
<1>1. f = Assigned([m \in stay |-> old[m]], put)
  BY DEF ModelsFile
<1>2. /\ DOMAIN f = stay \cup DOMAIN put
      /\ \A m \in DOMAIN put : f[m] = put[m]
      /\ \A m \in stay : m \notin DOMAIN put => f[m] = old[m]
  <2> HIDE DEF f, stay, put
  <2> QED BY <1>1 DEF Assigned
<1>3. \A m \in DOMAIN put : \E p \in Chosen(s) : m \in p.models /\ put[m] = p.id
  BY OwnersAreChosen
<1>4. \A m \in stay : /\ m \in DOMAIN old
                      /\ s.exact => /\ old[m] \notin s.removed
                                    /\ \A p \in Chosen(s) : old[m] = p.id => m \in p.models
  OBVIOUS
<1>5. \A p, r \in Chosen(s) : p.id = r.id => p = r
  BY ChosenById
<1> HIDE DEF f, stay
<1>6. \A m \in DOMAIN f : s.exact => \A p \in Chosen(s) : f[m] = p.id => m \in p.models
  <2> SUFFICES ASSUME NEW m \in DOMAIN f, s.exact, NEW p \in Chosen(s), f[m] = p.id
               PROVE  m \in p.models
    OBVIOUS
  <2>1. CASE m \in DOMAIN put
    <3>1. PICK r \in Chosen(s) : m \in r.models /\ put[m] = r.id
      BY <1>3, <2>1
    <3>2. r.id = p.id
      BY <1>2, <2>1, <3>1
    <3> QED
      BY <1>5, <3>1, <3>2
  <2>2. CASE m \notin DOMAIN put
    BY <1>2, <1>4, <2>2
  <2> QED
    BY <2>1, <2>2
<1>7. ModelsIn(f, s)
  BY <1>2, <1>6 DEF ModelsIn
<1>8. ASSUME NEW m \in DOMAIN f
      PROVE  \/ \E p \in Chosen(s) : f[m] = p.id
             \/ m \in DOMAIN old /\ f[m] = old[m] /\ (s.exact => old[m] \notin s.removed)
  <2>1. CASE m \in DOMAIN put
    BY <1>2, <1>3, <2>1
  <2>2. CASE m \notin DOMAIN put
    BY <1>2, <1>4, <2>2
  <2> QED
    BY <2>1, <2>2
<1> QED
  BY <1>7, <1>8 DEF f

LEMMA ChannelsAreSaved ==
    ASSUME NEW s, NEW old PROVE ChannelsIn(saveChannelsConfig(old, s), s)
  BY DEF saveChannelsConfig, Assigned, ChannelsIn

LEMMA PulseIsSaved ==
    ASSUME NEW s, NEW old, HasPulse(old)
    PROVE  /\ HasPulse(savePreferencesConfig(old, s)) /\ HasPulse(WithPulse(old))
           /\ WithPulse(old).pulse
  BY DEF HasPulse, savePreferencesConfig, WithPulse

\* Which jobs are left, and of which file.
LEMMA LeftAfterAJob ==
    ASSUME Active(1), IsSetup(subs[1]), FilesInv', PopsHere, Ordered(subs[1].jobs, Asks)
    PROVE  /\ Job(1) = subs[1].jobs[1] /\ 1 \in DOMAIN subs[1].jobs
           /\ \A job : ToDo(job) => ToDo(job)' \/ Job(1).job = job
           /\ Job(1).job = "providers" => Between'
           /\ Job(1).job = "models" => ~ToDo("providers")
           /\ Asks.pulse /\ Job(1).job = "preferences" => ToDo("pulse")'
<1> DEFINE q == subs[1].jobs
           r == Tail(q)
<1>1. IsSeq(q) /\ q # <<>> /\ subs'[1].jobs = r
  BY DEF PopsHere
<1>2. /\ 1 \in DOMAIN q /\ Head(q) = q[1]
      /\ \A l \in DOMAIN q : l = 1 \/ \E k \in DOMAIN r : r[k] = q[l]
      /\ 2 \in DOMAIN q => r # <<>> /\ Head(r) = q[2]
  <2> HIDE DEF q
  <2> QED BY <1>1, JobsLeft
<1>3. Job(1) = q[1]
  BY <1>2 DEF Job
<1>4. /\ Then(q, "providers", "models") /\ Before(q, "providers", "models")
      /\ Asks.pulse => Then(q, "preferences", "pulse")
  BY DEF Ordered
<1> HIDE DEF q, r
<1>5. ASSUME NEW job, ToDo(job) PROVE ToDo(job)' \/ Job(1).job = job
  <2>1. PICK l \in DOMAIN q : q[l].job = job
    BY <1>5 DEF ToDo, q
  <2> QED
    BY <1>1, <1>2, <1>3, <2>1 DEF ToDo
<1>6. ASSUME Job(1).job = "providers" PROVE Between'
  <2>1. 2 \in DOMAIN q /\ q[2].job = "models"
    BY <1>2, <1>3, <1>4, <1>6 DEF Then
  <2>2. r # <<>> /\ Job(1)' = q[2]
    BY <1>1, <1>2, <2>1 DEF Job
  <2>3. Active(1)'
    BY <1>1, <2>2 DEF PopsHere, There, FilesInv
  <2> QED
    BY <2>1, <2>2, <2>3 DEF Between
<1>7. ASSUME Job(1).job = "models" PROVE ~ToDo("providers")
  <2> SUFFICES ASSUME NEW l \in DOMAIN q, q[l].job = "providers" PROVE FALSE
    BY DEF ToDo, q
  <2>1. l < 1
    BY <1>2, <1>3, <1>4, <1>7 DEF Before
  <2>2. DOMAIN q = 1..Len(q) /\ Len(q) \in Nat
    BY <1>1, IsSeqFacts
  <2> QED
    BY <2>1, <2>2
<1>8. ASSUME Asks.pulse, Job(1).job = "preferences" PROVE ToDo("pulse")'
  <2>1. 2 \in DOMAIN q /\ q[2].job = "pulse"
    BY <1>2, <1>3, <1>4, <1>8 DEF Then
  <2>2. 2 # 1
    OBVIOUS
  <2>3. \E k \in DOMAIN r : r[k] = q[2]
    BY <1>2, <2>1, <2>2
  <2> QED
    BY <1>1, <2>1, <2>3 DEF ToDo
<1> QED
  BY <1>2, <1>3, <1>5, <1>6, <1>7, <1>8 DEF q

LEMMA RunIsKept ==
    ASSUME Active(1), RunInv, FailsHere \/ GoesOnHere \/ PopsHere, FilesInv', subs'[2] = subs[2]
    PROVE  RunInv'
<1>1. There' => /\ Ordered(subs'[1].jobs, Asks') /\ Asks' = Asks
  <2>1. Ordered(subs[1].jobs, Asks)
    BY DEF RunInv, There
  <2>2. CASE FailsHere
    BY <2>2 DEF FailsHere
  <2>3. CASE GoesOnHere
    BY <2>1, <2>3 DEF GoesOnHere, Asks
  <2>4. CASE PopsHere
    BY <2>1, <2>4, RestIsOrdered DEF PopsHere, Asks
  <2> QED
    BY <2>2, <2>3, <2>4
<1>2. There' => /\ Distinct(Asks'.providers) /\ IsSeq(Asks'.providers)
                /\ Asks'.exact \/ Asks'.removed = {}
  BY <1>1 DEF RunInv, There
<1> QED
  BY <1>1, <1>2 DEF RunInv, FilesInv

\* What the files hold after a job.
LEMMA FilesAfterAJob ==
    ASSUME PopsHere
    PROVE  /\ \A f \in FILES : Now(f)' = disk'[f].entries
           /\ \A f \in FILES : ~(Job(1).job \in Configs /\ FileOf(Job(1).job) = f) =>
                                  Now(f)' = Now(f) /\ disk'[f] = disk[f] /\ Now(f) = disk[f].entries
           /\ \A job \in {"providers", "models", "channels"} :
                 Job(1).job = job => Now(job)' = Text(job, Now(job), Asks)
           /\ Job(1).job \in {"preferences", "pulse"} =>
                 Now("preferences")' = Text(Job(1).job, Now("preferences"), Asks)
<1>1. \A f \in FILES : Now(f)' = disk'[f].entries
  BY DEF PopsHere, Now
<1>2. ASSUME NEW f \in FILES, ~(Job(1).job \in Configs /\ FileOf(Job(1).job) = f)
      PROVE  Now(f)' = Now(f) /\ disk'[f] = disk[f] /\ Now(f) = disk[f].entries
  <2>1. ~Emptied(f) /\ disk'[f] = disk[f]
    BY <1>2 DEF PopsHere
  <2> QED
    BY <1>1, <2>1 DEF Now
<1>3. ASSUME NEW f \in FILES, Job(1).job \in Configs, FileOf(Job(1).job) = f
      PROVE  Now(f)' = Text(Job(1).job, Now(f), Asks)
  <2>1. disk'[f] = Whole(Text(Job(1).job, Now(f), Asks))
    BY <1>3 DEF PopsHere
  <2> QED
    BY <1>1, <2>1, Filing
<1>4. /\ \A job \in {"providers", "models", "channels"} : job \in FILES /\ job \in Configs
                                                          /\ FileOf(job) = job
      /\ \A job \in {"preferences", "pulse"} : job \in Configs /\ FileOf(job) = "preferences"
      /\ "preferences" \in FILES
  BY DEF FILES, Configs, FileOf
<1> QED
  BY <1>1, <1>2, <1>3, <1>4

LEMMA ModelsKeepProviders ==
    ASSUME Active(1), IsSetup(subs[1]), RunInv, ModelInv, SavedInv, FilesInv',
           FailsHere \/ GoesOnHere \/ PopsHere
    PROVE  ModelInv'
<1>0. "models" \in FILES /\ "providers" \in FILES /\ There
  BY DEF FILES, There
<1>1. CASE FailsHere
  <2> SUFFICES ASSUME ~halfway', NEW m \in (DOMAIN Now("models"))'
               PROVE  Now("models")'[m] \in (DOMAIN Now("providers"))'
    BY DEF ModelInv
  <2>1. ~halfway /\ (\A f \in FILES : ~Emptied(f)) /\ (Between => Now("models") = Empty)
    BY <1>1 DEF FailsHere
  <2>2. \A f \in FILES : Now(f) = disk[f].entries
    BY <2>1 DEF Now
  <2>3. \A f \in FILES : Now(f)' = disk[f].entries
    <3>1. \A f : ~Emptied(f)'
      BY <1>1 DEF FailsHere, There, Emptied, At
    <3> QED
      BY <1>1, <3>1 DEF FailsHere, Now
  <2>4. m \in DOMAIN Now("models")
    BY <1>0, <2>2, <2>3
  <2>5. ~Between
    BY <2>1, <2>4 DEF Empty
  <2>6. Now("models")[m] \in DOMAIN Now("providers")
    BY <2>1, <2>4, <2>5 DEF ModelInv
  <2> QED
    BY <1>0, <2>2, <2>3, <2>6
<1>2. CASE GoesOnHere
  <2>1. /\ Now("models")' = Now("models") /\ Now("providers")' = Now("providers")
        /\ halfway' = halfway /\ Asks' = Asks
    BY <1>0, <1>2 DEF GoesOnHere, Asks
  <2>2. Between => Between'
    <3>1. Active(1)' /\ Job(1)' = Job(1)
      BY <1>2 DEF GoesOnHere, There, Job
    <3> QED
      BY <3>1 DEF Between
  <2> QED
    BY <2>1, <2>2 DEF ModelInv
<1>3. CASE PopsHere
  <2> SUFFICES ASSUME ~halfway', NEW m \in (DOMAIN Now("models"))'
               PROVE  \/ Now("models")'[m] \in (DOMAIN Now("providers"))'
                      \/ Between' /\ Now("models")'[m] \in Asks'.removed
    BY DEF ModelInv
  <2>0. ~halfway /\ Asks' = Asks
    BY <1>3 DEF PopsHere, Asks
  <2>1. Ordered(subs[1].jobs, Asks) /\ Distinct(Asks.providers) /\ IsSeq(Asks.providers)
        /\ (Asks.exact \/ Asks.removed = {})
    BY <1>0 DEF RunInv
  <2>2. \A k \in DOMAIN Now("models") :
            \/ Now("models")[k] \in DOMAIN Now("providers")
            \/ Between /\ Now("models")[k] \in Asks.removed
    BY <2>0 DEF ModelInv
  <2>3. CASE Job(1).job = "providers"
    <3>1. Between' /\ ~Between
      BY <1>3, <2>1, <2>3, LeftAfterAJob DEF Between
    <3>2. Now("providers")' = saveProvidersConfig(Now("providers"), Asks)
      BY <1>3, <2>3, FilesAfterAJob DEF Text
    <3>3. Now("models")' = Now("models")
      BY <1>0, <1>3, <2>3, FilesAfterAJob DEF FileOf
    <3>4. Now("models")[m] \in DOMAIN Now("providers")
      BY <2>2, <3>1, <3>3
    <3> QED
      BY <2>0, <3>1, <3>2, <3>3, <3>4, ProvidersAreSaved
  <2>4. CASE Job(1).job = "models"
    <3>1. ~ToDo("providers")
      BY <1>3, <2>1, <2>4, LeftAfterAJob
    <3>2. ProvidersIn(disk.providers.entries, Asks)
      BY <1>0, <3>1 DEF SavedInv
    <3>3. Now("models")' = ModelsFile(Now("models"), Asks)
      BY <1>3, <2>4, FilesAfterAJob DEF Text
    <3>4. Now("providers")' = Now("providers") /\ Now("providers") = disk.providers.entries
      BY <1>0, <1>3, <2>4, FilesAfterAJob DEF FileOf
    <3> DEFINE f == Now("models")'
    <3>5. \/ \E p \in Chosen(Asks) : f[m] = p.id
          \/ /\ m \in DOMAIN Now("models") /\ f[m] = Now("models")[m]
             /\ Asks.exact => f[m] \notin Asks.removed
      BY <2>1, <3>3, ModelsAreSaved
    <3>6. f[m] \in DOMAIN Now("providers")
      <4>1. CASE \E p \in Chosen(Asks) : f[m] = p.id
        BY <3>2, <3>4, <4>1 DEF ProvidersIn
      <4>2. CASE /\ m \in DOMAIN Now("models") /\ f[m] = Now("models")[m]
                 /\ Asks.exact => f[m] \notin Asks.removed
        BY <2>1, <2>2, <4>2
      <4> QED
        BY <3>5, <4>1, <4>2
    <3> QED
      BY <3>4, <3>6
  <2>5. CASE Job(1).job \notin {"providers", "models"}
    <3>1. ~Between
      BY <2>5 DEF Between
    <3>2. Now("models")' = Now("models") /\ Now("providers")' = Now("providers")
      BY <1>0, <1>3, <2>5, FilesAfterAJob DEF FileOf
    <3> QED
      BY <2>2, <3>1, <3>2
  <2> QED
    BY <2>3, <2>4, <2>5
<1> QED
  BY <1>1, <1>2, <1>3

LEMMA PulseIsKept ==
    ASSUME FilesInv, HasPulse(Now("preferences")), FailsHere \/ GoesOnHere \/ PopsHere
    PROVE  HasPulse(Now("preferences"))'
<1>0. "preferences" \in FILES
  BY DEF FILES
<1>1. CASE FailsHere
  <2>1. Now("preferences")' = disk.preferences.entries
    BY <1>0, <1>1 DEF FailsHere, There, Now, Emptied, At
  <2>2. CASE Emptied("preferences")
    <3>1. disk.preferences.entries = Empty
      BY <2>2, Filing DEF Emptied, FilesInv
    <3> QED
      BY <2>1, <3>1 DEF HasPulse
  <2>3. CASE ~Emptied("preferences")
    BY <2>1, <2>3 DEF Now
  <2> QED
    BY <2>2, <2>3
<1>2. CASE GoesOnHere
  BY <1>0, <1>2 DEF GoesOnHere
<1>3. CASE PopsHere
  <2> DEFINE old == Now("preferences")
  <2>1. \A s : HasPulse(savePreferencesConfig(old, s)) /\ HasPulse(WithPulse(old))
    BY PulseIsSaved
  <2>2. CASE Job(1).job = "preferences"
    <3>1. Now("preferences")' = savePreferencesConfig(old, Asks)
      BY <1>3, <2>2, FilesAfterAJob DEF Text
    <3> QED
      BY <2>1, <3>1
  <2>3. CASE Job(1).job = "pulse"
    <3>1. Now("preferences")' = WithPulse(old)
      BY <1>3, <2>3, FilesAfterAJob DEF Text
    <3> QED
      BY <2>1, <3>1
  <2>4. CASE Job(1).job \notin {"preferences", "pulse"}
    <3>1. FileOf(Job(1).job) # "preferences"
      BY <2>4 DEF FileOf
    <3>2. Now("preferences")' = old
      BY <1>0, <1>3, <3>1, FilesAfterAJob
    <3> QED
      BY <3>2
  <2> QED
    BY <2>2, <2>3, <2>4
<1> QED
  BY <1>1, <1>2, <1>3

\* A key is stored by its job, and no other job of the setup changes it.
LEMMA KeysStayComing ==
    ASSUME Active(1), IsSetup(subs[1]), RunInv, PopsHere,
           NEW p \in Chosen(Asks), ~p.keep, KeyIsComing(p)
    PROVE  KeyIsComing(p)'
<1> DEFINE q == subs[1].jobs
           r == Tail(q)
           name == SecretOf(p.id)
<1>0. There
  BY DEF There
<1>1. /\ IsSeq(q) /\ q # <<>> /\ subs'[1].jobs = r /\ Job(1).job # "refuse"
      /\ Hand' = IF Job(1).job = "secret" THEN With(Hand, Job(1).name, Job(1).value) ELSE Hand
  BY DEF PopsHere
<1>2. /\ 1 \in DOMAIN q /\ Head(q) = q[1]
      /\ \A l \in DOMAIN q : l = 1 \/ \E k \in DOMAIN r : r[k] = q[l]
  <2> HIDE DEF q
  <2> QED BY <1>1, JobsLeft
<1>3. Job(1) = q[1]
  BY <1>2 DEF Job
<1>4. Distinct(Asks.providers)
  BY <1>0 DEF RunInv
<1>5. Job(1).job = "secret" =>
         (\E x \in Chosen(Asks) : Job(1) = KeyJob(x)) \/ Job(1).name[2] # "api-key"
  BY <1>0, <1>2, <1>3 DEF RunInv, Ordered
<1>6. \A x : KeyJob(x).job = "secret" =>
         KeyJob(x).name = SecretOf(x.id) /\ KeyJob(x).value = x.key
  BY DEF KeyJob, Pass
<1>7. name[2] = "api-key" /\ \A x : SecretOf(x) = name => x = p.id
  BY DEF SecretOf
\* A job that stores this name stores this key.
<1>8. Job(1).job = "secret" /\ Job(1).name = name => Job(1).value = p.key
  <2> SUFFICES ASSUME Job(1).job = "secret", Job(1).name = name PROVE Job(1).value = p.key
    OBVIOUS
  <2>1. PICK x \in Chosen(Asks) : Job(1) = KeyJob(x)
    BY <1>5, <1>7
  <2>2. SecretOf(x.id) = name /\ Job(1).value = x.key
    BY <1>6, <2>1
  <2>3. x = p
    BY <1>4, <1>7, <2>2, ChosenById
  <2> QED
    BY <2>2, <2>3
<1> HIDE DEF q, r, name
<1>9. CASE \E l \in DOMAIN q : q[l] = KeyJob(p)
  <2>1. PICK l \in DOMAIN q : q[l] = KeyJob(p)
    BY <1>9
  <2>2. CASE l = 1
    <3>1. Job(1) = KeyJob(p)
      BY <1>3, <2>1, <2>2
    <3>2. Job(1).job = "secret"
      <4>1. KeyJob(p) = [job |-> "refuse"]
            \/ KeyJob(p) = [job |-> "secret", name |-> SecretOf(p.id), value |-> p.key]
        BY Zenon DEF KeyJob
      <4>2. KeyJob(p).job \in {"refuse", "secret"}
        BY <4>1
      <4> QED
        BY <1>1, <3>1, <4>2
    <3>3. Job(1).name = name /\ Job(1).value = p.key
      BY <1>6, <3>1, <3>2 DEF name
    <3>4. Hand' = With(Hand, name, p.key)
      BY <1>1, <3>2, <3>3
    <3>5. name \in DOMAIN Hand' /\ Hand'[name] = p.key
      BY <3>4 DEF With
    <3> QED
      BY <3>5 DEF KeyIsComing, name
  <2>3. CASE l # 1
    <3>1. \E k \in DOMAIN r : r[k] = KeyJob(p)
      BY <1>2, <2>1, <2>3
    <3> QED
      BY <1>1, <3>1 DEF KeyIsComing
  <2> QED
    BY <2>2, <2>3
<1>10. CASE name \in DOMAIN Hand /\ Hand[name] = p.key
  <2>1. CASE Job(1).job = "secret"
    <3>1. Hand' = With(Hand, Job(1).name, Job(1).value)
      BY <1>1, <2>1
    <3>2. name \in DOMAIN Hand' /\ Hand'[name] = p.key
      BY <1>8, <1>10, <2>1, <3>1 DEF With
    <3> QED
      BY <3>2 DEF KeyIsComing, name
  <2>2. CASE Job(1).job # "secret"
    BY <1>1, <1>10, <2>2 DEF KeyIsComing, name
  <2> QED
    BY <2>1, <2>2
<1> QED
  BY <1>9, <1>10 DEF KeyIsComing, q, name

\* The job at hand is one of those left.
LEMMA JobIsLeft ==
    ASSUME IsSetup(subs[1]), Ordered(subs[1].jobs, Asks)
    PROVE  /\ ToDo(Job(1).job)
           /\ Asks.pulse /\ Job(1).job = "preferences" => ToDo("pulse")
<1>1. 1 \in DOMAIN subs[1].jobs /\ Job(1) = subs[1].jobs[1]
  BY JobIsFirst DEF Slot
<1>2. ASSUME Asks.pulse, Job(1).job = "preferences" PROVE ToDo("pulse")
  BY <1>1, <1>2 DEF Ordered, Then, ToDo
<1> QED
  BY <1>1, <1>2 DEF ToDo

LEMMA ChoicesAreKept ==
    ASSUME Active(1), IsSetup(subs[1]), RunInv, SavedInv, HasPulse(Now("preferences")), FilesInv',
           FailsHere \/ GoesOnHere \/ PopsHere
    PROVE  SavedInv'
<1>0. There /\ Ordered(subs[1].jobs, Asks) /\ Distinct(Asks.providers) /\ IsSeq(Asks.providers)
  BY DEF There, RunInv
<1>1. /\ \A p \in Chosen(Asks) : p.keep \/ KeyIsComing(p)
      /\ ToDo("providers") \/ ProvidersIn(disk.providers.entries, Asks)
      /\ ToDo("models") \/ ModelsIn(disk.models.entries, Asks)
      /\ Asks.channels = <<>> \/ ToDo("channels") \/ ChannelsIn(disk.channels.entries, Asks)
      /\ ~Asks.pulse \/ ToDo("pulse") \/ disk.preferences.entries.pulse
  BY <1>0 DEF SavedInv
<1>2. {"providers", "models", "channels", "preferences"} \subseteq FILES
  BY DEF FILES
<1>3. CASE FailsHere
  BY <1>3 DEF FailsHere, SavedInv
<1>4. CASE GoesOnHere
  <2>1. /\ subs'[1].jobs = subs[1].jobs /\ Asks' = Asks /\ Hand' = Hand
        /\ \A job : ToDo(job)' <=> ToDo(job)
    BY <1>4 DEF GoesOnHere, Asks, ToDo
  <2>2. \A p : KeyIsComing(p)' <=> KeyIsComing(p)
    BY <2>1 DEF KeyIsComing
  <2>3. \A f \in FILES : disk'[f] = disk[f] \/ FileOf(Job(1).job) = f
    BY <1>4 DEF GoesOnHere
  <2>4. \A f \in {"providers", "models", "channels"} : disk'[f] = disk[f] \/ ToDo(f)
    <3>1. ToDo(Job(1).job)
      BY <1>0, JobIsLeft
    <3> QED
      BY <1>2, <2>3, <3>1 DEF FileOf
  <2>5. disk'["preferences"] = disk["preferences"] \/ ~Asks.pulse \/ ToDo("pulse")
    <3>1. ToDo(Job(1).job) /\ (Asks.pulse /\ Job(1).job = "preferences" => ToDo("pulse"))
      BY <1>0, JobIsLeft
    <3>2. FileOf(Job(1).job) = "preferences" => Job(1).job \in {"preferences", "pulse"}
      BY DEF FileOf
    <3> QED
      BY <1>2, <2>3, <3>1, <3>2
  <2> QED
    BY <1>1, <2>1, <2>2, <2>4, <2>5 DEF SavedInv
<1>5. CASE PopsHere
  <2>1. Asks' = Asks
    BY <1>5 DEF PopsHere, Asks
  <2>2. /\ \A job : ToDo(job) => ToDo(job)' \/ Job(1).job = job
        /\ Asks.pulse /\ Job(1).job = "preferences" => ToDo("pulse")'
    BY <1>0, <1>5, LeftAfterAJob
  <2>3. /\ \A f \in FILES : Now(f)' = disk'[f].entries
        /\ \A f \in FILES : FileOf(Job(1).job) # f => disk'[f] = disk[f]
    BY <1>5, FilesAfterAJob
  <2>4. ASSUME NEW p \in Chosen(Asks) PROVE p.keep \/ KeyIsComing(p)'
    BY <1>1, <1>5, <2>4, KeysStayComing
  <2>5. ToDo("providers")' \/ ProvidersIn(disk'.providers.entries, Asks)
    <3>1. CASE Job(1).job = "providers"
      <4>1. disk'.providers.entries = saveProvidersConfig(Now("providers"), Asks)
        BY <1>2, <1>5, <2>3, <3>1, FilesAfterAJob DEF Text
      <4> QED
        BY <4>1, ProvidersAreSaved
    <3>2. CASE Job(1).job # "providers"
      <4>1. disk'.providers = disk.providers
        BY <1>2, <2>3, <3>2 DEF FileOf
      <4> QED
        BY <1>1, <2>2, <3>2, <4>1
    <3> QED
      BY <3>1, <3>2
  <2>6. ToDo("models")' \/ ModelsIn(disk'.models.entries, Asks)
    <3>1. CASE Job(1).job = "models"
      <4>1. disk'.models.entries = ModelsFile(Now("models"), Asks)
        BY <1>2, <1>5, <2>3, <3>1, FilesAfterAJob DEF Text
      <4> QED
        BY <1>0, <4>1, ModelsAreSaved
    <3>2. CASE Job(1).job # "models"
      <4>1. disk'.models = disk.models
        BY <1>2, <2>3, <3>2 DEF FileOf
      <4> QED
        BY <1>1, <2>2, <3>2, <4>1
    <3> QED
      BY <3>1, <3>2
  <2>7. Asks.channels = <<>> \/ ToDo("channels")' \/ ChannelsIn(disk'.channels.entries, Asks)
    <3>1. CASE Job(1).job = "channels"
      <4>1. disk'.channels.entries = saveChannelsConfig(Now("channels"), Asks)
        BY <1>2, <1>5, <2>3, <3>1, FilesAfterAJob DEF Text
      <4> QED
        BY <4>1, ChannelsAreSaved
    <3>2. CASE Job(1).job # "channels"
      <4>1. disk'.channels = disk.channels
        BY <1>2, <2>3, <3>2 DEF FileOf
      <4> QED
        BY <1>1, <2>2, <3>2, <4>1
    <3> QED
      BY <3>1, <3>2
  <2>8. ~Asks.pulse \/ ToDo("pulse")' \/ disk'.preferences.entries.pulse
    <3>1. CASE Job(1).job = "pulse"
      <4>1. disk'.preferences.entries = WithPulse(Now("preferences"))
        BY <1>2, <1>5, <2>3, <3>1, FilesAfterAJob DEF Text
      <4> QED
        BY <4>1, PulseIsSaved
    <3>2. CASE Job(1).job = "preferences"
      BY <2>2, <3>2
    <3>3. CASE Job(1).job \notin {"preferences", "pulse"}
      <4>1. FileOf(Job(1).job) # "preferences"
        BY <3>3 DEF FileOf
      <4>2. disk'.preferences = disk.preferences
        BY <1>2, <2>3, <4>1
      <4> QED
        BY <1>1, <2>2, <3>3, <4>2
    <3> QED
      BY <3>1, <3>2, <3>3
  <2> QED
    BY <2>1, <2>4, <2>5, <2>6, <2>7, <2>8 DEF SavedInv
<1> QED
  BY <1>3, <1>4, <1>5

\* A setup that begins has a list of distinct providers; only a wizard removes any.
LEMMA StartedSoundly ==
    ASSUME OnboardShape, ListInv, NEW i \in Slot, Begins(i)
    PROVE  /\ Started(i) /\ Distinct(subs'[i].state.providers)
           /\ subs'[i].state.exact \/ subs'[i].state.removed = {}
<1>1. Started(i)
  BY StartedWith
<1>2. ASSUME NEW s, Setup(i, s) PROVE subs'[i].state = s
  <2> DEFINE jobs == Jobs(s)
  <2>1. subs' = [j \in Slot |->
                   IF j = i THEN [at |-> "read", state |-> s, jobs |-> jobs, held |-> Missing]
                   ELSE IF Active(j) THEN subs[j] ELSE Idle]
    BY <1>2 DEF Setup
  <2> HIDE DEF jobs
  <2> QED
    BY <2>1
<1>3. CASE \E mode \in Modes : Submit(i, mode)
  <2>1. PICK mode \in Modes : Submit(i, mode)
    BY <1>3
  <2>2. wiz # Off /\ wiz' = [wiz EXCEPT !.mode = mode] /\ Setup(i, wiz')
    BY <2>1 DEF Submit, On
  <2>3. /\ Distinct(wiz.providers)
        /\ wiz \in [exact : {TRUE}, page : {wiz.page}, accepted : {wiz.accepted},
                    providers : {wiz.providers}, removed : {wiz.removed}, channels : {wiz.channels},
                    gone : {wiz.gone}, pulse : {wiz.pulse}, mode : Mode]
    BY <2>2 DEF ListInv, OnboardShape, IsWizard
  <2>4. subs'[i].state = wiz'
    BY <1>2, <2>2
  <2>5. wiz'.providers = wiz.providers /\ wiz'.exact = TRUE
    BY <2>2, <2>3
  <2> QED
    BY <1>1, <2>3, <2>4, <2>5
<1>4. CASE \E p \in Builtin, m \in Offered, pulse \in Pulses : Command(i, p, m, pulse)
  <2>1. PICK p \in Builtin, m \in Offered, pulse \in Pulses : Command(i, p, m, pulse)
    BY <1>4
  <2> DEFINE s == [exact |-> FALSE, providers |-> <<[id |-> p, custom |-> FALSE, was |-> Missing,
                     key |-> "new", keep |-> FALSE, models |-> {m}]>>,
                 removed |-> {}, channels |-> <<>>, gone |-> {}, pulse |-> pulse,
                 mode |-> "backup"]
  <2>2. Setup(i, s)
    BY <2>1 DEF Command, Options
  <2>3. Distinct(s.providers) /\ s.removed = {}
    BY DEF Distinct
  <2> HIDE DEF s
  <2>4. subs'[i].state = s
    BY <1>2, <2>2
  <2> QED
    BY <1>1, <2>3, <2>4
<1> QED
  BY <1>3, <1>4 DEF Begins

\* The setup of the one slot begins.
LEMMA SoloStarts ==
    ASSUME OnboardShape, ListInv, Begins(1), subs[2] = Idle, FilesInv, ModelInv,
           HasPulse(Now("preferences"))
    PROVE  RunInv' /\ ModelInv' /\ HasPulse(Now("preferences"))' /\ SavedInv'
<1> DEFINE s == subs'[1].state
           q == Jobs(s)
<1>1. /\ Started(1) /\ Distinct(s.providers) /\ (s.exact \/ s.removed = {})
  BY StartedSoundly DEF Slot
<1>2. /\ ~Active(1) /\ subs'[1] = [at |-> "read", state |-> s, jobs |-> q, held |-> Missing]
      /\ UNCHANGED <<disk, secrets, halfway>> /\ IsSeq(s.providers) /\ IsSeq(s.channels)
      /\ subs'[2] = IF Active(2) THEN subs[2] ELSE Idle
  BY <1>1 DEF Started, Slot, store
<1>3. subs'[2] = Idle
  BY <1>2
<1>4. /\ Ordered(q, s)
      /\ \A p \in Chosen(s) : \E l \in DOMAIN q : q[l] = KeyJob(p)
      /\ \A job \in {"providers", "models"} : \E l \in DOMAIN q : q[l].job = job
      /\ s.channels # <<>> => \E l \in DOMAIN q : q[l].job = "channels"
      /\ s.pulse => \E l \in DOMAIN q : q[l].job = "pulse"
  BY <1>2, JobsAreOrdered
<1> HIDE DEF q
<1>5. subs'[1].at = "read" /\ subs'[1].jobs = q /\ Asks' = s
  BY <1>2 DEF Asks
<1>6. \A f : Now(f) = disk[f].entries /\ Now(f)' = disk[f].entries
  <2>1. \A f : ~Emptied(f) /\ ~Emptied(f)'
    BY <1>2, <1>5 DEF Emptied, At
  <2> QED
    BY <1>2, <2>1 DEF Now
<1> HIDE DEF s
<1>7. RunInv'
  <2>1. \A at \in {"cut", "write"} : ~At(1, at, Configs)'
    BY <1>5 DEF At
  <2> QED
    BY <1>1, <1>2, <1>3, <1>4, <1>5, <2>1 DEF RunInv, FilesInv
<1>8. ModelInv'
  BY <1>2, <1>6 DEF ModelInv, Between
<1>9. HasPulse(Now("preferences"))'
  BY <1>6
<1>10. SavedInv'
  <2>1. \A p \in Chosen(s) : KeyIsComing(p)'
    BY <1>4, <1>5 DEF KeyIsComing
  <2>2. /\ ToDo("providers")' /\ ToDo("models")' /\ (s.channels # <<>> => ToDo("channels")')
        /\ s.pulse => ToDo("pulse")'
    BY <1>4, <1>5 DEF ToDo
  <2> QED
    BY <1>5, <2>1, <2>2 DEF SavedInv
<1> QED
  BY <1>7, <1>8, <1>9, <1>10

LEMMA SoloHoldsAtFirst ==
    ASSUME OnboardInit PROVE SoloInv
<1>1. PICK b \in Scenarios : disk = b.disk
  BY DEF OnboardInit
<1>2. /\ subs[1] = Idle /\ subs[2] = Idle /\ halfway = ~Resolves
  BY DEF OnboardInit, Slot
<1>3. ~There /\ ~Active(1) /\ (\A at, jobs : ~At(1, at, jobs)) /\ subs[1].at # "done"
  BY <1>2 DEF There, Active, Idle, At
<1>4. \A f : Now(f) = disk[f].entries
  BY <1>3 DEF Now, Emptied
<1>5. RunInv
  BY <1>1, <1>2, <1>3, ScenariosAssumption DEF RunInv
<1>6. ModelInv
  BY <1>2, <1>4 DEF ModelInv, Resolves, Parsed
<1>7. HasPulse(Now("preferences"))
  BY <1>1, <1>4, ScenariosAssumption DEF HasPulse, Empty
<1>8. SavedInv
  BY <1>3 DEF SavedInv
<1> QED
  BY <1>5, <1>6, <1>7, <1>8 DEF SoloInv

LEMMA SoloIsKept ==
    ASSUME OnboardShape, StoreInv, ListInv, SoloInv, [OnboardNext]_onboardVars PROVE SoloInv'
<1> SUFFICES ASSUME alone'
             PROVE  RunInv' /\ ModelInv' /\ HasPulse(Now("preferences"))' /\ SavedInv'
  BY DEF SoloInv
\* Setups did not meet before, then.
<1>0. ASSUME alone
      PROVE  /\ RunInv /\ ModelInv /\ HasPulse(Now("preferences")) /\ SavedInv /\ FilesInv
             /\ subs[2] = Idle
  BY <1>0 DEF SoloInv, RunInv, FilesInv
<1>1. CASE Start \/ Page \/ UNCHANGED onboardVars
  <2>1. UNCHANGED <<subs, disk, secrets, halfway, alone>>
    BY <1>1, PagesKeepAWizard DEF Start, store, history, onboardVars
  <2>2. RunInv /\ ModelInv /\ HasPulse(Now("preferences")) /\ SavedInv
    BY <1>0, <2>1
  <2>3. /\ \A at, jobs : At(1, at, jobs)' <=> At(1, at, jobs)
        /\ (Active(1)' <=> Active(1)) /\ Job(1)' = Job(1)
    BY <2>1 DEF At, Active, Job
  <2>4. /\ \A f : Now(f)' = Now(f)
        /\ Hand' = Hand /\ (There' <=> There) /\ Asks' = Asks
    BY <2>1, <2>3 DEF Now, Emptied, Hand, Writing, Busy, There, Asks
  <2>5. (\A job : ToDo(job)' <=> ToDo(job)) /\ \A p : KeyIsComing(p)' <=> KeyIsComing(p)
    BY <2>1, <2>4 DEF ToDo, KeyIsComing
  <2>6. RunInv'
    BY <2>1, <2>2, <2>3, <2>4 DEF RunInv
  <2>7. ModelInv'
    BY <2>1, <2>2, <2>3, <2>4 DEF ModelInv, Between
  <2>8. SavedInv'
    BY <2>1, <2>2, <2>4, <2>5 DEF SavedInv
  <2> QED
    BY <2>2, <2>4, <2>6, <2>7, <2>8
<1>2. ASSUME NEW i \in Slot, StepOf(i)
      PROVE  RunInv' /\ ModelInv' /\ HasPulse(Now("preferences"))' /\ SavedInv'
  <2>1. alone' = alone
    BY <1>2 DEF StepOf, Continue, Refuse, KeychainSet, SecretRead, SecretCut, SecretWrite,
                ConfigRead, ConfigCut, ConfigWrite, TemplateCheck, TemplateBackup, TemplateWrite,
                Finish, IoFails, Quiet, history
  <2>2. OthersStay(i) /\ Active(i) /\ IsSetup(subs[i])
    BY <1>2, SetupStepKeepsTheShape DEF StepOf
  <2>3. i = 1
    BY <1>0, <2>1, <2>2 DEF Slot, Active, Idle
  <2>4. subs'[2] = subs[2]
    BY <2>2, <2>3 DEF OthersStay, Slot
  <2>5. (FailsHere \/ GoesOnHere \/ PopsHere) /\ FilesInv'
    BY <1>0, <1>2, <2>1, <2>3, StepsOfASetup
  <2> QED
    BY <1>0, <2>1, <2>2, <2>3, <2>4, <2>5, RunIsKept, ModelsKeepProviders, PulseIsKept,
       ChoicesAreKept
<1>3. CASE Crash
  <2>1. /\ UNCHANGED <<disk, secrets, alone>> /\ halfway' = TRUE
        /\ \A i \in Slot : subs'[i] = subs[i] \/ subs'[i] = Idle
    BY <1>3 DEF Crash, store
  <2>2. RunInv /\ HasPulse(Now("preferences")) /\ SavedInv /\ FilesInv /\ subs[2] = Idle
    BY <1>0, <2>1
  <2>3. subs'[2] = Idle
    BY <2>1, <2>2 DEF Slot
  <2>4. ModelInv'
    BY <2>1 DEF ModelInv
  <2>5. CASE subs'[1] = subs[1]
    <3>1. /\ \A at, jobs : At(1, at, jobs)' <=> At(1, at, jobs)
          /\ (Active(1)' <=> Active(1)) /\ Job(1)' = Job(1)
      BY <2>5 DEF At, Active, Job
    <3>2. /\ \A f : Now(f)' = Now(f)
          /\ Hand' = Hand /\ (There' <=> There) /\ Asks' = Asks
      BY <2>1, <2>5, <3>1 DEF Now, Emptied, Hand, Writing, Busy, There, Asks
    <3>3. (\A job : ToDo(job)' <=> ToDo(job)) /\ \A p : KeyIsComing(p)' <=> KeyIsComing(p)
      BY <2>5, <3>2 DEF ToDo, KeyIsComing
    <3>4. RunInv'
      BY <2>1, <2>2, <2>3, <2>5, <3>1, <3>2 DEF RunInv
    <3>5. SavedInv'
      BY <2>1, <2>2, <3>2, <3>3 DEF SavedInv
    <3> QED
      BY <2>2, <2>4, <3>2, <3>4, <3>5
  <2>6. CASE subs'[1] = Idle
    <3>1. ~There' /\ (\A at, jobs : ~At(1, at, jobs)') /\ subs'[1].at # "done"
      BY <2>6 DEF There, Active, At, Idle
    <3>2. FailsHere
      BY <2>1, <3>1 DEF FailsHere
    <3>3. FilesInv'
      BY <2>1, <2>2, <3>1 DEF FilesInv
    <3>4. RunInv'
      BY <2>3, <3>1, <3>3 DEF RunInv, FilesInv
    <3>5. SavedInv'
      BY <3>1 DEF SavedInv
    <3> QED
      BY <2>2, <2>4, <3>2, <3>4, <3>5, PulseIsKept
  <2> QED
    BY <2>1, <2>5, <2>6 DEF Slot
<1>4. ASSUME NEW i \in Slot, Begins(i)
      PROVE  RunInv' /\ ModelInv' /\ HasPulse(Now("preferences"))' /\ SavedInv'
  <2>1. Started(i)
    BY <1>4, StartedWith
  <2>2. alone /\ \A j \in Slot : ~Active(j)
    BY <2>1 DEF Started
  <2>3. i = 1
    BY <2>1, <2>2 DEF Started, Slot
  <2> QED
    BY <1>0, <1>4, <2>2, <2>3, SoloStarts
<1> QED
  BY <1>1, <1>2, <1>3, <1>4 DEF OnboardNext, SetupStep, StepOf, Begins

\* The wizard never lists two providers of one id, and while no two setups have met, each
\* file whose job is done holds what was chosen.
THEOREM SavedInvariant == OnboardSpec => [](ListInv /\ SoloInv)
<1>1. OnboardInit => ListInv /\ SoloInv
  BY ListHoldsAtFirst, SoloHoldsAtFirst
<1>2. OnboardInv /\ ListInv /\ SoloInv /\ [OnboardNext]_onboardVars => (ListInv /\ SoloInv)'
  BY ListIsKept, SoloIsKept DEF OnboardInv
<1> QED
  BY <1>1, <1>2, OnboardInvariant, PTL DEF OnboardSpec

\* When setup succeeds the files hold what the wizard showed, and every model has its
\* provider, whatever failed, was tried again or was gone back to before.
THEOREM SetupStaysSaved == OnboardSpec => []SetupIsSaved
<1>1. SoloInv => SetupIsSaved
  <2> SUFFICES ASSUME SoloInv, NEW i \in Slot, subs[i].at = "done", alone
               PROVE  LET s == subs[i].state
                          models == Parsed("models")
                      IN
                      /\ \A p \in Chosen(s) : /\ p.id \in DOMAIN Parsed("providers")
                                              /\ ~p.keep => /\ Stored(SecretOf(p.id))
                                                            /\ secrets.entries[SecretOf(p.id)] = p.key
                      /\ s.removed \cap DOMAIN Parsed("providers") = {}
                      /\ \A m \in DOMAIN PutModels(s) : m \in DOMAIN models /\ models[m] = PutModels(s)[m]
                      /\ s.exact => \A m \in DOMAIN models, p \in Chosen(s) :
                                        models[m] = p.id => m \in p.models
                      /\ \A j \in KeptChannels(s) : s.channels[j].id \in DOMAIN Parsed("channels")
                      /\ s.pulse => Parsed("preferences").pulse
                      /\ ~halfway => Resolves
    BY DEF SetupIsSaved
  <2>1. RunInv /\ ModelInv /\ SavedInv
    BY DEF SoloInv
  <2>2. i = 1
    BY <2>1 DEF RunInv, Idle, Slot
  <2>3. There /\ subs[1].jobs = <<>> /\ ~Active(1)
    BY <2>1, <2>2 DEF There, RunInv, Active
  <2>4. (\A job : ~ToDo(job)) /\ ~Between /\ (\A f : Now(f) = disk[f].entries)
        /\ Hand = secrets.entries
    BY <2>3 DEF ToDo, Between, Now, Emptied, Hand, Writing, Busy, At
  <2>5. /\ \A p \in Chosen(Asks) : p.keep \/ KeyIsComing(p)
        /\ ProvidersIn(Parsed("providers"), Asks) /\ ModelsIn(Parsed("models"), Asks)
        /\ Asks.channels = <<>> \/ ChannelsIn(Parsed("channels"), Asks)
        /\ ~Asks.pulse \/ Parsed("preferences").pulse
    BY <2>1, <2>3, <2>4 DEF SavedInv, Parsed
  <2>6. \A p \in Chosen(Asks) :
           ~p.keep => Stored(SecretOf(p.id)) /\ secrets.entries[SecretOf(p.id)] = p.key
    BY <2>3, <2>4, <2>5 DEF KeyIsComing, Stored
  <2>7. \A j \in KeptChannels(Asks) : Asks.channels[j].id \in DOMAIN Parsed("channels")
    <3>1. Asks.channels = <<>> => KeptChannels(Asks) = {}
      BY DEF KeptChannels
    <3> QED
      BY <2>5, <3>1 DEF ChannelsIn
  <2>8. ~halfway => Resolves
    BY <2>1, <2>4 DEF ModelInv, Resolves, Parsed
  <2>9. Asks = subs[i].state
    BY <2>2 DEF Asks
  <2> QED
    BY <2>5, <2>6, <2>7, <2>8, <2>9 DEF ProvidersIn, ModelsIn
<1> QED
  BY <1>1, SavedInvariant, PTL

=============================================================================
