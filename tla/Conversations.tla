--------------------------- MODULE Conversations ---------------------------
(***************************************************************************)
(* The ConversationManager (apps/daemon/src/conversations/manager.ts) and  *)
(* its file store (store.ts): which agent session answers which            *)
(* destination.  Two JavaScript Maps hold the same relation, one per       *)
(* direction, and the file receives the whole table only when the manager  *)
(* stops.                                                                  *)
(*                                                                         *)
(* Every await of start(), stop() and save() is a step boundary: bind and  *)
(* unbind may run between any two of them, and the process may die there.  *)
(***************************************************************************)
EXTENDS FiniteSets

CONSTANTS
    Destination,  \* chats, threads: the "channelId:ref" keys
    Session,      \* agent session ids
    Null,         \* an entry whose agentId is null
    Absent,       \* no entry in a Map, no file on the disk
    Torn          \* a file whose write was cut off: JSON.parse fails on it

ASSUME ValuesAssumption ==
    /\ Null \notin Session
    /\ Absent \notin Session \cup Destination \cup {Null}
    /\ Absent # Torn
    /\ {Absent, Torn} \cap [Destination -> Session \cup {Null, Absent}] = {}

VARIABLES
    byDestination,  \* _byDestination: the bound session of a destination
    byAgent,        \* _byAgent: the reverse index
    disk,           \* the file at _filePath
    temp,           \* the newest <_filePath>.tmp.<time>
    snap,           \* the bindings save() has serialised
    phase           \* how far start() and stop() have come

convVars == <<byDestination, byAgent, disk, temp, snap, phase>>

Table == [Destination -> Session \cup {Null, Absent}]
Phases == {"down", "loading", "up", "saving", "writing", "written", "stopped"}

NoBindings == [d \in Destination |-> Absent]
NoIndex == [s \in Session |-> Absent]

----------------------------------------------------------------------------
(* The two Maps.  A process exists in every phase but "down".              *)

\* Mutation of WithEntry: the new entry shares the object of another one.
WithSharedEntry(d) ==
    IF byDestination[d] = Absent
    THEN [byDestination EXCEPT
            ![d] = IF \E e \in Destination : byDestination[e] \in Session
                   THEN byDestination[CHOOSE e \in Destination :
                                        byDestination[e] \in Session]
                   ELSE Null]
    ELSE byDestination

\* The Map with the entry getOrCreate(d) inserts when there is none.
WithEntry(d) ==
    IF byDestination[d] = Absent
    THEN [byDestination EXCEPT ![d] = Null]
    ELSE byDestination

GetOrCreate(d) ==
    /\ byDestination' = WithEntry(d)
    /\ UNCHANGED byAgent

\* Mutation of Bind: the replaced session stays in the reverse index.
BindKeepsOld(d, s) ==
    /\ byDestination' = [byDestination EXCEPT ![d] = s]
    /\ byAgent' = [byAgent EXCEPT ![s] = d]

Bind(d, s) ==
    /\ byDestination' = [byDestination EXCEPT ![d] = s]
    /\ byAgent' = [x \in Session |-> IF x = s THEN d
                                     ELSE IF x = byDestination[d] THEN Absent
                                     ELSE byAgent[x]]

Unbind(d) ==
    /\ byDestination' = IF byDestination[d] \in Session
                        THEN [byDestination EXCEPT ![d] = Null]
                        ELSE byDestination
    /\ byAgent' = [x \in Session |-> IF x = byDestination[d] THEN Absent
                                     ELSE byAgent[x]]

\* restore(): both Maps rebuilt from a list of bindings; a session listed
\* twice keeps one of its destinations.
Restore(table) ==
    /\ byDestination' = table
    /\ byAgent' = [s \in Session |->
                    IF \E d \in Destination : table[d] = s
                    THEN CHOOSE d \in Destination : table[d] = s
                    ELSE Absent]

\* Map.clear() on both.
Clear ==
    /\ byDestination' = NoBindings
    /\ byAgent' = NoIndex

----------------------------------------------------------------------------
(* Persistence.                                                            *)

ConvInit ==
    /\ byDestination = NoBindings
    /\ byAgent = NoIndex
    /\ disk = Absent
    /\ temp = Absent
    /\ snap = NoBindings
    /\ phase = "down"

\* start() awaits the store's load().
BeginLoad ==
    /\ phase = "down"
    /\ phase' = "loading"
    /\ UNCHANGED <<byDestination, byAgent, disk, temp, snap>>

\* load() resolves: the parsed list, or [] for a missing or malformed file.
FinishLoad ==
    /\ phase = "loading"
    /\ Restore(IF disk \in {Absent, Torn} THEN NoBindings ELSE disk)
    /\ phase' = "up"
    /\ UNCHANGED <<disk, temp, snap>>

\* load() answers a read error with [] as well.
FailLoad ==
    /\ phase = "loading"
    /\ Restore(NoBindings)
    /\ phase' = "up"
    /\ UNCHANGED <<disk, temp, snap>>

\* stop(): snapshot() is serialised before save()'s first await.
BeginStop ==
    /\ phase = "up"
    /\ snap' = byDestination
    /\ phase' = "saving"
    /\ UNCHANGED <<byDestination, byAgent, disk, temp>>

\* Mutation of BeginWrite: writes over the file itself.
WriteInPlace ==
    /\ phase = "saving"
    /\ disk' = Torn
    /\ phase' = "writing"
    /\ UNCHANGED <<byDestination, byAgent, temp, snap>>

\* mkdir has answered and writeFile has opened the temporary file.
BeginWrite ==
    /\ phase = "saving"
    /\ temp' = Torn
    /\ phase' = "writing"
    /\ UNCHANGED <<byDestination, byAgent, disk, snap>>

EndWrite ==
    /\ phase = "writing"
    /\ temp' = snap
    /\ phase' = "written"
    /\ UNCHANGED <<byDestination, byAgent, disk, snap>>

\* rename() replaces the file in one step; stop() then clears both Maps.
Rename ==
    /\ phase = "written"
    /\ disk' = temp
    /\ temp' = Absent
    /\ Clear
    /\ phase' = "stopped"
    /\ UNCHANGED snap

\* mkdir, writeFile or rename fails: the temporary file is unlinked, stop()
\* swallows the error and clears both Maps all the same.
FailSave ==
    /\ phase \in {"saving", "writing", "written"}
    /\ temp' = Absent
    /\ Clear
    /\ phase' = "stopped"
    /\ UNCHANGED <<disk, snap>>

\* The process ends, cleanly or not: memory is gone, the files stay.
Exit ==
    /\ phase # "down"
    /\ Clear
    /\ snap' = NoBindings
    /\ phase' = "down"
    /\ UNCHANGED <<disk, temp>>

----------------------------------------------------------------------------
(* What the callers do.  Session ids are fresh UUIDs: one that some Map or  *)
(* file still names is never bound again.                                  *)

Fresh(s) ==
    /\ \A d \in Destination : byDestination[d] # s /\ snap[d] # s
    /\ \A f \in {disk, temp} \cap Table : \A d \in Destination : f[d] # s

Serving == phase \notin {"down", "loading"}

CallGetOrCreate(d) ==
    /\ Serving
    /\ GetOrCreate(d)
    /\ UNCHANGED <<disk, temp, snap, phase>>

CallBind(d, s) ==
    /\ Serving
    /\ Fresh(s)
    /\ Bind(d, s)
    /\ UNCHANGED <<disk, temp, snap, phase>>

CallUnbind(d) ==
    /\ Serving
    /\ Unbind(d)
    /\ UNCHANGED <<disk, temp, snap, phase>>

ConvNext ==
    \/ BeginLoad \/ FinishLoad \/ FailLoad
    \/ BeginStop \/ BeginWrite \/ EndWrite \/ Rename \/ FailSave
    \/ Exit
    \/ \E d \in Destination :
        \/ CallGetOrCreate(d)
        \/ CallUnbind(d)
        \/ \E s \in Session : CallBind(d, s)

ConvSpec == ConvInit /\ [][ConvNext]_convVars

----------------------------------------------------------------------------
(* Properties.                                                             *)

\* Every variable of the manager and its store has its type.
ConvTypeOK ==
    /\ byDestination \in Table
    /\ byAgent \in [Session -> Destination \cup {Absent}]
    /\ disk \in Table \cup {Absent, Torn}
    /\ temp \in Table \cup {Absent, Torn}
    /\ snap \in Table
    /\ phase \in Phases

\* No session is listed for two destinations.
Injective(table) ==
    \A s \in Session, d, e \in Destination :
        table[d] = s /\ table[e] = s => d = e

\* The two Maps of the ConversationManager always hold the same relation:
\* the reverse index that routes agent output (getByAgent) names exactly the
\* destination whose messages the session receives (getByDestination).
IndexesAgree ==
    \A d \in Destination, s \in Session :
        byDestination[d] = s <=> byAgent[s] = d

\* Whatever was interrupted, the file the next start() reads never gives one
\* session to two destinations, so restore() cannot route one user's agent to
\* another user (conversations/store.ts save, load).
SavedInjective == disk \in Table => Injective(disk)

\* "Uses atomic write (write-then-rename) to prevent corruption"
\* (conversations/store.ts save): the process may die between any two steps
\* of a save and the file is still whole.
NeverTorn == disk # Torn

\* What the next start() reads is whole and gives no session away twice.
FileSound == NeverTorn /\ SavedInjective
============================================================================
