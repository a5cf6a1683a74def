------------------------------ MODULE Streams -------------------------------
(***************************************************************************)
(* The live calendar: a gateway keeps, in memory, the open streams of each *)
(* business (businessStreams) and the heartbeat of each stream             *)
(* (streamMeta), and writes what the handlers of module Agenda publish to  *)
(* every stream of the business.  The stream is a Subject of rxjs: it      *)
(* keeps nothing for who subscribes later.                                 *)
(***************************************************************************)
EXTENDS Naturals, FiniteSets

CONSTANTS
    Streams,      \* streams that may be opened
    Offices,      \* businesses
    MaxEvents,    \* bound: events published
    Unopened      \* a stream never opened

ASSUME StreamsAssumption == MaxEvents \in Nat /\ Unopened \notin Offices

-----------------------------------------------------------------------------
VARIABLES
    bucket,      \* businessStreams: the streams of each business
    meta,        \* streamMeta: the streams with a heartbeat
    office,      \* the business of each stream, or Unopened
    listening,   \* streams whose observable the response is subscribed to
    over,        \* streams completed
    events,      \* events published so far
    heard,       \* the events each stream has passed on
    owed         \* those published while it was listening, of its business

streamsVars == <<bucket, meta, office, listening, over, events, heard, owed>>

StreamsInit ==
    /\ bucket = [b \in Offices |-> {}] /\ meta = {}
    /\ office = [s \in Streams |-> Unopened]
    /\ listening = {} /\ over = {}
    /\ events = 0
    /\ heard = [s \in Streams |-> {}] /\ owed = heard

\* connect: "connected" is written before anybody listens.
OpenStream(s, b) ==
    /\ office[s] = Unopened
    /\ office' = [office EXCEPT ![s] = b]
    /\ bucket' = [bucket EXCEPT ![b] = bucket[b] \cup {s}]
    /\ meta' = meta \cup {s}
    /\ UNCHANGED <<listening, over, events, heard, owed>>

Subscribe(s) ==
    /\ office[s] # Unopened /\ s \notin listening \cup over
    /\ listening' = listening \cup {s}
    /\ UNCHANGED <<bucket, meta, office, over, events, heard, owed>>

\* publishAppointmentEvent: what nobody hears is lost.
PublishEvent(b) ==
    /\ events < MaxEvents
    /\ events' = events + 1
    /\ heard' = [s \in Streams |-> IF s \in bucket[b] \cap listening THEN heard[s] \cup {events'} ELSE heard[s]]
    /\ owed' = [s \in Streams |-> IF office[s] = b /\ s \in listening THEN owed[s] \cup {events'} ELSE owed[s]]
    /\ UNCHANGED <<bucket, meta, office, listening, over>>

\* Mutant: the streams of the business are dropped with the first that closes.
DropsAll(b, s) == {}

Without(b, s) == bucket[b] \ {s}

\* disconnect, when the subscription ends.
CloseStream(s) ==
    /\ s \in listening
    /\ listening' = listening \ {s} /\ over' = over \cup {s}
    /\ meta' = meta \ {s}
    /\ bucket' = IF s \in meta THEN [bucket EXCEPT ![office[s]] = Without(office[s], s)] ELSE bucket
    /\ UNCHANGED <<office, events, heard, owed>>

\* onModuleDestroy, and the gateway starts anew.
Shutdown ==
    /\ bucket' = [b \in Offices |-> {}] /\ meta' = {}
    /\ over' = over \cup {s \in Streams : office[s] # Unopened}
    /\ listening' = {}
    /\ UNCHANGED <<office, events, heard, owed>>

StreamsNext ==
    \/ \E s \in Streams, b \in Offices : OpenStream(s, b)
    \/ \E s \in Streams : Subscribe(s) \/ CloseStream(s)
    \/ \E b \in Offices : PublishEvent(b)
    \/ Shutdown

StreamsSpec == StreamsInit /\ [][StreamsNext]_streamsVars

-----------------------------------------------------------------------------
(* Who listens hears every event of his business that his gateway          *)
(* publishes, and none of another; no stream that has ended is kept, nor   *)
(* its heartbeat.                                                          *)
HeardWhileConnected ==
    /\ \A s \in Streams : heard[s] = owed[s]
    /\ UNION {bucket[b] : b \in Offices} = meta
    /\ meta \cap over = {}
=============================================================================
