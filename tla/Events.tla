-------------------------------- MODULE Events --------------------------------
(***************************************************************************)
(* EventBus of src/streaming.py and the /ws/events handler of src/api.py:  *)
(* threads publish events into a bounded history, and each web page that   *)
(* watches reads what is newer than the last one it was sent.  An event is *)
(* its sequence number.                                                    *)
(***************************************************************************)
EXTENDS Naturals, Sequences, SequencesExt

CONSTANTS
    HistoryLimit,            \* EventBus(history_limit), 200 in the code
    RecentLimit,             \* recent(limit), 50 in the code
    MaxEvents                \* bound on what is published

ASSUME EventAssumption ==
    HistoryLimit \in Nat \ {0} /\ RecentLimit \in Nat \ {0} /\ MaxEvents \in Nat

VARIABLES
    history,                 \* _events
    nextSequence,            \* _next_sequence
    watch,                   \* the handler: "gone", "joining" or "reading"
    batch,                   \* the rest of the list the handler iterates over
    lastSequence,            \* last_sequence
    sent,                    \* history: what the page was sent
    lost                     \* history: what left the bus, or came before the page, unread

eventVars == <<history, nextSequence, watch, batch, lastSequence, sent, lost>>

Numbers == 1..MaxEvents

EventTypeOK ==
    /\ history \in Seq(Numbers) /\ Len(history) <= HistoryLimit
    /\ nextSequence \in 1..(MaxEvents + 1)
    /\ watch \in {"gone", "joining", "reading"}
    /\ batch \in Seq(Numbers) /\ sent \in Seq(Numbers)
    /\ lastSequence \in 0..MaxEvents /\ lost \subseteq Numbers

EventInit ==
    /\ history = <<>> /\ nextSequence = 1
    /\ watch = "gone" /\ batch = <<>> /\ lastSequence = 0
    /\ sent = <<>> /\ lost = {}

LastOf(limit, s) == SubSeq(s, IF Len(s) > limit THEN Len(s) - limit + 1 ELSE 1, Len(s))

(* publish(): a full history forgets its oldest event. *)
Publish ==
    /\ nextSequence <= MaxEvents
    /\ history' = LastOf(HistoryLimit, Append(history, nextSequence))
    /\ nextSequence' = nextSequence + 1
    /\ lost' = lost \cup (ToSet(history) \ (ToSet(history') \cup ToSet(sent) \cup ToSet(batch)))
    /\ UNCHANGED <<watch, batch, lastSequence, sent>>

(* A page opens: it is first sent recent(), at most once published each. *)
Join ==
    /\ watch = "gone"
    /\ watch' = "joining" /\ batch' = LastOf(RecentLimit, history)
    /\ lastSequence' = 0 /\ sent' = <<>>
    /\ lost' = (1..(nextSequence - 1)) \ ToSet(batch')
    /\ UNCHANGED <<history, nextSequence>>

\* Mutant of SendNext: what was published meanwhile counts as sent.
SendNextCurrent ==
    /\ watch # "gone" /\ batch # <<>>
    /\ lastSequence' = nextSequence - 1
    /\ sent' = Append(sent, Head(batch)) /\ batch' = Tail(batch)
    /\ UNCHANGED <<history, nextSequence, watch, lost>>

(* Each event is awaited on its own: others are published meanwhile. *)
SendNext ==
    /\ watch # "gone" /\ batch # <<>>
    /\ lastSequence' = IF Head(batch) > lastSequence THEN Head(batch) ELSE lastSequence
    /\ sent' = Append(sent, Head(batch)) /\ batch' = Tail(batch)
    /\ UNCHANGED <<history, nextSequence, watch, lost>>

(* read_since(): what is newer than the last one.  The bus numbers an event
   and appends it under one lock, so that the newer ones end the history. *)
ReadSince ==
    /\ watch # "gone" /\ batch = <<>>
    /\ watch' = "reading"
    /\ batch' \in {SubSeq(history, i, Len(history)) : i \in 1..(Len(history) + 1)}
    /\ ToSet(batch') = {e \in ToSet(history) : e > lastSequence}
    /\ UNCHANGED <<history, nextSequence, lastSequence, sent, lost>>

Disconnect ==
    /\ watch # "gone"
    /\ watch' = "gone" /\ batch' = <<>> /\ sent' = <<>> /\ lastSequence' = 0 /\ lost' = {}
    /\ UNCHANGED <<history, nextSequence>>

EventNext == Publish \/ Join \/ SendNext \/ ReadSince \/ Disconnect

EventSpec == EventInit /\ [][EventNext]_eventVars

(* A page is sent each event once and in order; one it is not sent had left
   the bounded history, or was older than the recent ones, before it read. *)
EveryEventOnceOrLost ==
    /\ \A i, j \in DOMAIN sent : i < j => sent[i] < sent[j]
    /\ \A e \in 1..lastSequence : e \in ToSet(sent) <=> e \notin lost
=============================================================================
