------------------------------- MODULE EventLog -------------------------------
(***************************************************************************)
(* What becomes of an alert that leaves the monitor: the channels that      *)
(* notify somebody (alerts/ntfy_alert.py, email_alert.py, siem_alert.py,    *)
(* sound.py, logfile.py, terminal.py), and events.db                         *)
(* (alerts/event_store.py), which the portal pages through and clears and   *)
(* the agent's digest counts up.                                            *)
(***************************************************************************)
EXTENDS Naturals, FiniteSets, SequencesExt

CONSTANTS
    AlertTypes,     \* the types of the alerts
    Sources,        \* the devices they are about
    AlertLevels,    \* their levels, 1 (LOW) to 4 (CRITICAL)
    Enabled,        \* the channels that are switched on and configured
    ChannelLevel,   \* min_level of each channel; 1 for those that have none
    MutedTypes,     \* exclude_types of the ntfy channel
    Quiet,          \* cooldown_seconds
    Keep,           \* retention_hours of events.db
    PageSize,       \* limit of a page
    Lookback,       \* digest_lookback_days
    DigestOmits,    \* digest_exclude_types
    DigestMax,      \* digest_max_events
    MaxEvents,      \* bound: alerts ever
    LogHorizon      \* bound: the last moment

Channels == {"ntfy", "email", "siem", "sound", "log", "terminal"}

ASSUME LogAssumption ==
    /\ AlertLevels \subseteq 1 .. 4 /\ Enabled \subseteq Channels
    /\ ChannelLevel \in [Channels -> 1 .. 4]
    /\ Quiet \in Nat /\ Keep \in Nat /\ Lookback \in Nat
    /\ PageSize \in Nat \ {0} /\ DigestMax \in Nat
    /\ MaxEvents \in Nat /\ LogHorizon \in Nat

VARIABLES
    hour,       \* the time
    lastSent,   \* _last_sent of the channels that have one, by their keys
    outbox,     \* what each channel has tried to send: the numbers of alerts
    arrivals,   \* every alert so far
    events,     \* events.db: the numbers of the alerts that have a row
    reader      \* a client that pages through the rows

logVars == <<hour, lastSent, outbox, arrivals, events, reader>>

\* "at" is when a detector made the alert, "handled" when the monitor came
\* to it: alerts are handled one after the other, in the order made.
Happening == [type : AlertTypes, src : Sources, level : AlertLevels, at : Nat, handled : Nat]

Cooled == {"ntfy", "email"}

\* A phone is left alone after any alert of the type, a mailbox after one of
\* the type about the same device.
ChannelKey(c, a) == IF c = "ntfy" THEN <<a.type>> ELSE <<a.type, a.src>>

LogTypeOK ==
    /\ hour \in Nat
    /\ arrivals \in Seq(Happening)
    /\ events \subseteq DOMAIN arrivals
    /\ \A c \in Channels : outbox[c] \subseteq DOMAIN arrivals
    /\ \A c \in Cooled : \A k \in DOMAIN lastSent[c] : lastSent[c][k] \in Nat
    /\ reader.offset \in Nat /\ reader.owed \cup reader.read \subseteq DOMAIN arrivals

NothingSent == [c \in Cooled |-> [k \in {} |-> 0]]

LogInit ==
    /\ hour = 0
    /\ lastSent = NothingSent
    /\ outbox = [c \in Channels |-> {}]
    /\ arrivals = << >>
    /\ events = {}
    /\ reader = [wanted |-> {}, offset |-> 0, owed |-> {}, read |-> {}]

-----------------------------------------------------------------------------
(* An alert goes through the channels and into events.db.  A channel stamps *)
(* the time before it sends; whether the message arrives, within its        *)
(* time-out, makes no difference to what follows.                           *)

Rested(c, a) == ChannelKey(c, a) \in DOMAIN lastSent[c] => hour - lastSent[c][ChannelKey(c, a)] >= Quiet

Admits(c, a) ==
    /\ c \in Enabled
    /\ a.level >= ChannelLevel[c]
    /\ c = "ntfy" => a.type \notin MutedTypes

Takes(c, a) == Admits(c, a) /\ (c \in Cooled => Rested(c, a))

Stamp(c, a) == [k \in DOMAIN lastSent[c] \cup {ChannelKey(c, a)} |->
                  IF k = ChannelKey(c, a) THEN hour ELSE lastSent[c][k]]

\* mutant: stamped before the level is looked at
StampedEarly(c, a) == IF c \in Enabled /\ Rested(c, a) THEN Stamp(c, a) ELSE lastSent[c]

Stamped(c, a) == IF Takes(c, a) THEN Stamp(c, a) ELSE lastSent[c]

\* The row goes in and what is too old goes out, in one transaction; a
\* database that refuses is logged and nothing changes.
InsertEvent(a, id) ==
    events' \in {{i \in events : arrivals[i].at + Keep >= hour}
                     \cup (IF a.at + Keep >= hour THEN {id} ELSE {}),
                 events}

Handle(a) ==
    /\ Len(arrivals) < MaxEvents
    /\ a.at <= hour /\ (arrivals # << >> => Last(arrivals).at <= a.at)
    /\ a.handled = hour
    /\ arrivals' = Append(arrivals, a)
    /\ lastSent' = [c \in Cooled |-> Stamped(c, a)]
    /\ outbox' = [c \in Channels |->
                    IF Takes(c, a) THEN outbox[c] \cup {Len(arrivals) + 1} ELSE outbox[c]]
    /\ InsertEvent(a, Len(arrivals) + 1)
    /\ UNCHANGED <<hour, reader>>

\* The stamps are in the monitor's memory.
ForgetStamps ==
    /\ lastSent # NothingSent
    /\ lastSent' = NothingSent
    /\ UNCHANGED <<hour, outbox, arrivals, events, reader>>

-----------------------------------------------------------------------------
(* The portal: pages of the rows, newest first, and the button that clears  *)
(* them all.                                                                *)

Matching == {i \in events : arrivals[i].type \in reader.wanted}
Place(i) == Cardinality({j \in Matching : j >= i})

\* mutant: oldest first
PageOfOldest(offset) ==
    {i \in Matching : LET n == Cardinality({j \in Matching : j <= i})
                      IN  offset < n /\ n <= offset + PageSize}

PageOf(offset) == {i \in Matching : offset < Place(i) /\ Place(i) <= offset + PageSize}

OpenPage(W) ==
    /\ reader' = [wanted |-> W, offset |-> 0, read |-> {},
                  owed |-> {i \in events : arrivals[i].type \in W}]
    /\ UNCHANGED <<hour, lastSent, outbox, arrivals, events>>

NextPage ==
    /\ reader.offset < Cardinality(Matching)
    /\ reader' = [reader EXCEPT !.offset = @ + PageSize, !.read = @ \cup PageOf(reader.offset)]
    /\ UNCHANGED <<hour, lastSent, outbox, arrivals, events>>

ClearEvents ==
    /\ events # {}
    /\ events' = {}
    /\ UNCHANGED <<hour, lastSent, outbox, arrivals, reader>>

LogTick ==
    /\ hour < LogHorizon
    /\ hour' = hour + 1
    /\ UNCHANGED <<lastSent, outbox, arrivals, events, reader>>

NewAlerts == {[type |-> t, src |-> s, level |-> l, at |-> m, handled |-> hour] :
                 t \in AlertTypes, s \in Sources, l \in AlertLevels, m \in 0 .. hour}

LogNext ==
    \/ \E a \in NewAlerts : Handle(a)
    \/ ForgetStamps
    \/ \E W \in SUBSET AlertTypes : OpenPage(W)
    \/ NextPage
    \/ ClearEvents
    \/ LogTick

LogSpec == LogInit /\ [][LogNext]_logVars

-----------------------------------------------------------------------------
(* The digest: the newest rows of the period, without the omitted types,    *)
(* counted by type.                                                         *)

Recent     == {i \in events : arrivals[i].at + Lookback >= hour}
DigestRows == {i \in Recent : Cardinality({j \in Recent : j >= i}) <= DigestMax}

CountOf(I, t) == Cardinality({i \in I : arrivals[i].type = t})
Digest == [t \in AlertTypes \ DigestOmits |-> CountOf(DigestRows, t)]

-----------------------------------------------------------------------------
(* Properties.                                                              *)

\* An alert that a channel with a cooldown passes over is one for which that
\* channel tried to send an alert of the same type (a mailbox: about the same
\* device) less than the cooldown before: alerts too mild for the channel, or
\* of other devices, never cost a device its mail.
SilenceIsOwed ==
    \A c \in Cooled, i \in DOMAIN arrivals :
        Admits(c, arrivals[i]) =>
            \E j \in outbox[c] :
                /\ j <= i /\ ChannelKey(c, arrivals[j]) = ChannelKey(c, arrivals[i])
                /\ j = i \/ arrivals[i].handled - arrivals[j].handled < Quiet

PagingMissesNothing ==
    \A i \in reader.owed \cap events : Place(i) <= reader.offset => i \in reader.read

\* The counts are those of the newest rows: no type has more than happened, and
\* all have as many unless there are more rows than a digest may read.
DigestIsHonest ==
    \A t \in AlertTypes \ DigestOmits :
        /\ Digest[t] <= CountOf(Recent, t)
        /\ Cardinality(Recent) <= DigestMax => Digest[t] = CountOf(Recent, t)
        /\ CountOf(Recent, t) - Digest[t] <= Cardinality(Recent \ DigestRows)

\* Who reads the events is served: a client that pages through them misses none
\* of those that were there when it began and still are (new rows only push the
\* others to later pages, and the rows that are pruned are the last ones), and
\* what the agent is told falls short only by what the limit cuts off.
ReadersAreServed == PagingMissesNothing /\ DigestIsHonest
===============================================================================
