------------------------------- MODULE Inventory -------------------------------
(***************************************************************************)
(* The device inventory (inventory/store.py) with the loops that fill it:   *)
(* packets, the ARP scan (arp_scanner.py), alerts that raise a device's     *)
(* level, and the reverse lookups (resolver.py).  One loop saves it to      *)
(* inventory.json; a start of the monitor loads it.  All loops are          *)
(* coroutines of one thread: between two of their awaits nothing else runs, *)
(* a save included, but the process can die in the middle of one.           *)
(***************************************************************************)
EXTENDS Naturals, FiniteSets

CONSTANTS
    Devices,      \* addresses
    Local,        \* those within local_networks
    Trusted,      \* those the whitelist of the configuration covers
    Remember,     \* 172800: how long a silent device is kept
    Raises,       \* the levels alerts have, above LOW
    NegativeTtl,  \* how long a failed lookup is not repeated
    CacheSize,    \* _CACHE_SIZE
    InventoryHorizon  \* bound: the last moment

ASSUME InventoryAssumption ==
    /\ Local \subseteq Devices /\ Trusted \subseteq Devices
    /\ Raises \subseteq 2 .. 4
    /\ Remember \in Nat /\ NegativeTtl \in Nat /\ CacheSize \in Nat \ {0}
    /\ InventoryHorizon \in Nat

VARIABLES
    moment,    \* the time
    running,   \* the monitor runs
    records,   \* _records: per known device
    saving,    \* a save is under way: it will write the records
    disk,      \* inventory.json: whether there is one and what is in it
    listed,    \* devices of the resolver's round that are still to be looked up
    negative,  \* _negative_cache: per device, until when
    answers    \* the lru_cache of _sync_resolve: per device, a name or none

inventoryVars == <<moment, running, records, saving, disk, listed, negative, answers>>

\* Level, name and MAC stand for everything that is learnt of a device.
DeviceRecord == [seen : Nat, level : 1 .. 4, named : BOOLEAN, mac : BOOLEAN]

None == [d \in {} |-> 0]
File(state, R) == [state |-> state, records |-> R]
Intact == disk.state = "intact"

Rows(R) == DOMAIN R \subseteq Devices /\ R \in [DOMAIN R -> DeviceRecord]

InventoryTypeOK ==
    /\ moment \in Nat /\ running \in BOOLEAN /\ saving \in BOOLEAN
    /\ Rows(records)
    /\ disk \in [state : {"missing", "torn", "intact"}, records : {disk.records}]
    /\ Rows(disk.records)
    /\ listed \subseteq Devices
    /\ DOMAIN negative \subseteq Devices /\ DOMAIN answers \subseteq Devices

InventoryInit ==
    /\ moment = 0 /\ running = FALSE
    /\ records = None /\ saving = FALSE /\ disk = File("missing", None)
    /\ listed = {} /\ negative = None /\ answers = None

Awake == running /\ ~saving

Enter(f, d, v) == [x \in DOMAIN f \cup {d} |-> IF x = d THEN v ELSE f[x]]
Only(f, D)     == [d \in DOMAIN f \cap D |-> f[d]]

-----------------------------------------------------------------------------
(* What is learnt of devices.                                               *)

Fresh == [seen |-> moment, level |-> 1, named |-> FALSE, mac |-> FALSE]

Seen(D) == [d \in DOMAIN records \cup D |->
              IF d \notin D THEN records[d]
              ELSE IF d \in DOMAIN records THEN [records[d] EXCEPT !.seen = moment]
              ELSE Fresh]

\* The source and the destination of a packet.
Update(src, dst) ==
    /\ Awake
    /\ records' = Seen({src, dst} \cap Local)
    /\ UNCHANGED <<moment, running, saving, disk, listed, negative, answers>>

\* An answer of the ARP scan; a device without a record is announced.
UpdateArp(d) ==
    /\ Awake
    /\ records' = [Seen({d}) EXCEPT ![d].mac = TRUE]
    /\ UNCHANGED <<moment, running, saving, disk, listed, negative, answers>>

UpdateThreat(d, level) ==
    /\ Awake /\ d \in DOMAIN records /\ level > records[d].level
    /\ records' = [records EXCEPT ![d].level = level]
    /\ UNCHANGED <<moment, running, saving, disk, listed, negative, answers>>

-----------------------------------------------------------------------------
(* Lookups.  A round goes through the devices that had no name when it      *)
(* began; a lookup that was not answered in time is still answered later,   *)
(* into the cache of _sync_resolve only.                                    *)

AllIps == DOMAIN records    \* mutant: named devices are looked up again

UnresolvedIps == {d \in DOMAIN records : ~records[d].named}

StartRound ==
    /\ Awake /\ listed = {} /\ UnresolvedIps # {}
    /\ listed' = UnresolvedIps
    /\ UNCHANGED <<moment, running, records, saving, disk, negative, answers>>

HeldOff(d) == d \in DOMAIN negative /\ moment < negative[d]

\* The record may have been pruned since.
UpdateHostname(d, named) ==
    records' = IF d \in DOMAIN records THEN [records EXCEPT ![d].named = named] ELSE records

NoAnswer(d) ==
    /\ negative' = Enter(negative, d, moment + NegativeTtl)
    /\ UpdateHostname(d, FALSE)

\* The cache is full: some entry makes room.
CacheAnswer(d, named) ==
    \E D \in SUBSET DOMAIN answers :
        /\ Cardinality(D) < CacheSize
        /\ Cardinality(DOMAIN answers) < CacheSize => D = DOMAIN answers
        /\ Cardinality(DOMAIN answers) >= CacheSize => Cardinality(D) = CacheSize - 1
        /\ answers' = Enter(Only(answers, D), d, named)

AskNetwork(d) ==
    \/ CacheAnswer(d, TRUE) /\ UpdateHostname(d, TRUE) /\ negative' = Only(negative, Devices \ {d})
    \/ CacheAnswer(d, FALSE) /\ NoAnswer(d)
    \/ NoAnswer(d) /\ UNCHANGED answers    \* TimeoutError

Resolve(d) ==
    /\ Awake /\ d \in listed
    /\ listed' = listed \ {d}
    /\ \/ /\ HeldOff(d)
          /\ UpdateHostname(d, FALSE)
          /\ UNCHANGED <<negative, answers>>
       \/ /\ ~HeldOff(d) /\ d \in DOMAIN answers
          /\ \/ /\ answers[d] /\ UpdateHostname(d, TRUE)
                /\ negative' = Only(negative, Devices \ {d})
             \/ ~answers[d] /\ NoAnswer(d)
          /\ UNCHANGED answers
       \/ ~HeldOff(d) /\ d \notin DOMAIN answers /\ AskNetwork(d)
    /\ UNCHANGED <<moment, running, saving, disk>>

LateAnswer(d) ==
    /\ Awake /\ d \in DOMAIN negative /\ d \notin DOMAIN answers
    /\ \E named \in BOOLEAN : CacheAnswer(d, named)
    /\ UNCHANGED <<moment, running, records, saving, disk, listed, negative>>

-----------------------------------------------------------------------------
(* Saving and loading.                                                      *)

\* Devices silent for too long go; then the file is opened for writing, which
\* empties it.  An error before that leaves the old file.
BeginPersist ==
    /\ Awake
    /\ records' = Only(records, {d \in DOMAIN records : records[d].seen + Remember >= moment})
    /\ \/ disk' = File("torn", None) /\ saving' = TRUE
       \/ UNCHANGED <<disk, saving>>
    /\ UNCHANGED <<moment, running, listed, negative, answers>>

\* The disk may be full.
EndPersist ==
    /\ saving
    /\ saving' = FALSE
    /\ disk' \in {File("intact", records), File("torn", None)}
    /\ UNCHANGED <<moment, running, records, listed, negative, answers>>

Die ==
    /\ running
    /\ running' = FALSE
    /\ records' = None /\ saving' = FALSE
    /\ listed' = {} /\ negative' = None /\ answers' = None
    /\ UNCHANGED <<moment, disk>>

ResetWhitelisted(R) == [d \in DOMAIN R |-> IF d \in Trusted THEN [R[d] EXCEPT !.level = 1] ELSE R[d]]

\* A file that is missing or cannot be parsed makes an empty inventory.
Load ==
    /\ ~running
    /\ running' = TRUE
    /\ records' = IF Intact THEN ResetWhitelisted(disk.records) ELSE None
    /\ UNCHANGED <<moment, saving, disk, listed, negative, answers>>

InventoryTick ==
    /\ moment < InventoryHorizon
    /\ moment' = moment + 1
    /\ UNCHANGED <<running, records, saving, disk, listed, negative, answers>>

InventoryNext ==
    \/ \E s, d \in Devices : Update(s, d)
    \/ \E d \in Devices : UpdateArp(d) \/ Resolve(d) \/ LateAnswer(d)
    \/ \E d \in Devices, l \in Raises : UpdateThreat(d, l)
    \/ StartRound
    \/ BeginPersist \/ EndPersist \/ Die \/ Load
    \/ InventoryTick

InventorySpec == InventoryInit /\ [][InventoryNext]_inventoryVars

-----------------------------------------------------------------------------
(* Properties.                                                              *)

\* What the file on disk says of a device that was heard of within the last
\* 48 hours, the running monitor knows too, however often it was restarted:
\* its name, its MAC and, unless it is whitelisted, a level no lower.  No
\* lookup that fails later and no pruning takes it away.
SavedIsRemembered ==
    running /\ Intact =>
        \A d \in DOMAIN disk.records :
            LET saved == disk.records[d]
            IN  saved.seen + Remember >= moment =>
                    /\ d \in DOMAIN records
                    /\ records[d].seen >= saved.seen
                    /\ saved.named => records[d].named
                    /\ saved.mac => records[d].mac
                    /\ d \in Trusted \/ records[d].level >= saved.level
===============================================================================
