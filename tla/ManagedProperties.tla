-------------------------- MODULE ManagedProperties --------------------------
(***************************************************************************)
(* The properties of the two management objects: "provider" (qmf           *)
(* StorageProvider) and "journal" (qmf Journal, one for each queue).  The  *)
(* agent reports the properties of an object when configChanged is set,    *)
(* as a buffer or as a map, and a console takes them over.                 *)
(*                                                                         *)
(* The value of a property is a token: the name of the property stands for *)
(* the value it is given, Default for what the constructor leaves, "yes"   *)
(* for a flag that is set.  The buffers, maps and object ids of Qpid are   *)
(* external.                                                               *)
(***************************************************************************)
EXTENDS Naturals, Sequences, Functions

CONSTANTS
    Flags           \* the flags that are set in the options

ObjectsManaged == {"provider", "journal"}

VARIABLES
    made,           \* how far each object is: "absent", "added" or "linked"
    props,          \* its properties
    configChanged,  \* they have to be reported
    console,        \* the properties as a console knows them
    tooEarly        \* history: reported before setReference

propVars == <<made, props, configChanged, console, tooEarly>>

Default == "unset"
Octets == {"compact", "smart_async", "acceptRecovery"}

-----------------------------------------------------------------------------
(***************************************************************************)
(* Encoding.  A flag goes as an octet, everything else as it is.           *)
(***************************************************************************)
ToWire(f, v) == IF f \in Octets THEN IF v = "yes" THEN 1 ELSE 0 ELSE v
FromWire(f, w) == IF f \in Octets THEN IF w = 1 THEN "yes" ELSE "no" ELSE w

\* The order in which StorageProvider::writeProperties puts the properties.
ProviderWritten ==
    <<"brokerRef", "location", "bdbBaseDir", "type",
      "num_jfiles", "num_thread_enqueue", "num_thread_dequeue",
      "compact", "smart_async", "acceptRecovery",
      "mongoHost", "mongoPort", "mongoDbName", "mongoCollection",
      "enqLogCleanerTimeInterval", "deqLogCleanerTimeInterval",
      "enqLogCleanerWarningSize", "deqLogCleanerWarningSize">>

\* Mutant: the numbers of threads are read in the order in which initManagement sets them.
ProviderReadAsSet ==
    [ProviderWritten EXCEPT ![6] = "num_thread_dequeue", ![7] = "num_thread_enqueue"]

\* The order in which StorageProvider::readProperties gets them.
ProviderRead ==
    <<"brokerRef", "location", "bdbBaseDir", "type",
      "num_jfiles", "num_thread_enqueue", "num_thread_dequeue",
      "compact", "smart_async", "acceptRecovery",
      "mongoHost", "mongoPort", "mongoDbName", "mongoCollection",
      "enqLogCleanerTimeInterval", "deqLogCleanerTimeInterval",
      "enqLogCleanerWarningSize", "deqLogCleanerWarningSize">>

JournalWritten == <<"queueRef", "name", "directory", "bdbDir", "num_jfiles">>
JournalRead == <<"queueRef", "name", "directory", "bdbDir", "num_jfiles">>

\* The keys that mapEncodeValues puts into the map, and those mapDecodeValues looks for.
ProviderEncoded ==
    {"brokerRef", "location", "bdbBaseDir", "type",
      "num_jfiles", "num_thread_enqueue", "num_thread_dequeue",
      "compact", "smart_async", "acceptRecovery",
      "mongoHost", "mongoPort", "mongoDbName", "mongoCollection",
      "enqLogCleanerTimeInterval", "deqLogCleanerTimeInterval",
      "enqLogCleanerWarningSize", "deqLogCleanerWarningSize"}

ProviderDecoded ==
    {"brokerRef", "location", "bdbBaseDir", "type",
      "num_jfiles", "num_thread_enqueue", "num_thread_dequeue",
      "compact", "smart_async", "acceptRecovery",
      "mongoHost", "mongoPort", "mongoDbName", "mongoCollection",
      "enqLogCleanerTimeInterval", "deqLogCleanerTimeInterval",
      "enqLogCleanerWarningSize", "deqLogCleanerWarningSize"}

JournalEncoded == {"queueRef", "name", "directory", "bdbDir", "num_jfiles"}
JournalDecoded == {"queueRef", "name", "directory", "bdbDir", "num_jfiles"}

Written(o) == IF o = "provider" THEN ProviderWritten ELSE JournalWritten
ReadIn(o) == IF o = "provider" THEN ProviderRead ELSE JournalRead
Encoded(o) == IF o = "provider" THEN ProviderEncoded ELSE JournalEncoded
Decoded(o) == IF o = "provider" THEN ProviderDecoded ELSE JournalDecoded

WriteProperties(o) == [i \in DOMAIN Written(o) |-> ToWire(Written(o)[i], props[o][Written(o)[i]])]

ReadProperties(o, buf) ==
    [f \in Range(ReadIn(o)) |->
        FromWire(f, buf[CHOOSE i \in DOMAIN ReadIn(o) : ReadIn(o)[i] = f])]

MapEncode(o) == [f \in Encoded(o) |-> props[o][f]]

MapDecode(o, map) ==
    [f \in DOMAIN console[o] |->
        IF f \in Decoded(o) \cap DOMAIN map THEN map[f] ELSE console[o][f]]

-----------------------------------------------------------------------------
Blank(o) == [f \in Range(Written(o)) |-> IF f \in Octets THEN "no" ELSE Default]

PropsInit ==
    /\ made = [o \in ObjectsManaged |-> "absent"]
    /\ props = [o \in ObjectsManaged |-> Blank(o)]
    /\ configChanged = [o \in ObjectsManaged |-> TRUE]
    /\ console = [o \in ObjectsManaged |-> Blank(o)]
    /\ tooEarly = FALSE

\* set_<property>, for each of the properties in S: of a provider, and of a journal.
ProviderSet(p, S) ==
    [f \in DOMAIN p |->
        IF f \notin S THEN p[f]
        ELSE IF f \notin Octets THEN f ELSE IF f \in Flags THEN "yes" ELSE "no"]

JournalSet(p, S) == [f \in DOMAIN p |-> IF f \in S THEN f ELSE p[f]]

\* initManagement: all properties are set before the agent hears of the object.
InitManagement ==
    /\ made["provider"] = "absent"
    /\ made' = [made EXCEPT !["provider"] = "added"]
    /\ props' = [props EXCEPT !["provider"] =
                    ProviderSet([@ EXCEPT !["brokerRef"] = "brokerRef"], ProviderEncoded \ {"brokerRef"})]
    /\ configChanged' = [configChanged EXCEPT !["provider"] = TRUE]
    /\ UNCHANGED <<console, tooEarly>>

\* JournalImpl: num_jfiles stays as the constructor of the management object left it.
BuildJournal ==
    /\ made["provider"] = "added" /\ made["journal"] = "absent"
    /\ made' = [made EXCEPT !["journal"] = "added"]
    /\ props' = [props EXCEPT !["journal"] = JournalSet(@, {"name", "directory", "bdbDir"})]
    /\ configChanged' = [configChanged EXCEPT !["journal"] = TRUE]
    /\ UNCHANGED <<console, tooEarly>>

\* setExternalQueueStore: the queue calls setReference, which sets no flag.
SetReference ==
    /\ made["journal"] = "added"
    /\ made' = [made EXCEPT !["journal"] = "linked"]
    /\ props' = [props EXCEPT !["journal"]["queueRef"] = "queueRef"]
    /\ tooEarly' = ~ configChanged["journal"]
    /\ UNCHANGED <<configChanged, console>>

\* The agent clears the flag and sends the properties, under accessLock.
ReportProperties(o) ==
    /\ made[o] # "absent" /\ configChanged[o]
    /\ configChanged' = [configChanged EXCEPT ![o] = FALSE]
    /\ \/ console' = [console EXCEPT ![o] = ReadProperties(o, WriteProperties(o))]
       \/ console' = [console EXCEPT ![o] = MapDecode(o, MapEncode(o))]
    /\ UNCHANGED <<made, props, tooEarly>>

(***************************************************************************)
(* When nothing is left to report, a console knows every property as it    *)
(* is, whichever encoding it was sent in, but for the queueRef of a        *)
(* journal that was reported between its addObject and setReference: that  *)
(* one is never corrected.                                                 *)
(***************************************************************************)
PropertiesReported ==
    \A o \in ObjectsManaged : made[o] # "absent" /\ ~ configChanged[o] =>
        \A f \in DOMAIN props[o] :
            console[o][f] = props[o][f] \/ (f = "queueRef" /\ tooEarly)
===============================================================================
