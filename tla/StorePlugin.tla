----------------------------- MODULE StorePlugin -----------------------------
(***************************************************************************)
(* How the store comes up: MessageStorePlugin asks the provider plugins to *)
(* initialise (BdbStoreProvider tries to open its environment up to        *)
(* RetryMax times), chooses one of those that registered, and gives itself *)
(* to the broker as its store.  A start ends with a provider active, with  *)
(* a broker that has no store ("nostore"), or with an exception, from the  *)
(* choice ("refused") or from the initialisation ("aborted").              *)
(***************************************************************************)
EXTENDS Integers, FiniteSets

CONSTANTS
    Others,         \* storage providers loaded besides "BDB"
    Chosen,         \* values of --storage-provider ("" when not given)
    RetryMax        \* retryMax

End == "end"

ASSUME PluginAssumptions ==
    /\ "BDB" \notin Others /\ End \notin Others
    /\ RetryMax \in Nat \ {0}

VARIABLES
    stage,          \* how far the start is
    attempts,       \* bdbRetryCnt, a local of init()
    isInit,         \* isInit of the BDB provider
    providers,      \* the registered providers
    provider,       \* the chosen one, or End
    storeSet        \* broker->setStore was called

plugin == <<stage, attempts, isInit, providers, provider, storeSet>>

StartStages == {"down", "init", "select", "nostore", "refused", "aborted"}

PluginInit ==
    /\ stage = "down"
    /\ attempts = 0 /\ isInit = FALSE
    /\ providers = {} /\ provider = End /\ storeSet = FALSE

\* A new process: static objects are constructed, other providers may register.
StartProcess ==
    /\ stage = "down"
    /\ stage' = "init"
    /\ attempts' = 0 /\ isInit' = FALSE
    /\ providers' \in SUBSET Others
    /\ provider' = End /\ storeSet' = FALSE

\* providerAvailable.
Registered(p) == providers \union {p}

\* init() succeeds, and earlyInitialize registers the provider.
InitSucceeds ==
    /\ stage = "init"
    /\ attempts' = 0
    /\ isInit' = TRUE
    /\ providers' = Registered("BDB")
    /\ stage' = "select"
    /\ UNCHANGED <<provider, storeSet>>

\* A DbException: the databases are closed and it is tried again, RetryMax times.
InitFails ==
    /\ stage = "init"
    /\ attempts' = attempts + 1
    /\ stage' = IF attempts' >= RetryMax THEN "aborted" ELSE "init"
    /\ UNCHANGED <<isInit, providers, provider, storeSet>>

(***************************************************************************)
(* A version mismatch, a directory that cannot be made, no store directory *)
(* given: a StoreException, which is not a qpid::Exception, leaves         *)
(* earlyInitialize.                                                        *)
(***************************************************************************)
InitThrows ==
    /\ stage = "init"
    /\ stage' = "aborted"
    /\ UNCHANGED <<attempts, isInit, providers, provider, storeSet>>

\* A qpid::Exception (from the management agent): reported, and not registered.
InitReported ==
    /\ stage = "init"
    /\ stage' = "select"
    /\ UNCHANGED <<attempts, isInit, providers, provider, storeSet>>

\* Mutant: a provider that did not register can be chosen by its name.
ChoiceUnchecked(name) ==
    IF name # "" THEN {name}
    ELSE IF Cardinality(providers) = 1 THEN providers ELSE {}

\* The providers that may be chosen: the named one, or the only one.
Choice(name) ==
    IF name # "" THEN providers \cap {name}
    ELSE IF Cardinality(providers) = 1 THEN providers ELSE {}

\* The rest of MessageStorePlugin::earlyInitialize; then the broker asks for recovery.
Select(name) ==
    /\ stage = "select"
    /\ \/ /\ providers = {}
          /\ stage' = "nostore"
          /\ UNCHANGED <<provider, storeSet>>
       \/ /\ providers # {} /\ Choice(name) = {}
          /\ stage' = "refused"
          /\ UNCHANGED <<provider, storeSet>>
       \/ \E p \in Choice(name) :
          /\ provider' = p
          /\ storeSet' = TRUE
          /\ stage' = IF p = "BDB" THEN "configs" ELSE "other"
    /\ UNCHANGED <<attempts, isInit, providers>>

Starting ==
    \/ StartProcess \/ InitSucceeds \/ InitFails \/ InitThrows \/ InitReported
    \/ \E name \in Chosen : Select(name)

PluginTypeOK ==
    /\ attempts \in 0..RetryMax /\ isInit \in BOOLEAN
    /\ providers \subseteq Others \union {"BDB"}
    /\ provider \in Others \union {"BDB", End}
    /\ storeSet \in BOOLEAN

(***************************************************************************)
(* Calls are only forwarded to a provider that is ready: the broker has    *)
(* the plugin as its store exactly when a provider is chosen, and if that  *)
(* is the BDB provider then one of at most RetryMax attempts to open its   *)
(* environment succeeded.  (The forwarding calls dereference the iterator  *)
(* without testing it.)                                                    *)
(***************************************************************************)
ForwardsToReady ==
    /\ storeSet <=> provider # End
    /\ provider # End => provider \in providers
    /\ provider = "BDB" => isInit
    /\ storeSet => stage \notin StartStages
==============================================================================
