------------------------------- MODULE KeyCache -------------------------------
(***************************************************************************)
(* The cache of keys in ~/.u-tec/config.json: read(), write() and update()  *)
(* of src/config.js under `utec link', `utec pair' and `utec forget' of     *)
(* src/cli.js, each in a process of its own, and the plugin's discover() of *)
(* src/homebridge/platform.js, which makes HomeKit's accessories from it.   *)
(*                                                                         *)
(* A file is read in one step, and written in two: opening it for writing   *)
(* empties it.  A process may be killed between any two steps.  The account *)
(* is external; a lock in it is a serial number with the key it has there,  *)
(* and 0 where it is not in the account.                                    *)
(***************************************************************************)
EXTENDS Naturals

CONSTANTS
    Serials,    \* the locks, by serial number
    Processes,  \* runs of utec that may overlap
    Only,       \* the plugin's `locks' setting; empty for all of them
    MaxKey,     \* bound: changes of a lock's key in the account
    MayCrash    \* can a run be killed?

ASSUME KeyCacheAssumption ==
    /\ MaxKey \in Nat \ {0}
    /\ Only \subseteq Serials
    /\ MayCrash \in BOOLEAN

VARIABLES
    account,    \* each lock's key in the account
    text,       \* config.json: "whole", "empty" once opened for writing, or
                \* "garbled", two writes on top of each other
    file,       \* the cache it holds, if whole
    command,    \* what each process runs
    phase,      \* how far it has come
    local,      \* the cache it is about to write
    accessories,\* what Homebridge has of the plugin, and restores to it
    saved,      \* history: the last cache written whole
    linked,     \* history: the locks `utec link' last wrote
    forgotten   \* history: the cache was discarded, and no `utec link' since

history == <<saved, linked, forgotten>>
vars == <<account, text, file, command, phase, local, accessories, history>>

(* bleLocks is, for each lock in it, its key and whether it has a            *)
(* peripheralId; with none there is no file, or one without bleLocks.       *)
NoLocks   == [s \in {} |-> 0]
Readable  == text = "whole"

Init ==
    /\ account \in [Serials -> 0..1]
    /\ text = "whole" /\ file = NoLocks /\ saved = NoLocks
    /\ command = [p \in Processes |-> "none"]
    /\ phase = [p \in Processes |-> "idle"]
    /\ local = [p \in Processes |-> NoLocks]
    /\ accessories = {} /\ linked = {} /\ forgotten = FALSE

Runs(p, name, from, to) ==
    /\ command[p] = name /\ phase[p] = from
    /\ phase' = [phase EXCEPT ![p] = to]
    /\ UNCHANGED command

Starts(p, name, to) ==
    /\ phase[p] \in {"idle", "failed"}
    /\ command' = [command EXCEPT ![p] = name]
    /\ phase' = [phase EXCEPT ![p] = to]

(* The process is about to write `cache'; it works on a copy of its own.    *)
Holds(p, cache) == local' = [local EXCEPT ![p] = cache]

-----------------------------------------------------------------------------
(* config.update(): read, merge, write.  bleLocks is all the file holds, so *)
(* what is read does not matter, but a file that does not parse does.       *)
UpdateReads(p) ==
    /\ phase[p] = "update"
    /\ phase' = [phase EXCEPT ![p] = IF Readable THEN "open" ELSE "failed"]
    /\ UNCHANGED <<account, text, file, command, local, accessories, history>>

WriteOpens(p) ==
    /\ phase[p] = "open"
    /\ phase' = [phase EXCEPT ![p] = "write"]
    /\ text' = "empty"
    /\ UNCHANGED <<account, file, command, local, accessories, history>>

(* Over somebody else's longer text the end of that text stays.             *)
Writes(p) ==
    /\ phase[p] = "write"
    /\ phase' = [phase EXCEPT ![p] = "idle"]
    /\ text' \in {"whole"} \cup (IF text = "empty" THEN {} ELSE {"garbled"})
    /\ file' = local[p]
    /\ saved' = local[p]
    /\ forgotten' = CASE command[p] = "forget" -> TRUE
                      [] command[p] = "link"   -> FALSE
                      [] OTHER                 -> forgotten
    /\ linked' = IF command[p] = "link" THEN DOMAIN local[p] ELSE linked
    /\ UNCHANGED <<account, command, local, accessories>>

Killed(p) ==
    /\ MayCrash
    /\ phase[p] \notin {"idle", "failed"}
    /\ phase' = [phase EXCEPT ![p] = "idle"]
    /\ UNCHANGED <<account, text, file, command, local, accessories, history>>

-----------------------------------------------------------------------------
(* utec link: the credentials of the account, none of them paired.          *)
Fetched == [s \in {t \in Serials : account[t] > 0} |-> [key |-> account[s], paired |-> FALSE]]

LinkFetches(p) ==
    /\ Starts(p, "link", IF DOMAIN Fetched = {} THEN "failed" ELSE "merge")
    /\ Holds(p, Fetched)
    /\ UNCHANGED <<account, text, file, accessories, history>>

(* Mutant: what `pair' has learned is not kept.                             *)
LinkMergesNothing(p) ==
    /\ Runs(p, "link", "merge", IF Readable THEN "update" ELSE "failed")
    /\ UNCHANGED <<account, text, file, local, accessories, history>>

(* It keeps the peripheral ids that `pair' has learned.                     *)
LinkMerges(p) ==
    /\ Runs(p, "link", "merge", IF Readable THEN "update" ELSE "failed")
    /\ IF Readable
       THEN Holds(p, [s \in DOMAIN local[p] |->
                [local[p][s] EXCEPT !.paired = s \in DOMAIN file /\ file[s].paired]])
       ELSE UNCHANGED local
    /\ UNCHANGED <<account, text, file, accessories, history>>

(* utec pair: loadLocks() throws if there are none.                         *)
PairLoads(p) ==
    /\ Starts(p, "pair", IF Readable /\ file # NoLocks THEN "scan" ELSE "failed")
    /\ IF Readable THEN Holds(p, file) ELSE UNCHANGED local
    /\ UNCHANGED <<account, text, file, accessories, history>>

(* Mutant: only the locks found this time are kept.                         *)
PairScansOnly(p) ==
    \E near \in SUBSET Serials :
        LET identified == near \cap DOMAIN local[p]
        IN  /\ Runs(p, "pair", "scan", IF identified = {} THEN "failed" ELSE "update")
            /\ Holds(p, [s \in identified |-> [local[p][s] EXCEPT !.paired = TRUE]])
            /\ UNCHANGED <<account, text, file, accessories, history>>

(* Some locks are near and tell their serial numbers; those in the cache    *)
(* are paired.                                                              *)
PairScans(p) ==
    \E near \in SUBSET Serials :
        LET identified == near \cap DOMAIN local[p]
        IN  /\ Runs(p, "pair", "scan", IF identified = {} THEN "failed" ELSE "update")
            /\ Holds(p, [s \in DOMAIN local[p] |->
                   [local[p][s] EXCEPT !.paired = @ \/ s \in identified]])
            /\ UNCHANGED <<account, text, file, accessories, history>>

(* utec forget                                                              *)
ForgetBegins(p) ==
    /\ Starts(p, "forget", "update")
    /\ Holds(p, NoLocks)
    /\ UNCHANGED <<account, text, file, accessories, history>>

(* External: a lock joins the account, gets another key, or leaves it.      *)
AccountChanges ==
    /\ \E s \in Serials :
           \/ account[s] < MaxKey /\ account' = [account EXCEPT ![s] = @ + 1]
           \/ account[s] = MaxKey /\ account' = [account EXCEPT ![s] = 0]
    /\ UNCHANGED <<text, file, command, phase, local, accessories, history>>

-----------------------------------------------------------------------------
(* loadLocks() of the plugin: nothing from a file that does not parse or    *)
(* holds no locks, and else those that its setting names.                   *)
Loaded ==
    IF ~Readable THEN {}
    ELSE {s \in DOMAIN file : Only = {} \/ s \in Only}

(* Mutant: nothing to set up does not keep discover() from dropping.        *)
PluginStartsEmpty ==
    /\ accessories' = Loaded
    /\ UNCHANGED <<account, text, file, command, phase, local, history>>

(* discover(): accessories are added and dropped until they are the locks   *)
(* loaded; without a lock it returns before either.                         *)
PluginStarts ==
    /\ Loaded # {}
    /\ accessories' = Loaded
    /\ UNCHANGED <<account, text, file, command, phase, local, history>>

-----------------------------------------------------------------------------
Next ==
    \/ \E p \in Processes :
          \/ UpdateReads(p) \/ WriteOpens(p) \/ Writes(p) \/ Killed(p)
          \/ LinkFetches(p) \/ LinkMerges(p)
          \/ PairLoads(p) \/ PairScans(p)
          \/ ForgetBegins(p)
    \/ PluginStarts
    \/ AccountChanges

Spec == Init /\ [][Next]_vars

-----------------------------------------------------------------------------
(* cli.js 190: "Keep any peripheral ids already learned by `pair`": a lock  *)
(* that is in the cache before and after a command is not unpaired by it,   *)
(* however runs were killed in between.                                     *)
PairingKept ==
    [][\A s \in DOMAIN saved \cap DOMAIN saved' : saved[s].paired => saved'[s].paired]_saved

(* platform.js 129, "Drop accessories for locks no longer cached": HomeKit, *)
(* with the rooms and automations kept there, loses a lock only if the last *)
(* `utec link' did not find it in the account any more: not through a run   *)
(* killed while it wrote, nor through a lock that `pair' did not hear.      *)
AccessoriesKept ==
    [][\A s \in accessories \ accessories' : s \notin linked]_accessories

(* cli.js 27: "Discard the cached Bluetooth keys": they stay discarded      *)
(* until the next `utec link'.                                              *)
StaysForgotten == forgotten /\ Readable => file = NoLocks

(* platform.js 69-71, on a file that cannot be read: "Run `utec link`": it  *)
(* does not fail once it has the credentials.                               *)
LinkRepairs ==
    \A p \in Processes :
        phase[p] = "failed" /\ command[p] = "link" => local[p] = NoLocks

=============================================================================
