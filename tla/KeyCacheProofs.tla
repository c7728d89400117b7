--------------------------- MODULE KeyCacheProofs ---------------------------
(***************************************************************************)
(* What module KeyCache promises where one command runs at a time, for any  *)
(* locks and however often runs are killed: no pairing is unlearned, and    *)
(* HomeKit loses no lock that the account has.  With commands that overlap  *)
(* neither holds: the later writer has not seen what the earlier wrote.     *)
(***************************************************************************)
EXTENDS KeyCache, TLAPS

Entry == [key : Nat, paired : BOOLEAN]

Cache(c) == c \in [DOMAIN c -> Entry] /\ DOMAIN c \subseteq Serials

Types ==
    /\ account \in [Serials -> Nat]
    /\ DOMAIN command = Processes /\ DOMAIN phase = Processes /\ DOMAIN local = Processes
    /\ Cache(file)
    /\ \A q \in Processes : Cache(local[q])

(* The cache a process is about to write follows from the file as it is.    *)
Follows(q) ==
    /\ phase[q] = "merge" => command[q] = "link"
    /\ phase[q] = "scan" => command[q] = "pair" /\ local[q] = file
    /\ phase[q] \in {"update", "open", "write"} =>
           /\ \A s \in DOMAIN file \cap DOMAIN local[q] : file[s].paired => local[q][s].paired
           /\ \/ command[q] = "link"
              \/ command[q] = "pair" /\ DOMAIN local[q] = DOMAIN file
              \/ command[q] = "forget" /\ DOMAIN local[q] = {}

(* The file has the locks of the last `utec link', or none.                 *)
Filed ==
    /\ file = saved
    /\ DOMAIN file \in {linked, {}}
    /\ \A s \in accessories : Only = {} \/ s \in Only

IInv == Types /\ Filed /\ \A q \in Processes : Follows(q)

LEMMA NoLocksCached == Cache(NoLocks) /\ DOMAIN NoLocks = {}
BY DEF Cache, NoLocks, Entry

LEMMA FetchedCached == ASSUME Types PROVE Cache(Fetched)
BY DEF Cache, Fetched, Types, Entry

LEMMA InitIInv == Init => IInv
<1> SUFFICES ASSUME Init PROVE IInv
  OBVIOUS
<1>1. Types
  <2>1. account \in [Serials -> Nat]
    BY DEF Init
  <2> QED BY <2>1, NoLocksCached DEF Init, Types
<1>2. Filed
  BY NoLocksCached DEF Init, Filed
<1>3. \A q \in Processes : Follows(q)
  BY DEF Init, Follows
<1> QED BY <1>1, <1>2, <1>3 DEF IInv

(* One step of the one process.                                             *)
LEMMA NextIInv ==
    ASSUME NEW p, Processes = {p}, IInv, [Next]_vars
    PROVE  IInv'
<1> USE DEF history
<1>a. /\ p \in Processes /\ \A q \in Processes : q = p
      /\ DOMAIN command = Processes /\ DOMAIN phase = Processes /\ DOMAIN local = Processes
      /\ Cache(file) /\ Cache(local[p]) /\ Filed /\ Follows(p) /\ Types
  BY DEF IInv, Types
<1>q. SUFFICES Types' /\ Filed' /\ Follows(p)'
  BY <1>a DEF IInv
<1>1. CASE UpdateReads(p)
  BY <1>1, <1>a DEF UpdateReads, Types, Filed, Follows
<1>2. CASE WriteOpens(p)
  BY <1>2, <1>a DEF WriteOpens, Types, Filed, Follows
<1>3. CASE Writes(p)
  <2>1. /\ phase[p] = "write" /\ phase' = [phase EXCEPT ![p] = "idle"]
        /\ file' = local[p] /\ saved' = local[p]
        /\ linked' = (IF command[p] = "link" THEN DOMAIN local[p] ELSE linked)
        /\ UNCHANGED <<account, command, local, accessories>>
    BY <1>3 DEF Writes
  <2>2. Types'
    BY <2>1, <1>a DEF Types
  <2>3. DOMAIN local[p] \in {linked', {}}
    BY <2>1, <1>a DEF Follows, Filed
  <2>4. Filed'
    BY <2>1, <2>3, <1>a DEF Filed
  <2>5. Follows(p)'
    BY <2>1, <1>a DEF Follows
  <2> QED BY <2>2, <2>4, <2>5
<1>4. CASE Killed(p)
  BY <1>4, <1>a DEF Killed, Types, Filed, Follows
<1>5. CASE LinkFetches(p)
  <2>1. phase'[p] \in {"failed", "merge"} /\ command'[p] = "link"
    BY <1>5, <1>a DEF LinkFetches, Starts
  <2>2. local'[p] = Fetched /\ DOMAIN local' = Processes
    BY <1>5, <1>a DEF LinkFetches, Holds
  <2>3. UNCHANGED <<account, text, file, accessories, history>>
    BY <1>5 DEF LinkFetches
  <2>4. DOMAIN command' = Processes /\ DOMAIN phase' = Processes
    BY <1>5, <1>a DEF LinkFetches, Starts
  <2>5. Types'
    BY <2>2, <2>3, <2>4, <1>a, FetchedCached DEF Types, Cache
  <2> QED BY <2>1, <2>3, <2>5, <1>a DEF Filed, Follows
<1>6. CASE LinkMerges(p)
  <2>1. /\ command[p] = "link" /\ command' = command
        /\ phase'[p] = (IF Readable THEN "update" ELSE "failed")
        /\ DOMAIN phase' = Processes
        /\ UNCHANGED <<account, text, file, accessories, history>>
    BY <1>6, <1>a DEF LinkMerges, Runs
  <2>2. CASE Readable
    <3> DEFINE merged ==
           [s \in DOMAIN local[p] |->
               [local[p][s] EXCEPT !.paired = s \in DOMAIN file /\ file[s].paired]]
    <3>1. local'[p] = merged /\ DOMAIN local' = Processes
      BY <1>6, <2>2, <1>a DEF LinkMerges, Holds
    <3>2. \A s \in DOMAIN file : file[s].paired \in BOOLEAN
      BY <1>a DEF Cache, Entry
    <3>3. \A s \in DOMAIN local[p] :
             /\ merged[s] \in Entry
             /\ merged[s].paired = (s \in DOMAIN file /\ file[s].paired)
      BY <3>2, <1>a DEF Cache, Entry
    <3>4. Cache(merged)
      BY <3>3, <1>a DEF Cache
    <3>5. Types'
      BY <2>1, <3>1, <3>4, <1>a DEF Types, Cache
    <3>6. Filed'
      BY <2>1, <1>a DEF Filed
    <3>7. Follows(p)'
      BY <2>1, <2>2, <3>1, <3>3 DEF Follows
    <3> QED BY <3>5, <3>6, <3>7
  <2>3. CASE ~Readable
    <3>1. local' = local
      BY <1>6, <2>3 DEF LinkMerges
    <3> QED BY <2>1, <2>3, <3>1, <1>a DEF Types, Filed, Follows
  <2> QED BY <2>2, <2>3
<1>7. CASE PairLoads(p)
  <2>1. /\ command'[p] = "pair" /\ DOMAIN command' = Processes /\ DOMAIN phase' = Processes
        /\ phase'[p] \in {"scan", "failed"}
        /\ phase'[p] = "scan" => Readable
        /\ UNCHANGED <<account, text, file, accessories, history>>
    BY <1>7, <1>a DEF PairLoads, Starts
  <2>2. CASE Readable
    <3>1. local'[p] = file /\ DOMAIN local' = Processes
      BY <1>7, <2>2, <1>a DEF PairLoads, Holds
    <3>2. Types'
      BY <2>1, <3>1, <1>a DEF Types, Cache
    <3> QED BY <2>1, <3>1, <3>2, <1>a DEF Filed, Follows
  <2>3. CASE ~Readable
    <3>1. local' = local
      BY <1>7, <2>3 DEF PairLoads
    <3> QED BY <2>1, <2>3, <3>1, <1>a DEF Types, Filed, Follows
  <2> QED BY <2>2, <2>3
<1>8. CASE PairScans(p)
  <2>1. PICK near \in SUBSET Serials :
           LET identified == near \cap DOMAIN local[p]
           IN  /\ Runs(p, "pair", "scan", IF identified = {} THEN "failed" ELSE "update")
               /\ Holds(p, [s \in DOMAIN local[p] |->
                      [local[p][s] EXCEPT !.paired = @ \/ s \in identified]])
               /\ UNCHANGED <<account, text, file, accessories, history>>
    BY <1>8 DEF PairScans
  <2> DEFINE identified == near \cap DOMAIN local[p]
             learned == [s \in DOMAIN local[p] |->
                            [local[p][s] EXCEPT !.paired = @ \/ s \in identified]]
  <2>2. /\ command[p] = "pair" /\ phase[p] = "scan" /\ command' = command
        /\ phase'[p] \in {"failed", "update"} /\ DOMAIN phase' = Processes
        /\ local'[p] = learned /\ DOMAIN local' = Processes
        /\ UNCHANGED <<account, text, file, accessories, history>>
    BY <2>1, <1>a DEF Runs, Holds
  <2>3. \A s \in DOMAIN local[p] :
           /\ learned[s] \in Entry
           /\ learned[s].paired = (local[p][s].paired \/ s \in identified)
    BY <1>a DEF Cache, Entry
  <2>4. Cache(learned)
    BY <2>3, <1>a DEF Cache
  <2>5. Types'
    BY <2>2, <2>4, <1>a DEF Types, Cache
  <2>6. Filed'
    BY <2>2, <1>a DEF Filed
  <2>7. local[p] = file
    BY <2>2, <1>a DEF Follows
  <2>8. Follows(p)'
    BY <2>2, <2>3, <2>7 DEF Follows
  <2> QED BY <2>5, <2>6, <2>8
<1>9. CASE ForgetBegins(p)
  <2>1. /\ command'[p] = "forget" /\ DOMAIN command' = Processes /\ DOMAIN phase' = Processes
        /\ phase'[p] = "update"
        /\ local'[p] = NoLocks /\ DOMAIN local' = Processes
        /\ UNCHANGED <<account, text, file, accessories, history>>
    BY <1>9, <1>a DEF ForgetBegins, Starts, Holds
  <2>2. Types'
    BY <2>1, <1>a, NoLocksCached DEF Types, Cache
  <2> QED BY <2>1, <2>2, <1>a, NoLocksCached DEF Filed, Follows
<1>10. CASE PluginStarts
  BY <1>10, <1>a DEF PluginStarts, Loaded, Types, Filed, Follows
<1>11. CASE AccountChanges
  <2>1. account' \in [Serials -> Nat]
    BY <1>11, <1>a DEF AccountChanges, Types
  <2> QED BY <1>11, <2>1, <1>a DEF AccountChanges, Types, Filed, Follows
<1>12. CASE UNCHANGED vars
  BY <1>12, <1>a DEF vars, Types, Filed, Follows
<1> QED
  BY <1>a, <1>1, <1>2, <1>3, <1>4, <1>5, <1>6, <1>7, <1>8, <1>9, <1>10, <1>11, <1>12 DEF Next

-----------------------------------------------------------------------------
(* What a step writes keeps the pairings of what was written before.        *)
LEMMA StepKeepsPairing ==
    ASSUME NEW p, Processes = {p}, IInv, [Next]_vars
    PROVE  [\A s \in DOMAIN saved \cap DOMAIN saved' : saved[s].paired => saved'[s].paired]_saved
<1>1. CASE Writes(p)
  <2>1. phase[p] = "write" /\ saved' = local[p] /\ file = saved /\ Follows(p)
    BY <1>1 DEF Writes, IInv, Filed
  <2> QED BY <2>1 DEF Follows
<1>2. CASE ~Writes(p)
  <2>1. saved' = saved
    BY <1>2 DEF Next, vars, history, UpdateReads, WriteOpens, Killed, LinkFetches, LinkMerges,
                PairLoads, PairScans, ForgetBegins, PluginStarts, AccountChanges
  <2> QED BY <2>1
<1> QED BY <1>1, <1>2

(* "Keep any peripheral ids already learned by `pair`" (cli.js 190),        *)
(* whatever was killed in between.                                          *)
THEOREM PairingsAreKept == ASSUME NEW p, Processes = {p} PROVE Spec => PairingKept
<1>1. IInv /\ [Next]_vars => IInv'
  BY NextIInv
<1>2. IInv /\ [Next]_vars =>
        [\A s \in DOMAIN saved \cap DOMAIN saved' : saved[s].paired => saved'[s].paired]_saved
  BY StepKeepsPairing
<1> QED BY <1>1, <1>2, InitIInv, PTL DEF Spec, PairingKept

LEMMA StepKeepsAccessories ==
    ASSUME NEW p, Processes = {p}, IInv, [Next]_vars
    PROVE  [\A s \in accessories \ accessories' : s \notin linked]_accessories
<1>1. CASE PluginStarts
  <2>1. accessories' = Loaded /\ Loaded # {} /\ Filed
    BY <1>1 DEF PluginStarts, IInv
  <2>2. Readable /\ DOMAIN file # {}
    BY <2>1 DEF Loaded
  <2>3. DOMAIN file = linked
    BY <2>1, <2>2 DEF Filed
  <2> QED BY <2>1, <2>2, <2>3 DEF Loaded, Filed
<1>2. CASE ~PluginStarts
  <2>1. accessories' = accessories
    BY <1>2 DEF Next, vars, history, UpdateReads, WriteOpens, Writes, Killed, LinkFetches,
                LinkMerges, PairLoads, PairScans, ForgetBegins, AccountChanges
  <2> QED BY <2>1
<1> QED BY <1>1, <1>2

(* HomeKit loses a lock only if the last `utec link' did not find it in the *)
(* account (platform.js 129).                                               *)
THEOREM HomeKitKeepsLocks == ASSUME NEW p, Processes = {p} PROVE Spec => AccessoriesKept
<1>1. IInv /\ [Next]_vars => IInv'
  BY NextIInv
<1>2. IInv /\ [Next]_vars =>
        [\A s \in accessories \ accessories' : s \notin linked]_accessories
  BY StepKeepsAccessories
<1> QED BY <1>1, <1>2, InitIInv, PTL DEF Spec, AccessoriesKept

=============================================================================
