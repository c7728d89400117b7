------------------------------ MODULE Discovery ------------------------------
(***************************************************************************)
(* The scans of src/ble/probe.js: reachLock() and findLocks() of            *)
(* src/locks.js, findPeripherals() for `utec pair', probe() and scanAll().  *)
(* withAdapter() and the CLI let one call in at a time (module Adapter).    *)
(*                                                                         *)
(* A peripheral is named after the device it is.  Which identifiers it      *)
(* shows depends on the platform, and which of them a credential holds      *)
(* depends on the account and on `utec pair'.  The devices, which sleep,    *)
(* and noble are external; stopping a scan is taken to work.                *)
(***************************************************************************)
EXTENDS FiniteSets

CONSTANTS
    Locks,      \* the locks in the cache
    Others,     \* devices that are no locks
    Platforms   \* operating systems explored, out of "linux" and "macos"

ASSUME DiscoveryAssumption ==
    /\ Locks \cap Others = {}
    /\ {"none", "failed", "listed"} \cap (Locks \cup Others) = {}
    /\ Platforms \subseteq {"linux", "macos"}

VARIABLES
    platform,   \* the operating system
    addressed,  \* locks whose credential has an address
    paired,     \* locks whose credential has a peripheralId
    awake,      \* peripherals that advertise
    powered,    \* is the adapter on?
    task,       \* "reach", "pair", "probe" or "scan"
    target,     \* the lock being reached
    phase,      \* of the call: "idle", "power", "start", "scan", "stop",
                \* "inspect" between two inspections and "look" in one
    found,      \* peripherals the scan has collected
    listening,  \* is onDiscover attached?
    timer,      \* is the scan's timer armed?
    scanning,   \* the adapter's scan mode
    failing,    \* done() was given an error
    queue,      \* peripherals that probe() has still to inspect
    link,       \* the one that inspect() is connected to
    outcome     \* of the last call: a peripheral, "listed", "failed" or "none"

credentials == <<platform, addressed, paired>>
radio       == <<awake, powered>>
call        == <<task, target>>
inspection  == <<queue, link>>
vars == <<credentials, radio, call, phase, found, listening, timer, scanning, failing,
          inspection, outcome>>

Devices == Locks \cup Others

Init ==
    /\ platform \in Platforms
    /\ addressed \in SUBSET Locks /\ paired \in SUBSET Locks
    /\ awake = Devices /\ powered = TRUE
    /\ task = "reach" /\ target \in Locks
    /\ phase = "idle"
    /\ found = {} /\ listening = FALSE /\ timer = FALSE /\ scanning = FALSE
    /\ failing = FALSE /\ queue = {} /\ link = "none" /\ outcome = "none"

-----------------------------------------------------------------------------
(* What a peripheral can be recognised by: Linux shows the MAC, and uses it *)
(* as the id; macOS shows an id of its own.                                 *)
Shown(p)         == IF platform = "linux" THEN [mac |-> p] ELSE [uuid |-> p]
identifiersOf(p) == {Shown(p)}

identifiersFor(l) ==
    {i \in {[mac |-> l]} : l \in addressed} \cup {i \in {Shown(l)} : l \in paired}

matches(l, p) == identifiersOf(p) \cap identifiersFor(l) # {}

(* With nothing to look for, all that advertise the service of a lock are   *)
(* wanted, and by scanAll() all there are.                                  *)
wanted      == IF task = "reach" THEN identifiersFor(target) ELSE {}
IsWanted(p) == IF wanted = {} THEN p \in Locks \/ task = "scan" ELSE matches(target, p)

-----------------------------------------------------------------------------
Call(t, l) ==
    /\ phase = "idle"
    /\ task' = t /\ target' = l
    /\ phase' = "power"
    /\ found' = {} /\ failing' = FALSE /\ outcome' = "none"
    /\ UNCHANGED <<credentials, radio, listening, timer, scanning, inspection>>

(* Mutant: no timer bounds the scan.                                        *)
BeginUntimed ==
    /\ phase = "power" /\ powered
    /\ phase' = "start"
    /\ listening' = TRUE
    /\ UNCHANGED <<credentials, radio, call, found, timer, scanning, failing, inspection, outcome>>

(* ensurePoweredOn() returns; the listener and, but in scanAll(), the timer *)
(* are set before the scan is started.                                      *)
Begin ==
    /\ phase = "power" /\ powered
    /\ phase' = "start"
    /\ listening' = TRUE /\ timer' = (task # "scan")
    /\ UNCHANGED <<credentials, radio, call, found, scanning, failing, inspection, outcome>>

(* It waits ten seconds for the adapter, and throws.                        *)
PowerFails ==
    /\ phase = "power" /\ ~powered
    /\ phase' = "idle"
    /\ outcome' = "failed"
    /\ UNCHANGED <<credentials, radio, call, found, listening, timer, scanning, failing, inspection>>

(* done(): the listener and the timer go, and the scan is told to stop.     *)
Done(err) ==
    /\ phase' = "stop"
    /\ listening' = FALSE /\ timer' = FALSE
    /\ failing' = err

(* scanAll() lets its time run from here.                                   *)
ScanStarts ==
    /\ phase = "start" /\ powered
    /\ phase' = "scan"
    /\ scanning' = TRUE /\ timer' = TRUE
    /\ UNCHANGED <<credentials, radio, call, found, listening, failing, inspection, outcome>>

(* Mutant: the rejection goes straight to the caller.                       *)
StartFailsBare ==
    /\ phase = "start"
    /\ phase' = "idle"
    /\ outcome' = "failed"
    /\ UNCHANGED <<credentials, radio, call, found, listening, timer, scanning, failing, inspection>>

StartFails ==
    /\ phase = "start" /\ task # "scan"
    /\ Done(TRUE)
    /\ UNCHANGED <<credentials, radio, call, found, scanning, inspection, outcome>>

ScanAllFails ==
    /\ phase = "start" /\ task = "scan"
    /\ phase' = "idle"
    /\ listening' = FALSE
    /\ outcome' = "failed"
    /\ UNCHANGED <<credentials, radio, call, found, timer, scanning, failing, inspection>>

(* onDiscover(): done as soon as there are as many peripherals as           *)
(* identifiers.                                                             *)
Discover(p) ==
    /\ listening /\ scanning
    /\ p \in awake \ found
    /\ IsWanted(p)
    /\ found' = found \cup {p}
    /\ IF wanted # {} /\ Cardinality(found') = Cardinality(wanted)
       THEN Done(FALSE)
       ELSE UNCHANGED <<phase, listening, timer, failing>>
    /\ UNCHANGED <<credentials, radio, call, scanning, inspection, outcome>>

TimerFires ==
    /\ timer
    /\ Done(FALSE)
    /\ UNCHANGED <<credentials, radio, call, found, scanning, inspection, outcome>>

(* Mutant: any peripheral will do.                                          *)
StoppedUnmatched ==
    /\ phase = "stop"
    /\ scanning' = FALSE
    /\ phase' = "idle"
    /\ outcome' \in IF failing \/ found = {} THEN {"failed"} ELSE found
    /\ UNCHANGED <<credentials, radio, call, found, listening, timer, failing, inspection>>

(* stopScanningAsync() settles.  findLocks() picks a peripheral that is the *)
(* lock's among those found, and reachLock() throws if there is none; the   *)
(* others return all that were found, and probe() has a look at each.       *)
Stopped ==
    /\ phase = "stop"
    /\ scanning' = FALSE
    /\ phase' = IF task = "probe" /\ ~failing /\ found # {} THEN "inspect" ELSE "idle"
    /\ queue' = IF phase' = "inspect" THEN found ELSE {}
    /\ LET candidates == {p \in found : matches(target, p)}
       IN  outcome' \in IF failing THEN {"failed"}
                        ELSE IF task # "reach" THEN {"listed"}
                        ELSE IF candidates = {} THEN {"failed"} ELSE candidates
    /\ UNCHANGED <<credentials, radio, call, found, listening, timer, failing, link>>

-----------------------------------------------------------------------------
(* probe() after its scan: inspect() one peripheral after the other.        *)
InspectConnects(p) ==
    /\ phase = "inspect" /\ p \in queue /\ powered
    /\ phase' = "look"
    /\ link' = p
    /\ queue' = queue \ {p}
    /\ UNCHANGED <<credentials, radio, call, found, listening, timer, scanning, failing, outcome>>

InspectFails(p) ==
    /\ phase = "inspect" /\ p \in queue
    /\ queue' = queue \ {p}
    /\ phase' = IF queue' = {} THEN "idle" ELSE "inspect"
    /\ UNCHANGED <<credentials, radio, call, found, listening, timer, scanning, failing, link, outcome>>

(* The characteristics are read, or the reading throws; either way it hangs *)
(* up.                                                                      *)
Inspected ==
    /\ phase = "look"
    /\ link' = "none"
    /\ phase' = IF queue = {} THEN "idle" ELSE "inspect"
    /\ UNCHANGED <<credentials, radio, call, found, listening, timer, scanning, failing, queue, outcome>>

-----------------------------------------------------------------------------
(* External: locks wake and sleep, the adapter is switched or reset.        *)
LockWakesOrSleeps ==
    /\ \E p \in Devices : awake' = (awake \ {p}) \cup ({p} \ awake)
    /\ UNCHANGED <<credentials, powered, call, phase, found, listening, timer, scanning,
                   failing, inspection, outcome>>

AdapterSwitched ==
    /\ powered' = ~powered
    /\ scanning' = (scanning /\ powered')
    /\ UNCHANGED <<credentials, awake, call, phase, found, listening, timer, failing,
                   inspection, outcome>>

-----------------------------------------------------------------------------
Next ==
    \/ \E l \in Locks : Call("reach", l)
    \/ \E t \in {"pair", "probe", "scan"} : Call(t, target)
    \/ \E p \in Devices : Discover(p) \/ InspectConnects(p) \/ InspectFails(p)
    \/ Begin \/ PowerFails
    \/ ScanStarts \/ StartFails \/ ScanAllFails
    \/ TimerFires \/ Stopped
    \/ Inspected
    \/ LockWakesOrSleeps \/ AdapterSwitched

(* Timers fire, the adapter is on or stays off for ten seconds, and a scan  *)
(* that is told to stop stops.  No lock need ever advertise.                *)
Fairness ==
    /\ SF_vars(Begin \/ PowerFails)
    /\ WF_vars(TimerFires)
    /\ WF_vars(Stopped)

Spec == Init /\ [][Next]_vars /\ Fairness

-----------------------------------------------------------------------------
(* Whoever reaches for a lock gets that lock, or nothing: not another one   *)
(* that was found when its own credential names no identifier (40-58).      *)
NeverMistaken == outcome \in Locks => outcome = target

(* A call that is over, or goes on to connect, has left no scan, listener   *)
(* or timer behind for the next, "when one caller stops scanning it stops   *)
(* for everyone" (adapter.js 4-5), and one that is over no link, which      *)
(* "blocks every subsequent attempt" (probe.js 330-331).                    *)
ScanIsOver ==
    /\ phase \in {"idle", "inspect", "look"} => ~scanning /\ ~listening /\ ~timer
    /\ phase # "look" => link = "none"

(* README 67-68: it is "a sleeping lock's full scan timeout" that delays    *)
(* the others: a scan ends with the discovery of what it was for.           *)
FoundIsEnough == phase = "scan" => \A p \in found : ~matches(target, p)

(* Every call of the plugin ends, so the adapter is passed on.  (scanAll()  *)
(* has no timer while the scan is started, and inspect() none at all.)      *)
ReachEnds == phase # "idle" /\ task \in {"reach", "pair"} ~> phase = "idle"

=============================================================================
