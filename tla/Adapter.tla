------------------------------ MODULE Adapter ------------------------------
(***************************************************************************)
(* The promise chain of src/ble/adapter.js.  Every scan-and-connect of the  *)
(* process goes through withAdapter(fn), which runs fn once the call before *)
(* it has settled, however that call ended.                                 *)
(*                                                                         *)
(* A call is a ticket: the n-th call of withAdapter is ticket n.  The value *)
(* of the module's variable `chain' is a promise that settles when the last *)
(* ticket settles, so it is modelled by that ticket; 0 is the resolved      *)
(* promise the module starts with.                                         *)
(***************************************************************************)
EXTENDS Naturals, FiniteSets

CONSTANTS
    MaxCalls,   \* bound: how many calls of withAdapter are explored
    MayHang     \* may an fn never settle?

ASSUME AdapterAssumption == MaxCalls \in Nat \ {0} /\ MayHang \in BOOLEAN

VARIABLES
    run,        \* run[t]: what has become of ticket t
    after,      \* after[t]: the ticket whose promise t was chained on
    chain,      \* the ticket the next call will be chained on
    queued,     \* the module's counter of calls not started
    active      \* the module's flag: an fn is running

vars == <<run, after, chain, queued, active>>

Tickets == 1..MaxCalls
Settled == {"fulfilled", "rejected"}
Status  == {"none", "waiting", "running", "hung"} \cup Settled

Init ==
    /\ run    = [t \in Tickets |-> "none"]
    /\ after  = [t \in Tickets |-> 0]
    /\ chain  = 0
    /\ queued = 0
    /\ active = FALSE

(* Mutant: the call is not counted.                                         *)
WithAdapterUncounted(t) ==
    /\ run[t] = "none"
    /\ t = chain + 1
    /\ run'    = [run EXCEPT ![t] = "waiting"]
    /\ after'  = [after EXCEPT ![t] = chain]
    /\ chain'  = t
    /\ UNCHANGED <<queued, active>>

(* Mutant: calls are chained on the first promise, never on each other.     *)
WithAdapterForked(t) ==
    /\ run[t] = "none"
    /\ t = chain + 1
    /\ run'    = [run EXCEPT ![t] = "waiting"]
    /\ chain'  = t
    /\ queued' = queued + 1
    /\ UNCHANGED <<after, active>>

(* withAdapter(fn): chain.then(job, job), and the chain becomes this call's *)
(* own promise with its outcome erased.                                     *)
WithAdapter(t) ==
    /\ run[t] = "none"
    /\ t = chain + 1
    /\ run'    = [run EXCEPT ![t] = "waiting"]
    /\ after'  = [after EXCEPT ![t] = chain]
    /\ chain'  = t
    /\ queued' = queued + 1
    /\ UNCHANGED active

(* Mutant: the job does not wait for the call before it.                    *)
ReleasedAtOnce(t) == run[t] = "waiting"

(* Mutant: a rejection stays in the chain, and chain.then(job) ignores it.  *)
ReleasedOnSuccess(t) == after[t] # 0 => run[after[t]] = "fulfilled"

(* The chain forgets how the call before ended, and both callbacks given to *)
(* chain.then start the job.                                                *)
Released(t) == after[t] # 0 => run[after[t]] \in Settled

(* Mutant: rejections stay in the chain; one callback miscounts.            *)
StartMiscounts(t) ==
    /\ run[t] = "waiting"
    /\ Released(t)
    /\ run'    = [run EXCEPT ![t] = "running"]
    /\ queued' = IF after[t] # 0 /\ run[after[t]] = "rejected" THEN queued ELSE queued - 1
    /\ active' = TRUE
    /\ UNCHANGED <<after, chain>>

Start(t) ==
    /\ run[t] = "waiting"
    /\ Released(t)
    /\ run'    = [run EXCEPT ![t] = "running"]
    /\ queued' = queued - 1
    /\ active' = TRUE
    /\ UNCHANGED <<after, chain>>

(* fn returns or throws; the finally block clears the flag either way.      *)
Finish(t, outcome) ==
    /\ run[t] = "running"
    /\ run'    = [run EXCEPT ![t] = outcome]
    /\ active' = FALSE
    /\ UNCHANGED <<after, chain, queued>>

(* fn awaits something that never answers: noble's connect after the        *)
(* adapter was reset underneath it.                                         *)
Hang(t) ==
    /\ MayHang
    /\ run[t] = "running"
    /\ run' = [run EXCEPT ![t] = "hung"]
    /\ UNCHANGED <<after, chain, queued, active>>

AllSettled == \A t \in Tickets : run[t] \in Settled

(* MaxCalls is a bound of the model: the explored history ends here.        *)
Exhausted == AllSettled /\ UNCHANGED vars

Next ==
    \/ \E t \in Tickets :
          \/ WithAdapter(t)
          \/ Start(t)
          \/ \E outcome \in Settled : Finish(t, outcome)
          \/ Hang(t)
    \/ Exhausted

(* The event loop runs a job whose promise has settled, and an fn that has  *)
(* not hung settles.  Nothing obliges anybody to call withAdapter.          *)
Fairness ==
    \A t \in Tickets :
        /\ WF_vars(Start(t))
        /\ WF_vars(\E outcome \in Settled : Finish(t, outcome))

Spec == Init /\ [][Next]_vars /\ Fairness

-----------------------------------------------------------------------------
(* Types of the state.                                                      *)
TypeOK ==
    /\ run \in [Tickets -> Status]
    /\ after \in [Tickets -> 0..MaxCalls]
    /\ chain \in 0..MaxCalls
    /\ queued \in Nat
    /\ active \in BOOLEAN

Busy == {t \in Tickets : run[t] \in {"running", "hung"}}

(* adapter.js 9-11: setups never overlap, so the HCI layer never sees a     *)
(* scan or a connect issued while another is in progress.                   *)
SetupExclusive == \A t, u \in Busy : t = u

(* A job that has begun has every earlier call behind it, settled: the      *)
(* adapter serves locks in the order they asked, and one lock's retries     *)
(* never overtake another lock that was already waiting.                    *)
ServedInOrder ==
    \A t \in Tickets :
        run[t] \notin {"none", "waiting"} =>
            \A u \in Tickets : u < t => run[u] \in Settled

(* adapterBusy() tells the truth: the flag and the counter, each updated by *)
(* many jobs' prologues and epilogues, agree with what is really going on.  *)
BusyExact ==
    /\ active <=> Busy # {}
    /\ queued = Cardinality({t \in Tickets : run[t] = "waiting"})

(* adapter.js 40, "Keep the chain alive whatever an individual caller       *)
(* does": a call gets its turn, and is settled, however the calls before it *)
(* ended, unless one of them never does.                                    *)
ServedUnlessHung ==
    \A t \in Tickets :
        run[t] = "waiting" ~> (run[t] \in Settled \/ \E u \in Tickets : run[u] = "hung")

(* The comment to the letter, without the exception.                        *)
ChainStaysAlive ==
    \A t \in Tickets : run[t] = "waiting" ~> run[t] \in Settled

=============================================================================
