----------------------------- MODULE KeyExchange -----------------------------
(***************************************************************************)
(* The ECC key agreement of src/ble/keyexchange.js, as connect() of         *)
(* src/ble/lock.js runs it, over consecutive connection attempts.           *)
(*                                                                         *)
(* connect() races the agreement against the link going away.  The race     *)
(* ends the attempt, and the next one may begin; it does not end eccKey(),  *)
(* which still sits in its own timeout and cleans up after that.            *)
(*                                                                         *)
(* The lock and noble are external.  The lock answers a public key with its *)
(* own, in two notifications, if notifications are on; what it sends may    *)
(* not be on the curve.  noble addresses a characteristic by its identity,  *)
(* so an unsubscribe reaches whatever connection is up.                     *)
(***************************************************************************)
EXTENDS Curve

CONSTANTS
    MaxAttempts,\* bound: connection attempts, in order
    Keys,       \* private keys drawn, on both sides
    Abscissas   \* of the points that a lock may send in place of its own

ASSUME KeyExchangeAssumption ==
    /\ MaxAttempts \in Nat \ {0}
    /\ Keys \subseteq PrivateKeys
    /\ Abscissas \subseteq 0..(Power[BYTES] - 1)

Attempts == 1..MaxAttempts

VARIABLES
    current,    \* the attempt whose connection this is
    link,       \* is it up?
    phase,      \* of each attempt's eccKey()
    private,    \* privateKey of each
    received,   \* the notifications each has received
    key,        \* what each returned: toLE(x), or Failed
    notifying,  \* are the characteristic's notifications on?
    lockPrivate,\* the lock's private key for this connection
    lockHas,    \* coordinates the lock has been sent in this connection
    lockSends,  \* coordinates it has still to send
    honest      \* did the lock send its own public key?

exchange == <<current, link, phase, private, received, key, notifying,
              lockPrivate, lockHas, lockSends, honest>>

client == <<current, phase, private, received, key>>
lock   == <<lockPrivate, lockHas, lockSends, honest>>

Failed == <<>>
Running(a) == phase[a] \in {"subscribe", "writeX", "writeY", "wait"}

ExchangeInit ==
    /\ current = 1 /\ link = FALSE
    /\ phase = [a \in Attempts |-> "new"]
    /\ private \in [Attempts -> Keys]
    /\ received = [a \in Attempts |-> <<>>]
    /\ key = [a \in Attempts |-> Failed]
    /\ notifying = FALSE
    /\ lockPrivate \in Keys
    /\ lockHas = <<>> /\ lockSends = <<>> /\ honest = TRUE

-----------------------------------------------------------------------------
(* The link comes up and connect() starts the agreement; a new connection   *)
(* begins with notifications off and a lock that has been told nothing.     *)
Begin ==
    /\ ~link
    /\ phase[current] = "new"
    /\ link' = TRUE
    /\ phase' = [phase EXCEPT ![current] = "subscribe"]
    /\ notifying' = FALSE
    /\ lockHas' = <<>> /\ lockSends' = <<>> /\ honest' = TRUE
    /\ UNCHANGED <<current, private, received, key, lockPrivate>>

Subscribed(a) ==
    /\ a = current /\ link
    /\ phase[a] = "subscribe"
    /\ notifying' = TRUE
    /\ phase' = [phase EXCEPT ![a] = "writeX"]
    /\ UNCHANGED <<current, link, private, received, key, lock>>

(* A coordinate of our public key is written and confirmed.                 *)
Writes(a, from, coordinate, to) ==
    /\ a = current /\ link
    /\ phase[a] = from
    /\ lockHas' = Append(lockHas, toLE(coordinate))
    /\ phase' = [phase EXCEPT ![a] = to]
    /\ UNCHANGED <<current, link, private, received, key, notifying, lockPrivate,
                   lockSends, honest>>

WriteX(a) == Writes(a, "writeX", publicKey(private[a]).x, "writeY")
WriteY(a) == Writes(a, "writeY", publicKey(private[a]).y, "wait")

(* Mutant: a point that is not on the curve is multiplied all the same.     *)
sharedSecretUnchecked(privateKey, theirPoint) ==
    LET shared == multiply(privateKey, theirPoint)
    IN  IF theirPoint = Infinity \/ shared = Infinity THEN Failed ELSE toLE(shared.x)

(* sharedSecret(): Failed where it throws.                                  *)
sharedSecret(privateKey, theirPoint) ==
    LET shared == multiply(privateKey, theirPoint)
    IN  IF ~isOnCurve(theirPoint) \/ theirPoint = Infinity \/ shared = Infinity
        THEN Failed
        ELSE toLE(shared.x)

(* eccKey() ends, and its finally block runs at once: the listener goes, and *)
(* notifications go off on the connection that is up, if any.               *)
Ends(a) ==
    /\ phase' = [phase EXCEPT ![a] = "over"]
    /\ notifying' = FALSE
    /\ UNCHANGED <<current, link, private, received, lock>>

(* Both coordinates are there.                                              *)
Agrees(a) ==
    /\ phase[a] = "wait"
    /\ Len(received[a]) >= 2
    /\ key' = [key EXCEPT ![a] =
           sharedSecret(private[a], [x |-> fromLE(received[a][1]), y |-> fromLE(received[a][2])])]
    /\ Ends(a)

(* They are not, 15 s after the writes; or subscribing or writing failed.   *)
(* What an abandoned exchange had asked of a dead link is not settled       *)
(* (probe.js 28-31); its timer is.                                          *)
GivesUp(a) ==
    /\ phase[a] = "wait" \/ (a = current /\ Running(a))
    /\ Ends(a)
    /\ UNCHANGED key

(* The link drops.  connect() throws at once, and the controller retries    *)
(* with another attempt, whether or not this eccKey() is over.              *)
Drops ==
    /\ link
    /\ link' = FALSE
    /\ notifying' = FALSE
    /\ current' = IF current + 1 \in Attempts THEN current + 1 ELSE current
    /\ UNCHANGED <<phase, private, received, key, lock>>

-----------------------------------------------------------------------------
(* The lock: external.                                                      *)

(* What fits a coordinate but is not a point of the curve.                  *)
Garbage ==
    {p \in [x : Abscissas, y : 0..(Power[BYTES] - 1)] : ~isOnCurve(p)}

(* It has the client's point, and answers with its own or with garbage.     *)
LockAnswers ==
    /\ link
    /\ Len(lockHas) = 2 /\ lockSends = <<>> /\ honest
    /\ \/ lockSends' = <<toLE(publicKey(lockPrivate).x), toLE(publicKey(lockPrivate).y)>>
          /\ UNCHANGED honest
       \/ \E p \in Garbage : lockSends' = <<toLE(p.x), toLE(p.y)>>
          /\ honest' = FALSE
    /\ lockHas' = Append(lockHas, <<>>)
    /\ UNCHANGED <<client, link, notifying, lockPrivate>>

(* A notification reaches the listener of the current attempt, if it is     *)
(* still attached; with notifications off it is never sent.                 *)
LockNotifies ==
    /\ link
    /\ lockSends # <<>>
    /\ lockSends' = Tail(lockSends)
    /\ received' = IF notifying /\ Running(current)
                   THEN [received EXCEPT ![current] = Append(@, Head(lockSends))]
                   ELSE received
    /\ UNCHANGED <<current, link, phase, private, key, notifying, lockPrivate, lockHas, honest>>

(* The key the lock derives from what it was sent.                          *)
LockKey ==
    sharedSecret(lockPrivate, [x |-> fromLE(lockHas[1]), y |-> fromLE(lockHas[2])])

-----------------------------------------------------------------------------
ExchangeNext ==
    \/ Begin \/ Drops
    \/ \E a \in Attempts :
           Subscribed(a) \/ WriteX(a) \/ WriteY(a) \/ Agrees(a) \/ GivesUp(a)
    \/ LockAnswers \/ LockNotifies

ExchangeSpec == ExchangeInit /\ [][ExchangeNext]_exchange

-----------------------------------------------------------------------------
(* A key that is returned on the connection that is up is the lock's: both  *)
(* sides derive the same bytes, whatever attempts went before, and none     *)
(* comes of a point that is not on the curve (116-118).                     *)
KeyAgreed ==
    link /\ key[current] # Failed => honest /\ key[current] = LockKey

(* The arithmetic is a group's (38-83).  Looked at once.                    *)
GroupLaws == phase[1] = "new" => Group

(* "The next attempt" does not inherit what an earlier one left behind      *)
(* (controller.js 166-170): nobody else turns an exchange's notifications   *)
(* off while it waits for them.                                             *)
NextAttemptIsClean ==
    link /\ phase[current] \in {"writeX", "writeY", "wait"} => notifying

=============================================================================
