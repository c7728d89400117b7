-------------------------------- MODULE Curve --------------------------------
(***************************************************************************)
(* The group arithmetic of src/ble/secp128r1.js, over any curve: P, B, N, G *)
(* and the number of bytes in a coordinate are parameters, and A is -3 as   *)
(* it is there.  The loops are recursive functions.                         *)
(***************************************************************************)
EXTENDS Integers, Sequences

CONSTANTS
    P,      \* the field's prime
    B,      \* the curve is y^2 = x^3 + A x + B
    N,      \* the order of the group
    GX, GY, \* its generator's coordinates
    BASE,   \* values of a byte
    BYTES   \* bytes in a coordinate

A == P - 3
G == [x |-> GX, y |-> GY]
Infinity == [x |-> -1, y |-> -1]    \* null
Plane == [x : Int, y : Int]

Power[n \in Nat] == IF n = 0 THEN 1 ELSE BASE * Power[n - 1]

isOnCurve(point) ==
    \/ point = Infinity
    \/ /\ point.x \in 0..(P - 1) /\ point.y \in 0..(P - 1)
       /\ (point.y * point.y - (point.x * point.x * point.x + A * point.x + B)) % P = 0

ASSUME CurveAssumption ==
    /\ {P, N, BYTES} \subseteq Nat \ {0} /\ BASE \in Nat \ {0, 1}
    /\ P > 3 /\ B \in 0..(P - 1)
    /\ P <= Power[BYTES]
    /\ GX \in 0..(P - 1) /\ GY \in 0..(P - 1) /\ isOnCurve(G)

-----------------------------------------------------------------------------
(* The loop of the extended Euclidean algorithm, from (old_r, r, old_s, s), *)
(* to the last old_s.                                                       *)
Euclid[old_r \in Nat, r \in Nat, old_s \in Int, s \in Int] ==
    IF r = 0 THEN old_s
    ELSE LET q == old_r \div r
         IN  Euclid[r, old_r - q * r, s, old_s - q * s]

(* The throw for a value that is not invertible (41) cannot be reached and  *)
(* is left out: P is prime, and add and double ask only for the inverse of  *)
(* a number that P does not divide.                                         *)
invert(a) == Euclid[a % P, P, 1, 0] % P

(* The third point of the line through p with slope lambda and another      *)
(* point of abscissa x, mirrored.                                           *)
OnLine(p, x, lambda) ==
    LET rx == (lambda * lambda - p.x - x) % P
    IN  [x |-> rx, y |-> (lambda * (p.x - rx) - p.y) % P]

(* Mutant: the tangent of a curve without A.                                *)
doubleWithoutA(point) ==
    IF point = Infinity \/ point.y = 0 THEN Infinity
    ELSE OnLine(point, point.x, (3 * point.x * point.x) * invert(2 * point.y) % P)

double(point) ==
    IF point = Infinity \/ point.y = 0 THEN Infinity
    ELSE OnLine(point, point.x, (3 * point.x * point.x + A) * invert(2 * point.y) % P)

add(p, q) ==
    IF p = Infinity THEN q
    ELSE IF q = Infinity THEN p
    ELSE IF p.x = q.x THEN IF p.y = q.y THEN double(p) ELSE Infinity
    ELSE OnLine(p, q.x, (q.y - p.y) * invert(q.x - p.x) % P)

(* Double-and-add, from the lowest bit of the scalar.                       *)
Ladder[scalar \in 0..(N - 1)] ==
    [result \in Plane |-> [addend \in Plane |->
        IF scalar = 0 THEN result
        ELSE Ladder[scalar \div 2]
                   [IF scalar % 2 = 1 THEN add(result, addend) ELSE result][double(addend)]]]

multiply(k, point) ==
    IF k % N = 0 \/ point = Infinity THEN Infinity
    ELSE Ladder[k % N][Infinity][point]

-----------------------------------------------------------------------------
(* A value, shifted by n bytes.                                             *)
Shift(value) ==
    LET By[n \in 0..BYTES] == IF n = 0 THEN value ELSE By[n - 1] \div BASE
    IN  By

(* Mutant: the most significant byte first.                                 *)
toBE(value) == [i \in 1..BYTES |-> Shift(value)[BYTES - i] % BASE]

(* Little-endian bytes of a coordinate, and back: from n bytes at the end   *)
(* to all.                                                                  *)
toLE(value) == [i \in 1..BYTES |-> Shift(value)[i - 1] % BASE]

fromLE(bytes) ==
    LET Value[n \in 0..Len(bytes)] ==
            IF n = 0 THEN 0 ELSE Value[n - 1] * BASE + bytes[Len(bytes) - n + 1]
    IN  Value[Len(bytes)]

PrivateKeys == 1..(N - 1)       \* generatePrivateKey()
publicKey(privateKey) == multiply(privateKey, G)

-----------------------------------------------------------------------------
Points == {p \in [x : 0..(P - 1), y : 0..(P - 1)] : isOnCurve(p)} \cup {Infinity}

(* The arithmetic is a commutative group's, and N is no more than the order *)
(* of its generator.                                                        *)
Group ==
    /\ \A k \in PrivateKeys : publicKey(k) # Infinity
    /\ \A p \in Points : \E q \in Points : add(p, q) = Infinity
    /\ \A p, q \in Points : add(p, q) \in Points /\ add(p, q) = add(q, p)
    /\ \A p, q, r \in Points : add(add(p, q), r) = add(p, add(q, r))

=============================================================================
