--------------------------- MODULE ChannelProofs ----------------------------
(* What crosses the link, for any values of the constants.  The stream      *)
(* gives back the frames that were sent, whatever the checksum, the block   *)
(* size, the writes and the cuts; the lock reads in a request what was      *)
(* asked, and keeps every PIN; and an exchange on any curve that is a group *)
(* leaves both sides with one key, or with none.                            *)
EXTENDS DataChannel, KeyExchange, SequenceTheorems, WellFoundedInduction, TLAPS

(* Induction over the naturals, for a set in place of a predicate.          *)
LEMMA Induction ==
    ASSUME NEW S, 0 \in S, \A n \in Nat : n \in S => n + 1 \in S
    PROVE  \A n \in Nat : n \in S
<1> DEFINE Out == Nat \ S
           Less == OpToRel(<, Nat)
<1> SUFFICES ASSUME Out # {} PROVE FALSE
  OBVIOUS
<1>1. PICK x \in Out : \A y \in Out : ~(<<y, x>> \in Less)
  <2>1. IsWellFoundedOn(Less, Nat)
    BY NatLessThanWellFounded
  <2>2. Out \subseteq Nat
    OBVIOUS
  <2> HIDE DEF Out, Less
  <2> QED
    BY <2>1, <2>2, WFMin
<1>2. x # 0 /\ x - 1 \in Nat
  OBVIOUS
<1>3. <<x - 1, x>> \in Less
  BY <1>2 DEF OpToRel
<1>4. x - 1 \in S
  BY <1>1, <1>2, <1>3
<1> QED
  BY <1>2, <1>4

(* A function of the naturals may be defined by its values below: step says *)
(* what it is at n, and looks at no other value than those below n.         *)
Below(f, g, n) == \A i \in Nat : i < n => f[i] = g[i]

Recursive(T, step) ==
    /\ step \in [Nat \X [Nat -> T] -> T]
    /\ \A n \in Nat, f \in [Nat -> T], g \in [Nat -> T] :
          Below(f, g, n) => step[<<n, f>>] = step[<<n, g>>]

Upto(T, step, n) == {f \in [Nat -> T] : \A i \in Nat : i <= n => f[i] = step[<<i, f>>]}

LEMMA UptoExists ==
    ASSUME NEW T, NEW base \in T, NEW step, Recursive(T, step)
    PROVE  \A n \in Nat : Upto(T, step, n) # {}
<1> DEFINE S == {n \in Nat : Upto(T, step, n) # {}}
<1>0. ASSUME NEW n \in Nat, NEW f \in [Nat -> T], \A i \in Nat : i < n => f[i] = step[<<i, f>>],
             NEW g, g = [f EXCEPT ![n] = step[<<n, f>>]]
      PROVE  g \in Upto(T, step, n)
  <2>1. step[<<n, f>>] \in T
    BY DEF Recursive
  <2>2. g \in [Nat -> T] /\ g[n] = step[<<n, f>>] /\ \A i \in Nat : i # n => g[i] = f[i]
    BY <1>0, <2>1
  <2>3. ASSUME NEW i \in Nat, i <= n PROVE g[i] = step[<<i, g>>]
    <3>1. Below(f, g, i)
      BY <2>2, <2>3 DEF Below
    <3>2. step[<<i, f>>] = step[<<i, g>>]
      BY <2>2, <3>1 DEF Recursive
    <3>3. CASE i = n
      BY <2>2, <3>2, <3>3
    <3>4. CASE i # n
      <4>1. i < n
        BY <2>3, <3>4
      <4> QED
        BY <1>0, <2>2, <3>2, <3>4, <4>1
    <3> QED
      BY <3>3, <3>4
  <2> QED
    BY <2>2, <2>3 DEF Upto
<1>1. 0 \in S
  <2>1. PICK f : f = [i \in Nat |-> base]
    OBVIOUS
  <2>2. f \in [Nat -> T] /\ \A i \in Nat : i < 0 => f[i] = step[<<i, f>>]
    BY <2>1
  <2>3. [f EXCEPT ![0] = step[<<0, f>>]] \in Upto(T, step, 0)
    BY <1>0, <2>2
  <2> QED
    BY <2>3
<1>2. ASSUME NEW n \in Nat, n \in S PROVE n + 1 \in S
  <2>1. PICK f : f \in Upto(T, step, n)
    BY <1>2
  <2>2. f \in [Nat -> T] /\ \A i \in Nat : i < n + 1 => f[i] = step[<<i, f>>]
    <3>1. \A i \in Nat : i < n + 1 => i <= n
      OBVIOUS
    <3> QED
      BY <2>1, <3>1 DEF Upto
  <2>3. [f EXCEPT ![n + 1] = step[<<n + 1, f>>]] \in Upto(T, step, n + 1)
    <3>1. n + 1 \in Nat
      OBVIOUS
    <3>2. PICK g : g = [f EXCEPT ![n + 1] = step[<<n + 1, f>>]]
      OBVIOUS
    <3> QED
      BY <1>0, <2>2, <3>1, <3>2
  <2> QED
    BY <2>3
<1> HIDE DEF S
<1>3. \A n \in Nat : n \in S
  BY <1>1, <1>2, Induction
<1> QED
  BY <1>3 DEF S

LEMMA UptoUnique ==
    ASSUME NEW T, NEW step, Recursive(T, step), NEW m \in Nat, NEW n \in Nat,
           NEW f \in Upto(T, step, m), NEW g \in Upto(T, step, n)
    PROVE  \A i \in Nat : i <= m /\ i <= n => f[i] = g[i]
<1> DEFINE S == {k \in Nat : \A i \in Nat : i < k /\ i <= m /\ i <= n => f[i] = g[i]}
<1>1. 0 \in S
  OBVIOUS
<1>2. ASSUME NEW k \in Nat, k \in S PROVE k + 1 \in S
  <2>1. SUFFICES ASSUME k <= m, k <= n PROVE f[k] = g[k]
    <3>1. \A i \in Nat : i < k + 1 => i < k \/ i = k
      OBVIOUS
    <3> QED
      BY <1>2, <2>1, <3>1
  <2>2. Below(f, g, k)
    BY <1>2, <2>1 DEF Below
  <2>3. f \in [Nat -> T] /\ g \in [Nat -> T] /\ f[k] = step[<<k, f>>] /\ g[k] = step[<<k, g>>]
    BY <2>1 DEF Upto
  <2> QED
    BY <2>2, <2>3 DEF Recursive
<1> HIDE DEF S
<1>3. \A k \in Nat : k \in S
  BY <1>1, <1>2, Induction
<1>4. ASSUME NEW i \in Nat, i <= m, i <= n PROVE f[i] = g[i]
  <2>1. i + 1 \in S /\ i < i + 1
    BY <1>3
  <2> QED
    BY <1>4, <2>1 DEF S
<1> QED
  BY <1>4

LEMMA Recursion ==
    ASSUME NEW T, NEW base \in T, NEW step, Recursive(T, step)
    PROVE  \E f \in [Nat -> T] : \A n \in Nat : f[n] = step[<<n, f>>]
<1>1. PICK c : c = [n \in Nat |-> CHOOSE f : f \in Upto(T, step, n)]
  OBVIOUS
<1>2. \A n \in Nat : c[n] \in Upto(T, step, n)
  BY <1>1, UptoExists
<1>3. \A n \in Nat : c[n] \in [Nat -> T] /\ c[n][n] = step[<<n, c[n]>>]
  BY <1>2 DEF Upto
<1>4. PICK f : f = [n \in Nat |-> c[n][n]]
  OBVIOUS
<1>5. f \in [Nat -> T]
  BY <1>3, <1>4
<1>6. ASSUME NEW n \in Nat PROVE f[n] = step[<<n, f>>]
  <2>1. ASSUME NEW i \in Nat, i < n PROVE c[n][i] = f[i]
    <3>1. c[n] \in Upto(T, step, n) /\ c[i] \in Upto(T, step, i) /\ i <= n /\ i <= i
      BY <1>2, <2>1
    <3>2. c[n][i] = c[i][i]
      BY <3>1, UptoUnique
    <3> QED
      BY <1>4, <3>2
  <2>2. Below(c[n], f, n)
    BY <2>1 DEF Below
  <2>3. step[<<n, c[n]>>] = step[<<n, f>>]
    BY <1>3, <1>5, <2>2 DEF Recursive
  <2> QED
    BY <1>3, <1>4, <2>3
<1> QED
  BY <1>5, <1>6

(* A value that is defined by the one before it.                            *)
Iterates(T, first, next) ==
    {f \in [Nat -> T] : f[0] = first /\ \A n \in Nat : f[n + 1] = next[<<n, f[n]>>]}

LEMMA Iterated ==
    ASSUME NEW T, NEW first \in T, NEW next \in [Nat \X T -> T]
    PROVE  \E f : f \in Iterates(T, first, next)
<1> DEFINE At(n, f) == IF n = 0 THEN first ELSE next[<<n - 1, f[n - 1]>>]
<1>1. PICK step : step = [s \in Nat \X [Nat -> T] |-> At(s[1], s[2])]
  OBVIOUS
<1>2. ASSUME NEW n \in Nat, NEW f \in [Nat -> T]
      PROVE  At(n, f) \in T /\ step[<<n, f>>] = At(n, f)
  <2>1. At(n, f) \in T
    <3>1. n # 0 => n - 1 \in Nat
      OBVIOUS
    <3>2. n # 0 => <<n - 1, f[n - 1]>> \in Nat \X T
      BY <3>1
    <3>3. n # 0 => next[<<n - 1, f[n - 1]>>] \in T
      BY <3>2
    <3> QED
      BY <3>3, Zenon
  <2>2. <<n, f>> \in Nat \X [Nat -> T] /\ <<n, f>>[1] = n /\ <<n, f>>[2] = f
    OBVIOUS
  <2> HIDE DEF At
  <2> QED
    BY <1>1, <2>1, <2>2
<1>3. Recursive(T, step)
  <2>1. step \in [Nat \X [Nat -> T] -> T]
    <3>1. ASSUME NEW s \in Nat \X [Nat -> T] PROVE At(s[1], s[2]) \in T
      <4>1. s[1] \in Nat /\ s[2] \in [Nat -> T]
        OBVIOUS
      <4> HIDE DEF At
      <4> QED
        BY <1>2, <4>1
    <3> HIDE DEF At
    <3> QED
      BY <1>1, <3>1
  <2>2. ASSUME NEW n \in Nat, NEW f \in [Nat -> T], NEW g \in [Nat -> T], Below(f, g, n)
        PROVE  step[<<n, f>>] = step[<<n, g>>]
    <3>1. n # 0 => n - 1 \in Nat /\ n - 1 < n
      OBVIOUS
    <3>2. n # 0 => f[n - 1] = g[n - 1]
      BY <2>2, <3>1 DEF Below
    <3>3. At(n, f) = At(n, g)
      BY <3>2, Zenon
    <3> HIDE DEF At
    <3> QED
      BY <1>2, <3>3
  <2> QED
    BY <2>1, <2>2 DEF Recursive
<1>4. PICK f \in [Nat -> T] : \A n \in Nat : f[n] = step[<<n, f>>]
  BY <1>3, Recursion
<1>5. ASSUME NEW n \in Nat PROVE f[n] = At(n, f)
  <2> HIDE DEF At
  <2> QED
    BY <1>2, <1>4
<1>6. f[0] = first
  BY <1>5
<1>7. ASSUME NEW n \in Nat PROVE f[n + 1] = next[<<n, f[n]>>]
  <2>1. n + 1 \in Nat /\ n + 1 # 0 /\ (n + 1) - 1 = n
    OBVIOUS
  <2>2. f[n + 1] = At(n + 1, f)
    <3> HIDE DEF At
    <3> QED
      BY <1>5, <2>1
  <2> QED
    BY <2>1, <2>2, Zenon
<1> QED
  BY <1>4, <1>6, <1>7 DEF Iterates

(* Concatenation may be regrouped.                                          *)
Regroups(a, b, c) == (a \o b) \o c = a \o (b \o c)

LEMMA Regroup ==
    ASSUME NEW T, NEW a \in Seq(T), NEW b \in Seq(T), NEW c \in Seq(T)
    PROVE  Regroups(a, b, c)
BY ConcatAssociative DEF Regroups

-----------------------------------------------------------------------------
(* What FlattenSeq does, which the library defines by recursion.            *)

(* The first n sums of the sequences.                                       *)
Sums(T, seqs, n) ==
    {f \in [1..n -> Seq(T)] :
        f[1] = seqs[1] /\ \A i \in 1..(n - 1) : f[i + 1] = f[i] \o seqs[i + 1]}

Step(seqs, g) ==
    [i \in 1..Len(seqs) |-> IF i = 1 THEN seqs[i] ELSE g[i - 1] \o seqs[i]]

LEMMA SumsExist ==
    ASSUME NEW T, NEW seqs \in Seq(Seq(T)), seqs # <<>>
    PROVE  Sums(T, seqs, Len(seqs)) # {}
<1> DEFINE S == {n \in Nat : n + 1 <= Len(seqs) => Sums(T, seqs, n + 1) # {}}
<1>0. Len(seqs) \in Nat \ {0} /\ \A i \in 1..Len(seqs) : seqs[i] \in Seq(T)
  OBVIOUS
<1>1. 0 \in S
  <2>1. [i \in 1..1 |-> seqs[1]] \in Sums(T, seqs, 1)
    <3>1. seqs[1] \in Seq(T)
      BY <1>0
    <3> QED
      BY <3>1 DEF Sums
  <2>2. 0 + 1 = 1
    OBVIOUS
  <2> QED
    BY <2>1, <2>2
<1>2. ASSUME NEW n \in Nat, n \in S PROVE n + 1 \in S
  <2> SUFFICES ASSUME n + 2 <= Len(seqs) PROVE Sums(T, seqs, n + 2) # {}
    <3>1. (n + 1) + 1 = n + 2
      OBVIOUS
    <3> QED
      BY <3>1
  <2>1. PICK f : f \in Sums(T, seqs, n + 1)
    BY <1>2, <1>0
  <2>2. f \in [1..(n + 1) -> Seq(T)] /\ f[1] = seqs[1]
    BY <2>1 DEF Sums
  <2>3. \A i \in 1..n : f[i + 1] = f[i] \o seqs[i + 1]
    <3>1. (n + 1) - 1 = n
      OBVIOUS
    <3> QED
      BY <2>1, <3>1 DEF Sums
  <2>4. PICK last : last = f[n + 1] \o seqs[n + 2]
    OBVIOUS
  <2>5. last \in Seq(T)
    <3>1. f[n + 1] \in Seq(T) /\ seqs[n + 2] \in Seq(T)
      BY <1>0, <2>2
    <3> QED
      BY <2>4, <3>1
  <2>6. PICK h : h = [i \in 1..(n + 2) |-> IF i = n + 2 THEN last ELSE f[i]]
    OBVIOUS
  <2>7. h \in [1..(n + 2) -> Seq(T)] /\ h[1] = seqs[1]
    BY <2>2, <2>5, <2>6
  <2>8. ASSUME NEW i \in 1..(n + 1) PROVE h[i + 1] = h[i] \o seqs[i + 1]
    <3>1. CASE i = n + 1
      <4>1. h[i] = f[n + 1] /\ h[i + 1] = last /\ i + 1 = n + 2
        BY <2>6, <3>1
      <4> QED
        BY <2>4, <4>1
    <3>2. CASE i # n + 1
      <4>1. i \in 1..n /\ h[i] = f[i] /\ h[i + 1] = f[i + 1]
        BY <2>6, <3>2
      <4> QED
        BY <2>3, <4>1
    <3> QED
      BY <3>1, <3>2
  <2>9. (n + 2) - 1 = n + 1
    OBVIOUS
  <2> QED
    BY <2>7, <2>8, <2>9 DEF Sums
<1> HIDE DEF S
<1>3. \A n \in Nat : n \in S
  BY <1>1, <1>2, Induction
<1>4. Len(seqs) - 1 \in S /\ (Len(seqs) - 1) + 1 = Len(seqs)
  BY <1>0, <1>3
<1> QED
  BY <1>4 DEF S

LEMMA FlattenDef ==
    ASSUME NEW T, NEW seqs \in Seq(Seq(T)), seqs # <<>>
    PROVE  \E f \in Sums(T, seqs, Len(seqs)) : FlattenSeq(seqs) = f[Len(seqs)]
<1>0. Len(seqs) \in Nat \ {0} /\ \A i \in 1..Len(seqs) : seqs[i] \in Seq(T)
  OBVIOUS
<1>1. PICK f : f \in Sums(T, seqs, Len(seqs))
  BY SumsExist
<1>2. f \in [1..Len(seqs) -> Seq(T)] /\ f[1] = seqs[1]
  BY <1>1 DEF Sums
<1>3. \A i \in 1..(Len(seqs) - 1) : f[i + 1] = f[i] \o seqs[i + 1]
  BY <1>1 DEF Sums
<1>4. f = Step(seqs, f)
  <2>1. ASSUME NEW i \in 1..Len(seqs) PROVE f[i] = Step(seqs, f)[i]
    <3>1. CASE i = 1
      BY <1>2, <3>1 DEF Step
    <3>2. CASE i # 1
      <4>1. PICK j : j = i - 1
        OBVIOUS
      <4>2. j \in 1..(Len(seqs) - 1) /\ j + 1 = i
        BY <1>0, <3>2, <4>1
      <4>3. f[i] = f[j] \o seqs[i]
        BY <1>3, <4>2
      <4> QED
        BY <3>2, <4>1, <4>3 DEF Step
    <3> QED
      BY <3>1, <3>2
  <2>2. f = [i \in 1..Len(seqs) |-> f[i]]
    BY <1>2
  <2>3. Step(seqs, f) = [i \in 1..Len(seqs) |-> Step(seqs, f)[i]]
    BY DEF Step
  <2> QED
    BY <2>1, <2>2, <2>3
<1>5. PICK g : g = Step(seqs, g) /\ FlattenSeq(seqs) = g[Len(seqs)]
  <2>1. PICK c : c = CHOOSE g : g = Step(seqs, g)
    OBVIOUS
  <2>2. c = Step(seqs, c)
    BY <1>4, <2>1
  <2>3. FlattenSeq(seqs) = c[Len(seqs)]
    BY <1>0, <2>1 DEF FlattenSeq, Step
  <2> QED
    BY <2>2, <2>3
<1> DEFINE S == {n \in Nat : n + 1 <= Len(seqs) => f[n + 1] = g[n + 1]}
<1>6. 0 \in S
  <2>1. 1 \in 1..Len(seqs)
    BY <1>0
  <2>2. g[1] = seqs[1]
    BY <1>5, <2>1 DEF Step
  <2> QED
    BY <1>2, <2>2
<1>7. ASSUME NEW n \in Nat, n \in S PROVE n + 1 \in S
  <2> SUFFICES ASSUME n + 2 <= Len(seqs) PROVE f[n + 2] = g[n + 2]
    <3>1. (n + 1) + 1 = n + 2
      OBVIOUS
    <3> QED
      BY <3>1
  <2>1. n + 2 \in 1..Len(seqs) /\ n + 1 \in 1..(Len(seqs) - 1) /\ (n + 1) + 1 = n + 2
        /\ n + 2 # 1 /\ (n + 2) - 1 = n + 1
    BY <1>0
  <2>2. g[n + 2] = g[n + 1] \o seqs[n + 2]
    <3>1. g[n + 2] = Step(seqs, g)[n + 2]
      BY <1>5
    <3> QED
      BY <2>1, <3>1 DEF Step
  <2>3. f[n + 2] = f[n + 1] \o seqs[n + 2]
    BY <1>3, <2>1
  <2>4. f[n + 1] = g[n + 1]
    BY <1>7, <1>0
  <2> QED
    BY <2>2, <2>3, <2>4
<1> HIDE DEF S
<1>8. \A n \in Nat : n \in S
  BY <1>6, <1>7, Induction
<1>9. Len(seqs) - 1 \in S /\ (Len(seqs) - 1) + 1 = Len(seqs)
  BY <1>0, <1>8
<1>10. f[Len(seqs)] = g[Len(seqs)]
  BY <1>0, <1>9 DEF S
<1> QED
  BY <1>1, <1>5, <1>10

LEMMA FlattenAppend ==
    ASSUME NEW T, NEW seqs \in Seq(Seq(T)), NEW s \in Seq(T)
    PROVE  /\ FlattenSeq(<<>>) = <<>>
           /\ FlattenSeq(seqs) \in Seq(T)
           /\ FlattenSeq(Append(seqs, s)) = FlattenSeq(seqs) \o s
<1>0. FlattenSeq(<<>>) = <<>>
  BY DEF FlattenSeq
<1>1. PICK more : more = Append(seqs, s)
  OBVIOUS
<1>2. PICK L : L = Len(seqs)
  OBVIOUS
<1>3. more \in Seq(Seq(T)) /\ more # <<>> /\ L \in Nat /\ Len(more) = L + 1
      /\ more[L + 1] = s /\ \A i \in 1..L : more[i] = seqs[i]
  BY <1>1, <1>2
<1>4. PICK g \in Sums(T, more, Len(more)) : FlattenSeq(more) = g[Len(more)]
  BY <1>3, FlattenDef
<1>5. g[1] = more[1] /\ \A i \in 1..L : g[i + 1] = g[i] \o more[i + 1]
  <2>1. Len(more) - 1 = L
    BY <1>3
  <2> QED
    BY <1>4, <2>1 DEF Sums
<1>6. CASE seqs = <<>>
  <2>1. L = 0 /\ FlattenSeq(more) = s
    BY <1>2, <1>3, <1>4, <1>5, <1>6
  <2>2. <<>> \o s = s
    OBVIOUS
  <2>3. FlattenSeq(seqs) = <<>>
    BY <1>0, <1>6
  <2> QED
    BY <1>0, <1>1, <2>1, <2>2, <2>3
<1>7. CASE seqs # <<>>
  <2>1. PICK f \in Sums(T, seqs, L) : FlattenSeq(seqs) = f[L]
    BY <1>2, <1>7, FlattenDef
  <2>2. f \in [1..L -> Seq(T)] /\ f[1] = seqs[1]
        /\ \A i \in 1..(L - 1) : f[i + 1] = f[i] \o seqs[i + 1]
    BY <2>1 DEF Sums
  <2>3. L \in 1..L
    BY <1>2, <1>3, <1>7
  <2> DEFINE S == {n \in Nat : n + 1 <= L => f[n + 1] = g[n + 1]}
  <2>4. 0 \in S
    BY <1>3, <1>5, <2>2, <2>3
  <2>5. ASSUME NEW n \in Nat, n \in S PROVE n + 1 \in S
    <3> SUFFICES ASSUME n + 2 <= L PROVE f[n + 2] = g[n + 2]
      <4>1. (n + 1) + 1 = n + 2
        OBVIOUS
      <4> QED
        BY <4>1
    <3>1. n + 1 \in 1..(L - 1) /\ n + 1 \in 1..L /\ (n + 1) + 1 = n + 2 /\ n + 2 \in 1..L
      BY <1>3
    <3>2. f[n + 2] = f[n + 1] \o seqs[n + 2]
      BY <2>2, <3>1
    <3>3. g[n + 2] = g[n + 1] \o more[n + 2]
      BY <1>5, <3>1
    <3>4. more[n + 2] = seqs[n + 2]
      BY <1>3, <3>1
    <3>5. f[n + 1] = g[n + 1]
      BY <2>5, <1>3
    <3> QED
      BY <3>2, <3>3, <3>4, <3>5
  <2> HIDE DEF S
  <2>6. \A n \in Nat : n \in S
    BY <2>4, <2>5, Induction
  <2>7. L - 1 \in S /\ (L - 1) + 1 = L
    BY <2>3, <2>6
  <2>8. f[L] = g[L]
    BY <2>3, <2>7 DEF S
  <2>9. g[L + 1] = g[L] \o more[L + 1]
    BY <1>5, <2>3
  <2>10. f[L] \in Seq(T)
    BY <2>2, <2>3
  <2> QED
    BY <1>0, <1>1, <1>3, <1>4, <2>1, <2>8, <2>9, <2>10
<1> QED
  BY <1>6, <1>7

(* Flattening distributes over concatenation.                               *)
LEMMA FlattenConcat ==
    ASSUME NEW T, NEW s \in Seq(Seq(T)), NEW t \in Seq(Seq(T))
    PROVE  FlattenSeq(s \o t) = FlattenSeq(s) \o FlattenSeq(t)
<1> DEFINE S == {n \in Nat : \A u \in Seq(Seq(T)) : Len(u) = n =>
                    FlattenSeq(s \o u) = FlattenSeq(s) \o FlattenSeq(u)}
<1>0. FlattenSeq(s) \in Seq(T) /\ FlattenSeq(<<>>) = <<>>
  BY FlattenAppend
<1>1. 0 \in S
  <2> SUFFICES ASSUME NEW u \in Seq(Seq(T)), Len(u) = 0
               PROVE  FlattenSeq(s \o u) = FlattenSeq(s) \o FlattenSeq(u)
    OBVIOUS
  <2>1. u = <<>> /\ s \o u = s
    OBVIOUS
  <2>2. FlattenSeq(s) \o <<>> = FlattenSeq(s)
    BY <1>0
  <2> QED
    BY <1>0, <2>1, <2>2
<1>2. ASSUME NEW n \in Nat, n \in S PROVE n + 1 \in S
  <2> SUFFICES ASSUME NEW u \in Seq(Seq(T)), Len(u) = n + 1
               PROVE  FlattenSeq(s \o u) = FlattenSeq(s) \o FlattenSeq(u)
    OBVIOUS
  <2>1. PICK v, x : v = SubSeq(u, 1, n) /\ x = u[n + 1]
    OBVIOUS
  <2>2. v \in Seq(Seq(T)) /\ x \in Seq(T) /\ Len(v) = n /\ u = Append(v, x)
    BY <2>1
  <2>3. s \o u = Append(s \o v, x) /\ s \o v \in Seq(Seq(T))
    <3>1. ASSUME NEW U, NEW a \in Seq(U), NEW b \in Seq(U), NEW c \in U
          PROVE  a \o Append(b, c) = Append(a \o b, c) /\ a \o b \in Seq(U)
      OBVIOUS
    <3> QED
      BY <2>2, <3>1
  <2>4. FlattenSeq(s \o v) = FlattenSeq(s) \o FlattenSeq(v)
    BY <1>2, <2>2
  <2>5. FlattenSeq(s \o u) = FlattenSeq(s \o v) \o x
    BY <2>2, <2>3, FlattenAppend
  <2>6. FlattenSeq(u) = FlattenSeq(v) \o x /\ FlattenSeq(v) \in Seq(T)
    BY <2>2, FlattenAppend
  <2>7. (FlattenSeq(s) \o FlattenSeq(v)) \o x = FlattenSeq(s) \o (FlattenSeq(v) \o x)
    <3>1. ASSUME NEW a \in Seq(T), NEW b \in Seq(T), NEW c \in Seq(T)
          PROVE  (a \o b) \o c = a \o (b \o c)
      OBVIOUS
    <3> QED
      BY <1>0, <2>2, <2>6, <3>1
  <2> QED
    BY <2>4, <2>5, <2>6, <2>7
<1> HIDE DEF S
<1>3. \A n \in Nat : n \in S
  BY <1>1, <1>2, Induction
<1>4. Len(t) \in Nat
  OBVIOUS
<1> QED
  BY <1>3, <1>4 DEF S

LEMMA FlattenOne ==
    ASSUME NEW T, NEW s \in Seq(T), NEW t \in Seq(Seq(T))
    PROVE  /\ FlattenSeq(<<s>>) = s
           /\ FlattenSeq(<<s>> \o t) = s \o FlattenSeq(t)
<1>1. <<s>> = Append(<<>>, s) /\ <<>> \in Seq(Seq(T)) /\ <<s>> \in Seq(Seq(T)) /\ <<>> \o s = s
  OBVIOUS
<1>2. FlattenSeq(<<s>>) = s
  <2>1. FlattenSeq(Append(<<>>, s)) = FlattenSeq(<<>>) \o s /\ FlattenSeq(<<>>) = <<>>
    BY <1>1, FlattenAppend
  <2> QED
    BY <1>1, <2>1
<1>3. FlattenSeq(<<s>> \o t) = FlattenSeq(<<s>>) \o FlattenSeq(t)
  BY <1>1, FlattenConcat
<1> QED
  BY <1>2, <1>3

-----------------------------------------------------------------------------
(* Blocks and frames.                                                       *)

(* What travels: bytes, and whatever the checksum is.                       *)
Octet == Nat \cup {crc8(s) : s \in Seq(Byte)}

(* A sequence, cut after a.                                                 *)
Splits(u, a, T) ==
    /\ SubSeq(u, 1, a) \in Seq(T) /\ Len(SubSeq(u, 1, a)) = a
    /\ SubSeq(u, a + 1, Len(u)) \in Seq(T)
    /\ u = SubSeq(u, 1, a) \o SubSeq(u, a + 1, Len(u))

LEMMA SplitAt ==
    ASSUME NEW T, NEW u \in Seq(T), NEW a \in 0..Len(u)
    PROVE  /\ SubSeq(u, 1, a) \in Seq(T) /\ Len(SubSeq(u, 1, a)) = a
           /\ SubSeq(u, a + 1, Len(u)) \in Seq(T)
           /\ Len(SubSeq(u, a + 1, Len(u))) = Len(u) - a
           /\ u = SubSeq(u, 1, a) \o SubSeq(u, a + 1, Len(u))
<1>1. SubSeq(u, 1, a) \in Seq(T) /\ Len(SubSeq(u, 1, a)) = a
  OBVIOUS
<1>2. SubSeq(u, a + 1, Len(u)) \in Seq(T) /\ Len(SubSeq(u, a + 1, Len(u))) = Len(u) - a
  OBVIOUS
<1>3. SubSeq(u, 1, a) \o SubSeq(u, a + 1, Len(u)) = SubSeq(u, 1, Len(u))
  <2>1. Len(u) \in Nat /\ 1 \in 1..(Len(u) + 1) /\ a \in (1 - 1)..Len(u) /\ Len(u) \in a..Len(u)
    OBVIOUS
  <2> QED
    BY <2>1, ConcatAdjacentSubSeq
<1>4. SubSeq(u, 1, Len(u)) = u
  BY SubSeqFull
<1> QED
  BY <1>1, <1>2, <1>3, <1>4

(* Cutting bytes into blocks and flattening the blocks gives the bytes.     *)
Cut(s, n) == [b \in 1..n |-> SubSeq(s, (b - 1) * BLOCK + 1, b * BLOCK)]

(* The last block of a sequence comes after the blocks before it.           *)
CutsLast(u, k, w) ==
    Cut(u, k + 1) = Append(Cut(SubSeq(u, 1, w), k), SubSeq(u, w + 1, Len(u)))

LEMMA CutLast ==
    ASSUME NEW T, NEW k \in Nat, NEW w \in Nat, w = k * BLOCK,
           NEW u \in Seq(T), Len(u) = w + BLOCK,
           Cut(SubSeq(u, 1, w), k) \in Seq(Seq(T))
    PROVE  CutsLast(u, k, w)
<1>0. BLOCK \in Nat \ {0}
  BY FrameStreamAssumption
<1>1. PICK f, g, x : f = Cut(u, k + 1) /\ g = Cut(SubSeq(u, 1, w), k)
                     /\ x = SubSeq(u, w + 1, Len(u))
  OBVIOUS
<1>2. /\ f = [b \in 1..(k + 1) |-> f[b]]
      /\ \A b \in 1..(k + 1) : f[b] = SubSeq(u, (b - 1) * BLOCK + 1, b * BLOCK)
      /\ g = [b \in 1..k |-> g[b]]
      /\ \A b \in 1..k : g[b] = SubSeq(SubSeq(u, 1, w), (b - 1) * BLOCK + 1, b * BLOCK)
  BY <1>1 DEF Cut
<1>3. ASSUME NEW b \in 1..k PROVE f[b] = g[b]
  <2>1. PICK p, q : p = (b - 1) * BLOCK /\ q = b * BLOCK
    OBVIOUS
  <2>2. p \in Nat /\ q \in Nat /\ q <= w
    BY <1>0, <2>1
  <2>3. SubSeq(u, p + 1, q) = SubSeq(SubSeq(u, 1, w), p + 1, q)
    BY <1>0, <2>2
  <2>4. b \in 1..(k + 1)
    OBVIOUS
  <2>5. f[b] = SubSeq(u, p + 1, q) /\ g[b] = SubSeq(SubSeq(u, 1, w), p + 1, q)
    BY <1>2, <2>1, <2>4, Zenon
  <2> QED
    BY <2>3, <2>5
<1>4. f[k + 1] = x
  <2>1. ((k + 1) - 1) * BLOCK = w /\ (k + 1) * BLOCK = Len(u)
    BY <1>0
  <2>2. k + 1 \in 1..(k + 1)
    OBVIOUS
  <2>3. f[k + 1] = SubSeq(u, ((k + 1) - 1) * BLOCK + 1, (k + 1) * BLOCK)
    BY <1>2, <2>2, Zenon
  <2> QED
    BY <1>1, <2>1, <2>3
<1>5. g \in Seq(Seq(T)) /\ Len(g) = k /\ x \in Seq(T)
  <2>1. DOMAIN g = 1..k /\ g \in Seq(Seq(T))
    BY <1>1, <1>2
  <2> QED
    <3>1. Len(g) \in Nat /\ 1..Len(g) = 1..k
      BY <2>1, LenProperties
    <3>2. w \in 0..Len(u)
      BY <1>0
    <3>3. x \in Seq(T)
      BY <1>1, <3>2, SplitAt
    <3>4. \A a \in Nat : 1..a = 1..k => a = k
      OBVIOUS
    <3> QED
      BY <2>1, <3>1, <3>3, <3>4
<1>6. /\ Append(g, x) = [b \in 1..(k + 1) |-> Append(g, x)[b]]
      /\ \A b \in 1..k : Append(g, x)[b] = g[b]
      /\ Append(g, x)[k + 1] = x
  <2>1. Append(g, x) \in Seq(Seq(T)) /\ Len(Append(g, x)) = k + 1
    BY <1>5, AppendProperties
  <2>2. Append(g, x) \in [1..(k + 1) -> Seq(T)]
    BY <2>1, LenProperties
  <2>3. Append(g, x) = [b \in 1..(k + 1) |-> Append(g, x)[b]]
    BY <2>2
  <2> QED
    BY <1>5, <2>3, AppendProperties
<1>7. ASSUME NEW b \in 1..(k + 1) PROVE f[b] = Append(g, x)[b]
  <2>1. b \in 1..k \/ b = k + 1
    OBVIOUS
  <2> QED
    BY <1>3, <1>4, <1>6, <2>1
<1>8. f = Append(g, x)
  BY <1>2, <1>6, <1>7
<1> QED
  BY <1>1, <1>8 DEF CutsLast

LEMMA CutFlatten ==
    ASSUME NEW T, NEW n \in Nat, NEW s \in Seq(T), Len(s) = n * BLOCK
    PROVE  Cut(s, n) \in Seq(Seq(T)) /\ FlattenSeq(Cut(s, n)) = s
<1> DEFINE S == {k \in Nat : \A u \in Seq(T) : Len(u) = k * BLOCK =>
                    Cut(u, k) \in Seq(Seq(T)) /\ FlattenSeq(Cut(u, k)) = u}
<1>0. BLOCK \in Nat \ {0}
  BY FrameStreamAssumption
<1>1. 0 \in S
  <2> SUFFICES ASSUME NEW u \in Seq(T), Len(u) = 0 * BLOCK
               PROVE  Cut(u, 0) \in Seq(Seq(T)) /\ FlattenSeq(Cut(u, 0)) = u
    OBVIOUS
  <2>1. u = <<>> /\ Cut(u, 0) = <<>>
    BY <1>0 DEF Cut
  <2>2. <<>> \in Seq(Seq(T)) /\ <<>> \in Seq(T)
    OBVIOUS
  <2>3. FlattenSeq(<<>>) = <<>>
    BY <2>2, FlattenAppend
  <2> QED
    BY <2>1, <2>2, <2>3
<1>2. ASSUME NEW k \in Nat, k \in S PROVE k + 1 \in S
  <2> SUFFICES ASSUME NEW u \in Seq(T), Len(u) = (k + 1) * BLOCK
               PROVE  Cut(u, k + 1) \in Seq(Seq(T)) /\ FlattenSeq(Cut(u, k + 1)) = u
    OBVIOUS
  <2>1. PICK w : w = k * BLOCK
    OBVIOUS
  <2>2. w \in Nat /\ Len(u) = w + BLOCK /\ w \in 0..Len(u)
    BY <1>0, <2>1
  <2>3. PICK v, x : v = SubSeq(u, 1, w) /\ x = SubSeq(u, w + 1, Len(u))
    OBVIOUS
  <2>4. v \in Seq(T) /\ x \in Seq(T) /\ Len(v) = w /\ u = v \o x
    BY <2>2, <2>3, SplitAt
  <2>5. Cut(v, k) \in Seq(Seq(T)) /\ FlattenSeq(Cut(v, k)) = v
    BY <1>2, <2>1, <2>4
  <2>6. Cut(u, k + 1) = Append(Cut(v, k), x)
    <3>1. Cut(SubSeq(u, 1, w), k) \in Seq(Seq(T))
      BY <2>3, <2>5
    <3>2. CutsLast(u, k, w)
      BY <2>1, <2>2, <3>1, CutLast, Zenon
    <3> QED
      BY <2>3, <3>2, Zenon DEF CutsLast
  <2>7. FlattenSeq(Append(Cut(v, k), x)) = v \o x
    BY <2>4, <2>5, FlattenAppend
  <2>8. Append(Cut(v, k), x) \in Seq(Seq(T))
    BY <2>4, <2>5
  <2> QED
    BY <2>4, <2>6, <2>7, <2>8
<1>3. n \in S
  <2> HIDE DEF S
  <2> QED
    BY <1>1, <1>2, Induction
<1> QED
  BY <1>3

LEMMA Padding == \A z \in Nat : Zeros(z) \in Seq(Octet) /\ Len(Zeros(z)) = z
                                /\ \A i \in 1..z : Zeros(z)[i] = 0
BY DEF Zeros, Octet

(* Decrypting what was encrypted gives it back, padded.                     *)
LEMMA EncryptDecrypt ==
    ASSUME NEW packet \in Seq(Octet)
    PROVE  /\ encrypt(packet) \in Seq(Seq(Octet)) /\ encrypt(packet) # <<>>
           /\ \E z \in Nat : decrypt(encrypt(packet)) = packet \o Zeros(z)
<1>0. BLOCK \in Nat \ {0} /\ Len(packet) \in Nat
  BY FrameStreamAssumption
<1>1. PICK rounded : rounded = (Len(packet) + BLOCK - 1) \div BLOCK
  OBVIOUS
<1>2. rounded \in Nat /\ rounded * BLOCK >= Len(packet)
  BY <1>0, <1>1
<1>3. PICK blocks : blocks = IF rounded < 1 THEN 1 ELSE rounded
  OBVIOUS
<1>4. blocks \in Nat \ {0} /\ blocks * BLOCK >= Len(packet) /\ blocks * BLOCK \in Nat
  BY <1>0, <1>2, <1>3
<1>5. PICK z \in Nat : z = blocks * BLOCK - Len(packet)
  BY <1>0, <1>4
<1>6. PICK padded : padded = packet \o Zeros(z)
  OBVIOUS
<1>7. padded \in Seq(Octet) /\ Len(padded) = blocks * BLOCK
  BY <1>0, <1>4, <1>5, <1>6, Padding
<1>8. encrypt(packet) = Cut(padded, blocks)
  BY <1>1, <1>3, <1>5, <1>6 DEF encrypt, Cut
<1>9. encrypt(packet) \in Seq(Seq(Octet)) /\ FlattenSeq(encrypt(packet)) = padded
  BY <1>4, <1>7, <1>8, CutFlatten
<1>10. encrypt(packet) # <<>>
  <2>1. DOMAIN encrypt(packet) = 1..blocks /\ 1 \in 1..blocks
    BY <1>4, <1>8 DEF Cut
  <2>2. DOMAIN <<>> = {}
    OBVIOUS
  <2> QED
    BY <2>1, <2>2
<1> QED
  BY <1>6, <1>9, <1>10 DEF decrypt

(* A frame says its own length, and holds the command, the body and the     *)
(* checksum of both.                                                        *)
Encloses(F, command, body) ==
    /\ F \in Seq(Octet) /\ Len(F) = Len(body) + 5
    /\ F[1] = START /\ F[4] = command
    /\ DataLength(F) = Len(body) + 2 /\ DataLength(F) \in 1..MAX_FRAME
    /\ Total(F) = Len(F)
    /\ \A i \in 1..Len(body) : F[i + 4] = body[i]
    /\ crc8(SubSeq(F, 4, Len(body) + 4)) = F[Len(body) + 5]

LEMMA FramedIs ==
    ASSUME NEW command \in Byte, NEW body \in Seq(Byte), Len(body) + 2 <= MAX_FRAME
    PROVE  Encloses(Framed(command, body), command, body)
<1> DEFINE F == Framed(command, body)
<1>0. MAX_FRAME \in Nat
  BY FrameStreamAssumption
<1>1. PICK L : L = Len(body)
  OBVIOUS
<1>2. L \in Nat /\ L + 2 <= MAX_FRAME
  BY <1>1
<1>3. PICK checked : checked = <<command>> \o body
  OBVIOUS
<1>4. checked \in Seq(Byte) /\ Len(checked) = L + 1 /\ checked[1] = command
      /\ \A i \in 1..L : checked[i + 1] = body[i]
  BY <1>1, <1>2, <1>3 DEF Byte
<1>5. PICK a, b, c : a = (L + 2) % 256 /\ b = (L + 2) \div 256 /\ c = crc8(checked)
  OBVIOUS
<1>6. a \in Octet /\ b \in Octet /\ c \in Octet /\ START \in Octet /\ Byte \subseteq Octet
      /\ a \in Nat /\ b \in Nat /\ a + 256 * b = L + 2
  BY <1>2, <1>4, <1>5 DEF Octet, START, Byte
<1>7. F = <<START>> \o <<a, b>> \o checked \o <<c>>
  <2>1. 4 + Len(body) - 2 = L + 2
    BY <1>1, <1>2
  <2> QED
    BY <1>3, <1>5, <2>1 DEF Framed, LE16
<1>8. checked \in Seq(Octet)
  BY <1>4, <1>6, SeqMonotonic
<1>9. /\ F \in Seq(Octet) /\ Len(F) = L + 5
      /\ F[1] = START /\ F[2] = a /\ F[3] = b /\ F[L + 5] = c
      /\ SubSeq(F, 4, L + 4) = checked
      /\ \A i \in 1..(L + 1) : F[i + 3] = checked[i]
  <2> HIDE DEF Octet, F
  <2>1. F \in Seq(Octet) /\ Len(F) = L + 5
    BY <1>2, <1>4, <1>6, <1>7, <1>8
  <2>2. F[1] = START /\ F[2] = a /\ F[3] = b /\ F[L + 5] = c
    BY <1>2, <1>4, <1>6, <1>7, <1>8
  <2>3. \A i \in 1..(L + 1) : F[i + 3] = checked[i]
    BY <1>2, <1>4, <1>6, <1>7, <1>8
  <2>4. SubSeq(F, 4, L + 4) = checked
    BY <1>2, <1>4, <2>1, <2>3
  <2> QED
    BY <2>1, <2>2, <2>3, <2>4
<1>10. DataLength(F) = L + 2
  BY <1>6, <1>9 DEF DataLength
<1>11. F[4] = command
  <2>1. F[1 + 3] = checked[1]
    BY <1>2, <1>9
  <2> QED
    BY <1>4, <2>1
<1>12. \A i \in 1..L : F[i + 4] = body[i]
  <2> TAKE i \in 1..L
  <2>1. i + 1 \in 1..(L + 1) /\ (i + 1) + 3 = i + 4
    BY <1>2
  <2>2. F[(i + 1) + 3] = checked[i + 1]
    BY <1>9, <2>1
  <2> QED
    BY <1>4, <2>1, <2>2
<1>13. crc8(SubSeq(F, 4, L + 4)) = F[L + 5]
  BY <1>5, <1>9
<1>14. DataLength(F) \in 1..MAX_FRAME /\ Total(F) = L + 5
  BY <1>0, <1>2, <1>10 DEF Total
<1>15. F \in Seq(Octet) /\ Len(F) = L + 5 /\ F[1] = START
  BY <1>9
<1> HIDE DEF F
<1>16. Encloses(F, command, body)
  BY <1>1, <1>10, <1>11, <1>12, <1>13, <1>14, <1>15 DEF Encloses
<1> QED
  BY <1>16 DEF F

(* makeFrame() reads what the lock wrote.                                   *)
LEMMA FrameIs ==
    ASSUME NEW m \in Messages
    PROVE  /\ Frame(m) \in Seq(Octet) /\ Len(Frame(m)) >= 6
           /\ Frame(m)[1] = START
           /\ DataLength(Frame(m)) \in 1..MAX_FRAME
           /\ Total(Frame(m)) = Len(Frame(m))
           /\ makeFrame(Frame(m)) = Decoded(m)
<1>0. /\ m.command \in Byte /\ m.status \in {0, 1}
      /\ m.data \in Seq(Byte) /\ Len(m.data) + 3 <= MAX_FRAME /\ MAX_FRAME \in Nat
  BY FrameStreamAssumption DEF Messages
<1>1. PICK d, L, body, F : d = m.data /\ L = Len(d) /\ body = <<m.status>> \o d /\ F = Frame(m)
  OBVIOUS
<1>2. L \in Nat /\ d \in Seq(Byte) /\ L + 3 <= MAX_FRAME
  BY <1>0, <1>1
<1>3. body \in Seq(Byte) /\ Len(body) = L + 1 /\ body[1] = m.status
      /\ \A i \in 1..L : body[i + 1] = d[i]
  BY <1>0, <1>1, <1>2 DEF Byte
<1>4. /\ F \in Seq(Octet) /\ Len(F) = L + 6
      /\ F[1] = START /\ F[4] = m.command
      /\ DataLength(F) = L + 3 /\ DataLength(F) \in 1..MAX_FRAME
      /\ Total(F) = Len(F)
      /\ \A i \in 1..(L + 1) : F[i + 4] = body[i]
      /\ crc8(SubSeq(F, 4, L + 5)) = F[L + 6]
  <2>1. F = Framed(m.command, body)
    BY <1>1 DEF Frame
  <2>2. /\ Len(body) + 2 <= MAX_FRAME
        /\ (L + 1) + 5 = L + 6 /\ (L + 1) + 4 = L + 5 /\ (L + 1) + 2 = L + 3
    BY <1>2, <1>3
  <2>3. Encloses(F, m.command, body)
    <3>1. m.command \in Byte /\ body \in Seq(Byte)
      BY <1>0, <1>3
    <3> QED
      BY <2>1, <2>2, <3>1, FramedIs
  <2> QED
    BY <1>3, <2>2, <2>3 DEF Encloses
<1>5. F[5] = m.status
  <2>1. F[1 + 4] = body[1]
    BY <1>2, <1>4
  <2> QED
    BY <1>3, <2>1
<1>6. SubSeq(F, 6, L + 5) = d
  <2>1. ASSUME NEW i \in 1..L PROVE F[i + 5] = d[i]
    <3>1. i + 1 \in 1..(L + 1) /\ (i + 1) + 4 = i + 5
      BY <1>2
    <3>2. F[(i + 1) + 4] = body[i + 1]
      BY <1>4, <3>1
    <3> QED
      BY <1>3, <3>1, <3>2
  <2> QED
    BY <1>1, <1>2, <1>4, <2>1
<1>7. makeFrame(F) = Decoded(m)
  <2>1. DataLength(F) + 2 = L + 5 /\ (L + 5) + 1 = L + 6 /\ Len(F) > 4
    BY <1>2, <1>4
  <2>2. makeFrame(F) = [raw |-> F, command |-> F[4], status |-> F[5],
                        data |-> SubSeq(F, 6, L + 5),
                        crcValid |-> crc8(SubSeq(F, 4, L + 5)) = F[L + 6]]
    BY <2>1 DEF makeFrame
  <2> QED
    BY <1>1, <1>4, <1>5, <1>6, <2>2 DEF Decoded
<1> QED
  BY <1>1, <1>2, <1>4, <1>7

-----------------------------------------------------------------------------
(* The bytes of some messages, and what push() returns for them.            *)
Bytes(ms) == FlattenSeq([k \in DOMAIN ms |-> Frame(ms[k])])
Heard(ms) == [k \in DOMAIN ms |-> Decoded(ms[k])]
Outputs   == {Decoded(m) : m \in Messages}

LEMMA NothingSent == Bytes(<<>>) = <<>> /\ Heard(<<>>) = <<>>
<1>1. [k \in DOMAIN <<>> |-> Frame(<<>>[k])] = <<>>
  OBVIOUS
<1>2. <<>> \in Seq(Seq(Octet)) /\ <<>> \in Seq(Octet)
  OBVIOUS
<1>3. FlattenSeq(<<>>) = <<>>
  BY <1>2, FlattenAppend
<1>4. Heard(<<>>) = <<>>
  BY DEF Heard
<1> QED
  BY <1>1, <1>3, <1>4 DEF Bytes

LEMMA FramesTyped ==
    ASSUME NEW ms \in Seq(Messages)
    PROVE  /\ [k \in DOMAIN ms |-> Frame(ms[k])] \in Seq(Seq(Octet))
           /\ Len([k \in DOMAIN ms |-> Frame(ms[k])]) = Len(ms)
           /\ Bytes(ms) \in Seq(Octet)
<1>1. PICK g : g = [k \in DOMAIN ms |-> Frame(ms[k])]
  OBVIOUS
<1>2. Len(ms) \in Nat /\ DOMAIN ms = 1..Len(ms) /\ \A k \in 1..Len(ms) : ms[k] \in Messages
  OBVIOUS
<1>3. g \in [1..Len(ms) -> Seq(Octet)]
  BY <1>1, <1>2, FrameIs
<1>4. g \in Seq(Seq(Octet)) /\ Len(g) = Len(ms)
  BY <1>2, <1>3
<1>5. FlattenSeq(g) \in Seq(Octet)
  <2>1. <<>> \in Seq(Octet)
    OBVIOUS
  <2> QED
    BY <1>4, <2>1, FlattenAppend
<1> QED
  BY <1>1, <1>4, <1>5 DEF Bytes

LEMMA BytesOf ==
    ASSUME NEW ms \in Seq(Messages), NEW m \in Messages
    PROVE  Bytes(<<m>> \o ms) = Frame(m) \o Bytes(ms)
<1>0. \A x \in Messages : Frame(x) \in Seq(Octet)
  BY FrameIs
<1>1. PICK g, h : /\ g = [k \in DOMAIN ms |-> Frame(ms[k])]
                  /\ h = [k \in DOMAIN (<<m>> \o ms) |-> Frame((<<m>> \o ms)[k])]
  OBVIOUS
<1>2. Len(ms) \in Nat /\ DOMAIN ms = 1..Len(ms) /\ \A k \in 1..Len(ms) : ms[k] \in Messages
  OBVIOUS
<1>3. /\ DOMAIN (<<m>> \o ms) = 1..(Len(ms) + 1)
      /\ (<<m>> \o ms)[1] = m
      /\ \A k \in 1..Len(ms) : (<<m>> \o ms)[k + 1] = ms[k]
  OBVIOUS
<1>4. g \in Seq(Seq(Octet)) /\ Len(g) = Len(ms)
  BY <1>1, FramesTyped
<1>5. h \in Seq(Seq(Octet)) /\ Len(h) = Len(ms) + 1
  <2>1. <<m>> \o ms \in Seq(Messages) /\ Len(<<m>> \o ms) = Len(ms) + 1
    OBVIOUS
  <2> QED
    BY <1>1, <2>1, FramesTyped
<1>6. <<Frame(m)>> \o g \in Seq(Seq(Octet)) /\ Len(<<Frame(m)>> \o g) = Len(ms) + 1
  BY <1>0, <1>2, <1>4
<1>7. ASSUME NEW k \in 1..(Len(ms) + 1) PROVE h[k] = (<<Frame(m)>> \o g)[k]
  <2>1. CASE k = 1
    BY <1>0, <1>1, <1>3, <1>4, <2>1
  <2>2. CASE k # 1
    <3>1. PICK j : j = k - 1
      OBVIOUS
    <3>2. j \in 1..Len(ms) /\ j + 1 = k
      BY <1>2, <2>2, <3>1
    <3>3. h[k] = Frame(ms[j])
      BY <1>1, <1>3, <3>2
    <3>4. g[j] = Frame(ms[j])
      BY <1>1, <1>2, <3>2
    <3>5. (<<Frame(m)>> \o g)[k] = g[j]
      BY <1>0, <1>4, <2>2, <3>1, <3>2
    <3> QED
      BY <3>3, <3>4, <3>5
  <2> QED
    BY <2>1, <2>2
<1>8. h = <<Frame(m)>> \o g
  BY <1>5, <1>6, <1>7, SeqEqual
<1>9. FlattenSeq(h) = Frame(m) \o FlattenSeq(g)
  BY <1>0, <1>4, <1>8, FlattenOne
<1> QED
  BY <1>1, <1>9 DEF Bytes

LEMMA HeardOf ==
    ASSUME NEW a \in Seq(Messages), NEW b \in Seq(Messages)
    PROVE  /\ \A m \in Messages : Heard(<<m>>) = <<Decoded(m)>>
           /\ Heard(a) \in Seq(Outputs) /\ Len(Heard(a)) = Len(a)
           /\ Heard(a \o b) = Heard(a) \o Heard(b)
<1>1. ASSUME NEW c \in Seq(Messages)
      PROVE  Heard(c) \in Seq(Outputs) /\ Len(Heard(c)) = Len(c)
             /\ \A k \in 1..Len(c) : Heard(c)[k] = Decoded(c[k])
  <2>1. DOMAIN c = 1..Len(c) /\ Len(c) \in Nat /\ \A k \in 1..Len(c) : c[k] \in Messages
    OBVIOUS
  <2>2. Heard(c) \in [1..Len(c) -> Outputs] /\ \A k \in 1..Len(c) : Heard(c)[k] = Decoded(c[k])
    BY <2>1 DEF Heard, Outputs
  <2> QED
    BY <2>1, <2>2
<1>2. PICK l, r, j : l = Heard(a \o b) /\ r = Heard(a) \o Heard(b) /\ j = a \o b
  OBVIOUS
<1>3. /\ j \in Seq(Messages) /\ Len(j) = Len(a) + Len(b)
      /\ \A k \in 1..Len(a) : j[k] = a[k]
      /\ \A k \in 1..Len(b) : j[Len(a) + k] = b[k]
  BY <1>2
<1>4. l \in Seq(Outputs) /\ Len(l) = Len(a) + Len(b)
      /\ \A k \in 1..(Len(a) + Len(b)) : l[k] = Decoded(j[k])
  BY <1>1, <1>2, <1>3
<1>5. r \in Seq(Outputs) /\ Len(r) = Len(a) + Len(b)
      /\ (\A k \in 1..Len(a) : r[k] = Heard(a)[k])
      /\ (\A k \in 1..Len(b) : r[Len(a) + k] = Heard(b)[k])
  <2>1. PICK x, y : x = Heard(a) /\ y = Heard(b)
    OBVIOUS
  <2>2. x \in Seq(Outputs) /\ y \in Seq(Outputs) /\ Len(x) = Len(a) /\ Len(y) = Len(b)
    BY <1>1, <2>1
  <2>3. r = x \o y
    BY <1>2, <2>1
  <2>4. r \in Seq(Outputs) /\ Len(r) = Len(x) + Len(y)
    BY <2>2, <2>3, ConcatProperties
  <2>5. \A k \in 1..Len(x) : r[k] = x[k]
    BY <2>2, <2>3
  <2>6. \A k \in 1..Len(y) : r[Len(x) + k] = y[k]
    BY <2>2, <2>3
  <2> QED
    BY <2>1, <2>2, <2>4, <2>5, <2>6
<1>6. ASSUME NEW k \in 1..(Len(a) + Len(b)) PROVE l[k] = r[k]
  <2>0. Len(a) \in Nat /\ Len(b) \in Nat
    OBVIOUS
  <2>1. CASE k <= Len(a)
    <3>1. k \in 1..Len(a)
      BY <2>0, <2>1
    <3> QED
      BY <1>1, <1>3, <1>4, <1>5, <3>1
  <2>2. CASE k > Len(a)
    <3>1. PICK i : i = k - Len(a)
      OBVIOUS
    <3>2. i \in 1..Len(b) /\ k = Len(a) + i
      BY <2>0, <2>2, <3>1
    <3>3. l[k] = Decoded(b[i]) /\ r[k] = Heard(b)[i] /\ Heard(b)[i] = Decoded(b[i])
      BY <1>1, <1>3, <1>4, <1>5, <3>2
    <3> QED
      BY <3>3
  <2> QED
    BY <2>0, <2>1, <2>2
<1>7. l = r
  BY <1>4, <1>5, <1>6, SeqEqual
<1>8. ASSUME NEW m \in Messages PROVE Heard(<<m>>) = <<Decoded(m)>>
  <2>1. <<m>>[1] = m
    OBVIOUS
  <2>3. <<m>> \in Seq(Messages) /\ Len(<<m>>) = 1
    OBVIOUS
  <2>4. Heard(<<m>>) \in Seq(Outputs) /\ Len(Heard(<<m>>)) = 1 /\ Heard(<<m>>)[1] = Decoded(m)
    <3>1. 1 \in 1..Len(<<m>>)
      BY <2>3
    <3>2. Heard(<<m>>)[1] = Decoded(<<m>>[1])
      BY <1>1, <2>3, <3>1
    <3> QED
      BY <1>1, <2>1, <2>3, <3>2
  <2> QED
    BY <2>4
<1> QED
  BY <1>1, <1>2, <1>7, <1>8

-----------------------------------------------------------------------------
(* push(): the loop, and what it leaves.                                    *)
Left(bytes, used) == SubSeq(bytes, used + 1, Len(bytes))

(* One turn of the loop, when f is what the later turns come to.            *)
Turn(bytes, f, used) ==
    IF Whole(Left(bytes, used))
    THEN LET later == f[used + Total(Left(bytes, used))]
             first == SubSeq(Left(bytes, used), 1, Total(Left(bytes, used)))
         IN  [frames |-> <<makeFrame(first)>> \o later.frames, rest |-> later.rest]
    ELSE [frames |-> <<>>, rest |-> IF Broken(Left(bytes, used)) THEN <<>> ELSE Left(bytes, used)]

LEMMA WholeAdvances ==
    ASSUME NEW bytes \in Seq(Octet), NEW used \in 0..Len(bytes), Whole(Left(bytes, used))
    PROVE  used + Total(Left(bytes, used)) \in (used + 1)..Len(bytes)
<1>1. Len(Left(bytes, used)) = Len(bytes) - used
  BY SplitAt DEF Left
<1>2. MAX_FRAME \in Nat
  BY FrameStreamAssumption
<1>3. DataLength(Left(bytes, used)) \in 1..MAX_FRAME
      /\ Len(Left(bytes, used)) >= Total(Left(bytes, used))
  BY DEF Whole
<1> QED
  BY <1>1, <1>2, <1>3 DEF Total

LEMMA TurnsExist ==
    ASSUME NEW bytes \in Seq(Octet)
    PROVE  \E f : f = [used \in 0..Len(bytes) |-> Turn(bytes, f, used)]
<1>1. PICK M \in Nat : M = Len(bytes)
  OBVIOUS
<1> DEFINE Good(n, f) == /\ f = [used \in (M - n)..M |-> f[used]]
                         /\ \A used \in (M - n)..M : f[used] = Turn(bytes, f, used)
           S == {n \in Nat : n <= M => \E f : Good(n, f)}
<1>2. ASSUME NEW n \in Nat, n <= M, NEW f, NEW h,
             h = [used \in (M - n)..M |-> IF used = M - n THEN Turn(bytes, f, used) ELSE f[used]],
             n > 0 => Good(n - 1, f)
      PROVE  Good(n, h)
  <2>1. h = [used \in (M - n)..M |-> h[used]]
    BY <1>2
  <2>2. ASSUME NEW used \in (M - n)..M PROVE h[used] = Turn(bytes, h, used)
    <3>1. h[used] = Turn(bytes, f, used)
      <4>1. CASE used = M - n
        BY <1>2, <4>1
      <4>2. CASE used # M - n
        <5>1. n > 0 /\ used \in (M - (n - 1))..M
          BY <1>1, <4>2
        <5>2. h[used] = f[used]
          BY <1>2, <4>2
        <5> QED
          BY <1>2, <5>1, <5>2
      <4> QED
        BY <4>1, <4>2
    <3>2. CASE Whole(Left(bytes, used))
      <4>1. PICK to : to = used + Total(Left(bytes, used))
        OBVIOUS
      <4>2. to \in (M - n)..M /\ to # M - n
        <5>1. used \in 0..Len(bytes)
          BY <1>1, <1>2
        <5> QED
          BY <1>1, <1>2, <3>2, <4>1, <5>1, WholeAdvances
      <4>3. h[to] = f[to]
        BY <1>2, <4>2
      <4> QED
        BY <3>1, <3>2, <4>1, <4>3 DEF Turn
    <3>3. CASE ~Whole(Left(bytes, used))
      BY <3>1, <3>3 DEF Turn
    <3> QED
      BY <3>2, <3>3
  <2> QED
    BY <2>1, <2>2
<1>3. 0 \in S
  <2>1. PICK f, h : h = [used \in (M - 0)..M |-> IF used = M - 0 THEN Turn(bytes, f, used) ELSE f[used]]
    OBVIOUS
  <2>2. Good(0, h)
    <3>1. 0 \in Nat /\ 0 <= M /\ ~(0 > 0)
      BY <1>1
    <3> HIDE DEF Good
    <3> QED
      BY <1>2, <2>1, <3>1
  <2> HIDE DEF Good
  <2> QED
    BY <2>2
<1>4. ASSUME NEW n \in Nat, n \in S PROVE n + 1 \in S
  <2> SUFFICES ASSUME n + 1 <= M PROVE \E f : Good(n + 1, f)
    OBVIOUS
  <2> HIDE DEF Good
  <2>1. PICK f : Good(n, f)
    BY <1>4
  <2>2. PICK h : h = [used \in (M - (n + 1))..M |->
                         IF used = M - (n + 1) THEN Turn(bytes, f, used) ELSE f[used]]
    OBVIOUS
  <2>3. n + 1 \in Nat /\ (n + 1) - 1 = n
    OBVIOUS
  <2>4. Good(n + 1, h)
    BY <1>2, <2>1, <2>2, <2>3
  <2> QED
    BY <2>4
<1>5. M \in S
  <2> HIDE DEF S
  <2> QED
    BY <1>3, <1>4, Induction
<1>6. PICK f : Good(M, f)
  <2> HIDE DEF Good
  <2> QED
    BY <1>5
<1>7. M - M = 0
  OBVIOUS
<1>8. f = [used \in 0..M |-> Turn(bytes, f, used)]
  <2>1. f = [used \in 0..M |-> f[used]] /\ \A used \in 0..M : f[used] = Turn(bytes, f, used)
    BY <1>6, <1>7
  <2> QED
    BY <2>1
<1> QED
  BY <1>1, <1>8

LEMMA WalkDef ==
    ASSUME NEW bytes \in Seq(Octet)
    PROVE  \E f : /\ Walk(bytes) = f[0]
                  /\ \A used \in 0..Len(bytes) : f[used] = Turn(bytes, f, used)
<1>1. PICK c : c = CHOOSE f : f = [used \in 0..Len(bytes) |-> Turn(bytes, f, used)]
  OBVIOUS
<1>2. c = [used \in 0..Len(bytes) |-> Turn(bytes, c, used)]
  BY <1>1, TurnsExist
<1>3. Walk(bytes) = c[0]
  BY <1>1 DEF Walk, Turn, Left
<1>4. \A used \in 0..Len(bytes) : c[used] = Turn(bytes, c, used)
  BY <1>2
<1> QED
  BY <1>3, <1>4
(* Bytes that begin a frame agree with it as far as both go.                *)
LEMMA Agree ==
    ASSUME NEW l \in Seq(Octet), NEW r \in Seq(Octet), NEW f \in Seq(Octet), NEW y \in Seq(Octet),
           l \o r = f \o y
    PROVE  /\ \A i \in 1..Len(l) : i <= Len(f) => l[i] = f[i]
           /\ Len(l) + Len(r) = Len(f) + Len(y)
           /\ Len(l) >= Len(f) => /\ SubSeq(l, 1, Len(f)) = f
                                  /\ SubSeq(l, Len(f) + 1, Len(l)) \o r = y
<1>0. Len(l) \in Nat /\ Len(r) \in Nat /\ Len(f) \in Nat /\ Len(y) \in Nat
  OBVIOUS
<1>1. Len(l) + Len(r) = Len(f) + Len(y)
  BY ConcatProperties
<1>2. \A i \in 1..Len(l) : (l \o r)[i] = l[i]
  OBVIOUS
<1>3. \A i \in 1..Len(f) : (f \o y)[i] = f[i]
  OBVIOUS
<1>4. \A i \in 1..Len(l) : i <= Len(f) => l[i] = f[i]
  BY <1>0, <1>2, <1>3
<1>5. ASSUME Len(l) >= Len(f)
      PROVE  /\ SubSeq(l, 1, Len(f)) = f
             /\ SubSeq(l, Len(f) + 1, Len(l)) \o r = y
  <2>1. PICK p, q : p = SubSeq(l, 1, Len(f)) /\ q = SubSeq(l, Len(f) + 1, Len(l))
    OBVIOUS
  <2>2. p \in Seq(Octet) /\ Len(p) = Len(f) /\ q \in Seq(Octet) /\ l = p \o q
    <3>1. Len(f) \in 0..Len(l)
      BY <1>0, <1>5
    <3>2. Splits(l, Len(f), Octet)
      BY <3>1, SplitAt, Zenon DEF Splits
    <3> QED
      BY <2>1, <3>2, Zenon DEF Splits
  <2>3. \A i \in 1..Len(f) : p[i] = l[i]
    BY <1>0, <1>5, <2>1
  <2>4. \A i \in 1..Len(f) : p[i] = f[i]
    BY <1>0, <1>4, <1>5, <2>3
  <2>5. p = f
    BY <2>2, <2>4, SeqEqual
  <2>6. f \o (q \o r) = f \o y /\ q \o r \in Seq(Octet)
    <3>0. q \in Seq(Octet)
      BY <2>2
    <3>1. (f \o q) \o r = f \o (q \o r)
      <4>1. Regroups(f, q, r)
        BY <3>0, Regroup
      <4> QED
        BY <4>1 DEF Regroups
    <3>2. q \o r \in Seq(Octet)
      BY <2>2, ConcatProperties
    <3> QED
      BY <2>2, <2>5, <3>1, <3>2
  <2>7. q \o r = y
    BY <2>6, ConcatSimplifications
  <2> QED
    BY <2>1, <2>2, <2>5, <2>7
<1> QED
  BY <1>1, <1>4, <1>5

(* A part of a frame stays for the next notification.                       *)
LEMMA PartStays ==
    ASSUME NEW m \in Messages, NEW l \in Seq(Octet), Len(l) < Len(Frame(m)),
           \A i \in 1..Len(l) : l[i] = Frame(m)[i]
    PROVE  ~Whole(l) /\ ~Broken(l) /\ Remainder(l) = l
<1>0. PICK F : F = Frame(m)
  OBVIOUS
<1>1. /\ F[1] = START /\ DataLength(F) \in 1..MAX_FRAME /\ Total(F) = Len(F)
      /\ Len(l) < Len(F) /\ Len(l) \in Nat /\ \A i \in 1..Len(l) : l[i] = F[i]
  BY <1>0, FrameIs
<1>2. Remainder(l) = l
  <2>1. l # <<>> => l[1] = START
    BY <1>1
  <2> QED
    BY <2>1 DEF Remainder
<1>3. CASE Len(l) < 5
  BY <1>1, <1>2, <1>3 DEF Whole, Broken, Begins
<1>4. CASE Len(l) >= 5
  <2>1. l[2] = F[2] /\ l[3] = F[3]
    BY <1>1, <1>4
  <2>2. DataLength(l) = DataLength(F) /\ Total(l) = Total(F)
    BY <2>1 DEF Total, DataLength
  <2> QED
    BY <1>1, <1>2, <2>2 DEF Whole, Broken
<1> QED
  BY <1>1, <1>3, <1>4

(* A frame whose last byte has come is taken.                               *)
LEMMA WholeTaken ==
    ASSUME NEW m \in Messages, NEW l \in Seq(Octet), Len(l) >= Len(Frame(m)),
           \A i \in 1..Len(Frame(m)) : l[i] = Frame(m)[i]
    PROVE  Whole(l) /\ Total(l) = Len(Frame(m))
<1>0. PICK F : F = Frame(m)
  OBVIOUS
<1>1. /\ F[1] = START /\ DataLength(F) \in 1..MAX_FRAME /\ Total(F) = Len(F) /\ Len(F) >= 6
      /\ Len(l) >= Len(F) /\ Len(l) \in Nat /\ Len(F) \in Nat
      /\ \A i \in 1..Len(F) : l[i] = F[i]
  BY <1>0, FrameIs
<1>2. l[1] = F[1] /\ l[2] = F[2] /\ l[3] = F[3]
  BY <1>1
<1>3. DataLength(l) = DataLength(F) /\ Total(l) = Total(F)
  BY <1>2 DEF Total, DataLength
<1> QED
  BY <1>0, <1>1, <1>2, <1>3 DEF Whole, Begins

(* Padding is no frame, and none of it is kept.                             *)
LEMMA PaddingDropped ==
    ASSUME NEW l \in Seq(Octet), NEW r \in Seq(Octet), NEW z \in Nat, l \o r = Zeros(z)
    PROVE  /\ ~Whole(l) /\ ~Broken(l) /\ Remainder(l) = <<>>
           /\ r = Zeros(z - Len(l)) /\ z - Len(l) \in Nat
<1>1. Zeros(z) \in Seq(Octet) /\ Len(Zeros(z)) = z /\ \A i \in 1..z : Zeros(z)[i] = 0
  BY Padding
<1>2. Len(l) \in Nat /\ Len(r) \in Nat /\ Len(l) + Len(r) = z
  BY <1>1, ConcatProperties
<1>3. \A i \in 1..Len(l) : l[i] = 0
  <2>1. \A i \in 1..Len(l) : (l \o r)[i] = l[i]
    OBVIOUS
  <2> QED
    BY <1>1, <1>2, <2>1
<1>4. l # <<>> => l[1] = 0
  BY <1>2, <1>3
<1>5. ~Begins(l) /\ Remainder(l) = <<>>
  BY <1>2, <1>4 DEF Begins, Remainder, START
<1>6. PICK y \in Nat : y = z - Len(l)
  BY <1>2
<1>7. Zeros(y) \in Seq(Octet) /\ Len(Zeros(y)) = y /\ \A i \in 1..y : Zeros(y)[i] = 0
  BY Padding
<1>8. \A i \in 1..y : r[i] = 0
  <2> TAKE i \in 1..y
  <2>1. (l \o r)[Len(l) + i] = r[i]
    BY <1>2, <1>6
  <2>2. Len(l) + i \in 1..z
    BY <1>2, <1>6
  <2> QED
    BY <1>1, <2>1, <2>2
<1>9. r = Zeros(y)
  <2>1. Len(r) = Len(Zeros(y)) /\ Len(r) = y
    BY <1>2, <1>6, <1>7
  <2>2. \A i \in 1..Len(r) : r[i] = Zeros(y)[i]
    BY <1>7, <1>8, <2>1
  <2> QED
    BY <1>7, <2>1, <2>2, SeqEqual
<1> QED
  BY <1>5, <1>6, <1>9 DEF Whole, Broken

(* What is at the front, when the next message is not all padding.          *)
LEMMA FirstFrame ==
    ASSUME NEW m \in Messages, NEW later \in Seq(Messages),
           NEW l \in Seq(Octet), NEW r \in Seq(Octet), NEW z \in Nat,
           l \o r = Bytes(<<m>> \o later) \o Zeros(z)
    PROVE  /\ Len(l) < Len(Frame(m)) =>
                 ~Whole(l) /\ ~Broken(l) /\ Remainder(l) = l /\ r # <<>>
           /\ Len(l) >= Len(Frame(m)) =>
                 /\ Whole(l) /\ Total(l) = Len(Frame(m))
                 /\ makeFrame(SubSeq(l, 1, Total(l))) = Decoded(m)
                 /\ SubSeq(l, Len(Frame(m)) + 1, Len(l)) \o r = Bytes(later) \o Zeros(z)
<1>1. PICK F, D, Z : F = Frame(m) /\ D = Bytes(later) /\ Z = Zeros(z)
  OBVIOUS
<1>2. F \in Seq(Octet) /\ D \in Seq(Octet) /\ Z \in Seq(Octet)
      /\ Len(F) \in Nat /\ Len(l) \in Nat
  <2>1. F \in Seq(Octet)
    BY <1>1, FrameIs
  <2>2. D \in Seq(Octet)
    BY <1>1, FramesTyped
  <2>3. Z \in Seq(Octet)
    BY <1>1, Padding
  <2> QED
    BY <2>1, <2>2, <2>3
<1>3. (F \o D) \o Z = F \o (D \o Z)
  <2>1. Regroups(F, D, Z)
    BY <1>2, Regroup
  <2> QED
    BY <2>1 DEF Regroups
<1>4. PICK t : t = D \o Z
  OBVIOUS
<1>5. t \in Seq(Octet)
  BY <1>2, <1>4, ConcatProperties
<1>6. l \o r = F \o t
  BY <1>1, <1>3, <1>4, BytesOf
<1>7. /\ \A i \in 1..Len(l) : i <= Len(F) => l[i] = F[i]
      /\ Len(l) + Len(r) = Len(F) + Len(t)
      /\ Len(l) >= Len(F) => /\ SubSeq(l, 1, Len(F)) = F
                             /\ SubSeq(l, Len(F) + 1, Len(l)) \o r = t
  BY <1>2, <1>5, <1>6, Agree
<1>8. ASSUME Len(l) < Len(F)
      PROVE  ~Whole(l) /\ ~Broken(l) /\ Remainder(l) = l /\ r # <<>>
  <2>1. \A i \in 1..Len(l) : l[i] = F[i]
    <3>1. \A i \in 1..Len(l) : i <= Len(F)
      BY <1>2, <1>8
    <3> QED
      BY <1>7, <3>1
  <2>2. r # <<>>
    <3>1. Len(t) \in Nat /\ Len(<<>>) = 0
      BY <1>5
    <3> QED
      BY <1>2, <1>7, <1>8, <3>1
  <2> QED
    BY <1>1, <1>8, <2>1, <2>2, PartStays
<1>9. ASSUME Len(l) >= Len(F)
      PROVE  /\ Whole(l) /\ Total(l) = Len(F)
             /\ makeFrame(SubSeq(l, 1, Total(l))) = Decoded(m)
             /\ SubSeq(l, Len(F) + 1, Len(l)) \o r = D \o Z
  <2>1. \A i \in 1..Len(F) : l[i] = F[i]
    BY <1>2, <1>7, <1>9
  <2>2. Whole(l) /\ Total(l) = Len(F)
    BY <1>1, <1>9, <2>1, WholeTaken
  <2>3. makeFrame(SubSeq(l, 1, Total(l))) = Decoded(m)
    BY <1>1, <1>7, <1>9, <2>2, FrameIs
  <2> QED
    BY <1>4, <1>7, <1>9, <2>2, <2>3
<1> QED
  BY <1>1, <1>8, <1>9

LEMMA HeardFirst ==
    ASSUME NEW m \in Messages, NEW a \in Seq(Messages), NEW b \in Seq(Messages)
    PROVE  /\ <<m>> \o a \in Seq(Messages)
           /\ Heard(<<m>> \o a) = <<Decoded(m)>> \o Heard(a)
           /\ <<m>> \o (a \o b) = (<<m>> \o a) \o b
<1>1. <<m>> \in Seq(Messages)
  OBVIOUS
<1>2. <<m>> \o a \in Seq(Messages)
  BY <1>1, ConcatProperties
<1>3. Heard(<<m>> \o a) = Heard(<<m>>) \o Heard(a) /\ Heard(<<m>>) = <<Decoded(m)>>
  BY <1>1, HeardOf
<1>4. <<m>> \o (a \o b) = (<<m>> \o a) \o b
  BY <1>1, ConcatAssociative
<1> QED
  BY <1>2, <1>3, <1>4

LEMMA FirstAndLater ==
    ASSUME NEW T, NEW s \in Seq(T), NEW n \in Nat, Len(s) = n + 1
    PROVE  \E e \in T, t \in Seq(T) : s = <<e>> \o t /\ Len(t) = n
<1>1. PICK e, t : e = s[1] /\ t = SubSeq(s, 2, n + 1)
  OBVIOUS
<1>2. e \in T /\ t \in Seq(T) /\ Len(t) = n
  BY <1>1
<1>3. SubSeq(s, 1, n + 1) = <<e>> \o t
  <2>1. 1 \in 1..Len(s) /\ n + 1 \in 1..Len(s) /\ 1 + 1 = 2
    OBVIOUS
  <2> QED
    BY <1>1, <2>1, SubSeqRecursiveFirst
<1>4. SubSeq(s, 1, n + 1) = s
  BY SubSeqFull
<1> QED
  BY <1>2, <1>3, <1>4

LEMMA LeftLeft ==
    ASSUME NEW T, NEW x \in Seq(T), NEW used \in 0..Len(x), NEW k \in Nat, k <= Len(x) - used
    PROVE  Left(x, used + k) = SubSeq(Left(x, used), k + 1, Len(x) - used)
BY DEF Left

(* What the loop does with the front of some messages and their padding,    *)
(* when r is what is still to come: it returns the messages that are there  *)
(* whole, and keeps of the rest exactly what has come of the next one.      *)
Taken(walked, r, ms) ==
    \E a \in Seq(Messages), b \in Seq(Messages), y \in Nat, rest \in Seq(Octet) :
       /\ ms = a \o b
       /\ walked = [frames |-> Heard(a), rest |-> rest]
       /\ Remainder(rest) \in Seq(Octet)
       /\ Remainder(rest) \o r = Bytes(b) \o Zeros(y)
       /\ r = <<>> => b = <<>> /\ Remainder(rest) = <<>>

LEMMA WalkTakes ==
    ASSUME NEW x \in Seq(Octet), NEW f,
           \A used \in 0..Len(x) : f[used] = Turn(x, f, used),
           NEW r \in Seq(Octet), NEW z \in Nat
    PROVE  \A ms \in Seq(Messages), used \in 0..Len(x) :
              Left(x, used) \o r = Bytes(ms) \o Zeros(z) => Taken(f[used], r, ms)
<1> DEFINE S == {n \in Nat : \A ms \in Seq(Messages), used \in 0..Len(x) :
                    Len(ms) = n /\ Left(x, used) \o r = Bytes(ms) \o Zeros(z)
                    => Taken(f[used], r, ms)}
<1>0. /\ Len(x) \in Nat /\ <<>> \in Seq(Messages) /\ <<>> \in Seq(Octet)
      /\ Zeros(z) \in Seq(Octet)
      /\ \A used \in 0..Len(x) : Left(x, used) \in Seq(Octet) /\ Len(Left(x, used)) = Len(x) - used
  BY SplitAt, Padding DEF Left
<1>1. 0 \in S
  <2> SUFFICES ASSUME NEW ms \in Seq(Messages), NEW used \in 0..Len(x), Len(ms) = 0,
                      Left(x, used) \o r = Bytes(ms) \o Zeros(z)
               PROVE  Taken(f[used], r, ms)
    OBVIOUS
  <2>1. PICK l : l = Left(x, used)
    OBVIOUS
  <2>2. l \in Seq(Octet)
    BY <1>0, <2>1
  <2>3. ms = <<>> /\ Bytes(ms) = <<>>
    BY NothingSent
  <2>4. l \o r = Zeros(z)
    BY <1>0, <2>1, <2>3, ConcatEmptySeq
  <2>5. /\ ~Whole(l) /\ ~Broken(l) /\ Remainder(l) = <<>>
        /\ r = Zeros(z - Len(l)) /\ z - Len(l) \in Nat
    BY <2>2, <2>4, PaddingDropped
  <2>6. PICK y \in Nat : y = z - Len(l)
    BY <2>5
  <2>7. f[used] = [frames |-> <<>>, rest |-> l]
    BY <2>1, <2>5 DEF Turn
  <2>8. Remainder(l) \o r = Bytes(<<>>) \o Zeros(y)
    BY <1>0, <2>5, <2>6, NothingSent
  <2>9. ms = <<>> \o <<>> /\ f[used] = [frames |-> Heard(<<>>), rest |-> l]
    BY <2>3, <2>7, NothingSent
  <2> QED
    BY <1>0, <2>2, <2>5, <2>8, <2>9 DEF Taken
<1>2. ASSUME NEW n \in Nat, n \in S PROVE n + 1 \in S
  <2>0. n + 1 \in Nat
    OBVIOUS
  <2> SUFFICES ASSUME NEW ms \in Seq(Messages), NEW used \in 0..Len(x), Len(ms) = n + 1,
                      Left(x, used) \o r = Bytes(ms) \o Zeros(z)
               PROVE  Taken(f[used], r, ms)
    BY <2>0, Zenon
  <2>1. PICK m \in Messages, later \in Seq(Messages) : ms = <<m>> \o later /\ Len(later) = n
    BY FirstAndLater
  <2>2. PICK l, F : l = Left(x, used) /\ F = Frame(m)
    OBVIOUS
  <2>3. l \in Seq(Octet) /\ Len(l) = Len(x) - used /\ F \in Seq(Octet) /\ Len(F) \in Nat
    <3>1. F \in Seq(Octet)
      BY <2>2, FrameIs
    <3> QED
      BY <1>0, <2>2, <3>1
  <2>4. /\ Len(l) < Len(F) => ~Whole(l) /\ ~Broken(l) /\ Remainder(l) = l /\ r # <<>>
        /\ Len(l) >= Len(F) =>
              /\ Whole(l) /\ Total(l) = Len(F)
              /\ makeFrame(SubSeq(l, 1, Total(l))) = Decoded(m)
              /\ SubSeq(l, Len(F) + 1, Len(l)) \o r = Bytes(later) \o Zeros(z)
    <3>1. l \in Seq(Octet) /\ l \o r = Bytes(<<m>> \o later) \o Zeros(z)
      BY <2>1, <2>2, <2>3
    <3>2. /\ Len(l) < Len(Frame(m)) => ~Whole(l) /\ ~Broken(l) /\ Remainder(l) = l /\ r # <<>>
          /\ Len(l) >= Len(Frame(m)) =>
                /\ Whole(l) /\ Total(l) = Len(Frame(m))
                /\ makeFrame(SubSeq(l, 1, Total(l))) = Decoded(m)
                /\ SubSeq(l, Len(Frame(m)) + 1, Len(l)) \o r = Bytes(later) \o Zeros(z)
      BY <3>1, FirstFrame, ZenonT(60)
    <3> QED
      BY <2>2, <3>2
  <2>5. CASE Len(l) < Len(F)
    <3>1. f[used] = [frames |-> <<>>, rest |-> l]
      BY <2>2, <2>4, <2>5 DEF Turn
    <3>2. ms = <<>> \o ms /\ f[used] = [frames |-> Heard(<<>>), rest |-> l]
      BY <3>1, NothingSent, ConcatEmptySeq
    <3>3. Remainder(l) \in Seq(Octet) /\ Remainder(l) \o r = Bytes(ms) \o Zeros(z) /\ r # <<>>
      BY <2>2, <2>3, <2>4, <2>5
    <3> QED
      BY <1>0, <2>3, <3>2, <3>3 DEF Taken
  <2>6. CASE Len(l) >= Len(F)
    <3>1. PICK to : to = used + Len(F)
      OBVIOUS
    <3>2. to \in 0..Len(x)
      BY <1>0, <2>3, <2>6, <3>1
    <3>3. Left(x, to) = SubSeq(l, Len(F) + 1, Len(l))
      <4>1. Len(F) <= Len(x) - used
        BY <2>3, <2>6
      <4> QED
        BY <2>2, <2>3, <3>1, <4>1, LeftLeft
    <3>4. Taken(f[to], r, later)
      BY <1>2, <2>1, <2>4, <2>6, <3>2, <3>3
    <3>5. PICK a \in Seq(Messages), b \in Seq(Messages), y \in Nat, rest \in Seq(Octet) :
             /\ later = a \o b
             /\ f[to] = [frames |-> Heard(a), rest |-> rest]
             /\ Remainder(rest) \in Seq(Octet)
             /\ Remainder(rest) \o r = Bytes(b) \o Zeros(y)
             /\ r = <<>> => b = <<>> /\ Remainder(rest) = <<>>
      BY <3>4 DEF Taken
    <3>6. f[used] = [frames |-> <<Decoded(m)>> \o f[to].frames, rest |-> f[to].rest]
      BY <2>2, <2>4, <2>6, <3>1 DEF Turn
    <3>7. f[used] = [frames |-> <<Decoded(m)>> \o Heard(a), rest |-> rest]
      BY <3>5, <3>6
    <3>8. /\ <<m>> \o a \in Seq(Messages)
          /\ Heard(<<m>> \o a) = <<Decoded(m)>> \o Heard(a)
          /\ ms = (<<m>> \o a) \o b
      BY <2>1, <3>5, HeardFirst
    <3> QED
      BY <3>5, <3>7, <3>8 DEF Taken
  <2> QED
    BY <2>3, <2>5, <2>6
<1> HIDE DEF S
<1>3. \A n \in Nat : n \in S
  BY <1>1, <1>2, Induction
<1>4. \A ms \in Seq(Messages) : Len(ms) \in Nat
  OBVIOUS
<1>5. \A ms \in Seq(Messages), used \in 0..Len(x) :
         Left(x, used) \o r = Bytes(ms) \o Zeros(z) => Taken(f[used], r, ms)
  BY <1>3, <1>4 DEF S
<1> QED
  BY <1>5

-----------------------------------------------------------------------------
(* The stream.  What has been sent is what push() has returned, then, write *)
(* by write, what is still to come of it; and what is still to come of a    *)
(* write is what is left of its blocks, after the buffer if it is the first *)
(* one, up to its padding.                                                  *)
Pending(before, write, ms) ==
    \E z \in Nat : before \o decrypt(write) = Bytes(ms) \o Zeros(z)

Before(i) == IF i = 1 THEN buffer ELSE <<>>

Owed(done, groups) ==
    /\ done \in Seq(Messages) /\ groups \in Seq(Seq(Messages))
    /\ sent = done \o FlattenSeq(groups)
    /\ frames = Heard(done)
    /\ Len(groups) = Len(air)
    /\ \A i \in 1..Len(air) : Pending(Before(i), air[i], groups[i])

Delivery ==
    /\ air \in Seq(Seq(Seq(Octet))) /\ buffer \in Seq(Octet)
    /\ air = <<>> => buffer = <<>>
    /\ \E done, groups : Owed(done, groups)

LEMMA DeliveryInit == Init => Delivery
<1> SUFFICES ASSUME Init PROVE Delivery
  OBVIOUS
<1>1. air = <<>> /\ buffer = <<>> /\ sent = <<>> /\ frames = <<>>
  BY DEF Init
<1>2. air \in Seq(Seq(Seq(Octet))) /\ buffer \in Seq(Octet) /\ Len(air) = 0
  BY <1>1
<1>3. <<>> \in Seq(Messages) /\ <<>> \in Seq(Seq(Messages)) /\ Len(<<>>) = 0
      /\ <<>> \o <<>> = <<>>
  OBVIOUS
<1>4. FlattenSeq(<<>>) = <<>>
  BY <1>3, FlattenAppend
<1>5. Owed(<<>>, <<>>)
  BY <1>1, <1>2, <1>3, <1>4, NothingSent DEF Owed
<1> QED
  BY <1>1, <1>2, <1>5 DEF Delivery

(* What a notification leaves of the messages owed: those still to come,    *)
(* after what the loop keeps.                                               *)
Pushed(walked, rest, ms) ==
    \E a \in Seq(Messages), b \in Seq(Messages), kept \in Seq(Octet) :
       /\ ms = a \o b
       /\ walked = [frames |-> Heard(a), rest |-> kept]
       /\ Remainder(kept) \in Seq(Octet)
       /\ Pending(Remainder(kept), rest, b)
       /\ rest = <<>> => b = <<>> /\ Remainder(kept) = <<>>

LEMMA PushOwes ==
    ASSUME NEW before \in Seq(Octet), NEW write \in Seq(Seq(Octet)), NEW ms \in Seq(Messages),
           Pending(before, write, ms), NEW n \in 1..Len(write)
    PROVE  Pushed(Walk(before \o decrypt(SubSeq(write, 1, n))),
                  SubSeq(write, n + 1, Len(write)), ms)
<1>1. PICK chunk, rest : chunk = SubSeq(write, 1, n) /\ rest = SubSeq(write, n + 1, Len(write))
  OBVIOUS
<1>2. chunk \in Seq(Seq(Octet)) /\ rest \in Seq(Seq(Octet)) /\ write = chunk \o rest
  <2>1. n \in 0..Len(write)
    OBVIOUS
  <2> QED
    BY <1>1, <2>1, SplitAt
<1>3. PICK c, r : c = decrypt(chunk) /\ r = decrypt(rest)
  OBVIOUS
<1>4. c \in Seq(Octet) /\ r \in Seq(Octet) /\ (rest = <<>> => r = <<>>)
  <2>1. <<>> \in Seq(Octet)
    OBVIOUS
  <2>2. FlattenSeq(chunk) \in Seq(Octet) /\ FlattenSeq(rest) \in Seq(Octet)
        /\ FlattenSeq(<<>>) = <<>>
    BY <1>2, <2>1, FlattenAppend
  <2> QED
    BY <1>3, <2>2 DEF decrypt
<1>5. decrypt(write) = c \o r
  BY <1>2, <1>3, FlattenConcat DEF decrypt
<1>6. PICK x : x = before \o c
  OBVIOUS
<1>7. x \in Seq(Octet) /\ x \o r = before \o (c \o r)
  <2>0. c \in Seq(Octet) /\ r \in Seq(Octet)
    BY <1>4
  <2>1. before \o c \in Seq(Octet)
    BY <2>0, ConcatProperties
  <2>2. (before \o c) \o r = before \o (c \o r)
    <3>1. Regroups(before, c, r)
      BY <2>0, Regroup
    <3> QED
      BY <3>1 DEF Regroups
  <2> QED
    BY <1>6, <2>1, <2>2
<1>8. PICK z \in Nat : x \o r = Bytes(ms) \o Zeros(z)
  BY <1>5, <1>7 DEF Pending
<1>9. PICK f : Walk(x) = f[0] /\ \A used \in 0..Len(x) : f[used] = Turn(x, f, used)
  BY <1>7, WalkDef
<1>10. Left(x, 0) = x /\ 0 \in 0..Len(x)
  BY <1>7, SubSeqFull DEF Left
<1>11. PICK a \in Seq(Messages), b \in Seq(Messages), y \in Nat, kept \in Seq(Octet) :
          /\ ms = a \o b
          /\ f[0] = [frames |-> Heard(a), rest |-> kept]
          /\ Remainder(kept) \in Seq(Octet)
          /\ Remainder(kept) \o r = Bytes(b) \o Zeros(y)
          /\ r = <<>> => b = <<>> /\ Remainder(kept) = <<>>
  <2>1. x \in Seq(Octet) /\ r \in Seq(Octet)
        /\ \A used \in 0..Len(x) : f[used] = Turn(x, f, used)
    BY <1>4, <1>7, <1>9
  <2>2. \A q \in Seq(Messages), used \in 0..Len(x) :
           Left(x, used) \o r = Bytes(q) \o Zeros(z) => Taken(f[used], r, q)
    BY <2>1, WalkTakes
  <2>3. Taken(f[0], r, ms)
    BY <1>8, <1>10, <2>2
  <2> QED
    BY <2>3 DEF Taken
<1>12. Pending(Remainder(kept), rest, b)
  BY <1>3, <1>11 DEF Pending
<1>13. Walk(before \o decrypt(SubSeq(write, 1, n))) = [frames |-> Heard(a), rest |-> kept]
  BY <1>1, <1>3, <1>6, <1>9, <1>11
<1>14. rest = <<>> => b = <<>> /\ Remainder(kept) = <<>>
  BY <1>4, <1>11
<1> QED
  BY <1>1, <1>11, <1>12, <1>13, <1>14 DEF Pushed

LEMMA DeliveryWrite == Delivery /\ Write => Delivery'
<1> SUFFICES ASSUME Delivery, Write PROVE Delivery'
  OBVIOUS
<1>1. PICK done, groups : Owed(done, groups)
  BY DEF Delivery
<1>2. PICK n \in 1..MaxPerWrite :
         \E payloads \in [1..n -> Payloads], command \in Commands, status \in {0, 1} :
            LET new == [i \in 1..n |-> [command |-> command, status |-> status,
                                        data |-> payloads[i]]]
            IN  /\ sent' = sent \o new
                /\ air' = Append(air, encrypt(FlattenSeq([i \in 1..n |-> Frame(new[i])])))
  BY DEF Write
<1>3. buffer' = buffer /\ frames' = frames
  BY DEF Write
<1>4. PICK new \in [1..n -> Messages] :
         /\ sent' = sent \o new
         /\ air' = Append(air, encrypt(FlattenSeq([i \in 1..n |-> Frame(new[i])])))
  <2>1. PICK payloads \in [1..n -> Payloads], command \in Commands, status \in {0, 1} :
           LET new == [i \in 1..n |-> [command |-> command, status |-> status,
                                       data |-> payloads[i]]]
           IN  /\ sent' = sent \o new
               /\ air' = Append(air, encrypt(FlattenSeq([i \in 1..n |-> Frame(new[i])])))
    BY <1>2
  <2>2. PICK new : new = [i \in 1..n |-> [command |-> command, status |-> status,
                                         data |-> payloads[i]]]
    OBVIOUS
  <2>3. new \in [1..n -> Messages]
    BY <2>2 DEF Messages
  <2>4. /\ sent' = sent \o new
        /\ air' = Append(air, encrypt(FlattenSeq([i \in 1..n |-> Frame(new[i])])))
    BY <2>1, <2>2, Zenon
  <2> QED
    BY <2>3, <2>4
<1>5. new \in Seq(Messages) /\ DOMAIN new = 1..n
  <2>1. n \in Nat
    OBVIOUS
  <2>2. DOMAIN new = 1..n
    OBVIOUS
  <2> QED
    BY <2>1, <2>2
<1>6. PICK write : write = encrypt(Bytes(new))
  OBVIOUS
<1>7. write \in Seq(Seq(Octet)) /\ Pending(<<>>, write, new)
  <2>1. Bytes(new) \in Seq(Octet)
    BY <1>5, FramesTyped
  <2>2. write \in Seq(Seq(Octet)) /\ \E z \in Nat : decrypt(write) = Bytes(new) \o Zeros(z)
    BY <1>6, <2>1, EncryptDecrypt
  <2>3. decrypt(write) \in Seq(Octet)
    <3>1. <<>> \in Seq(Octet)
      OBVIOUS
    <3> QED
      BY <2>2, <3>1, FlattenAppend DEF decrypt
  <2>4. <<>> \o decrypt(write) = decrypt(write)
    BY <2>3, ConcatEmptySeq
  <2> QED
    BY <2>2, <2>4 DEF Pending
<1>8. sent' = sent \o new /\ air' = Append(air, write)
  BY <1>4, <1>5, <1>6 DEF Bytes
<1>9. /\ air \in Seq(Seq(Seq(Octet))) /\ buffer \in Seq(Octet) /\ (air = <<>> => buffer = <<>>)
      /\ done \in Seq(Messages) /\ groups \in Seq(Seq(Messages))
      /\ Len(groups) = Len(air) /\ Len(air) \in Nat
  BY <1>1 DEF Delivery, Owed
<1>10. /\ air' \in Seq(Seq(Seq(Octet))) /\ air' # <<>> /\ Len(air') = Len(air) + 1
       /\ air'[Len(air) + 1] = write /\ \A i \in 1..Len(air) : air'[i] = air[i]
  <2>1. air \in Seq(Seq(Seq(Octet))) /\ write \in Seq(Seq(Octet))
    BY <1>7, <1>9
  <2>2. /\ Append(air, write) \in Seq(Seq(Seq(Octet))) /\ Append(air, write) # <<>>
        /\ Len(Append(air, write)) = Len(air) + 1 /\ Append(air, write)[Len(air) + 1] = write
        /\ \A i \in 1..Len(air) : Append(air, write)[i] = air[i]
    BY <2>1, AppendProperties
  <2> QED
    BY <1>8, <2>2
<1>11. PICK more : more = Append(groups, new)
  OBVIOUS
<1>12. /\ more \in Seq(Seq(Messages)) /\ Len(more) = Len(air) + 1
       /\ more[Len(air) + 1] = new /\ \A i \in 1..Len(air) : more[i] = groups[i]
  BY <1>5, <1>9, <1>11, AppendProperties
<1>13. sent' = done \o FlattenSeq(more)
  <2>1. FlattenSeq(more) = FlattenSeq(groups) \o new /\ FlattenSeq(groups) \in Seq(Messages)
    BY <1>5, <1>9, <1>11, FlattenAppend
  <2>2. (done \o FlattenSeq(groups)) \o new = done \o (FlattenSeq(groups) \o new)
    <3>1. done \in Seq(Messages) /\ new \in Seq(Messages)
      BY <1>5, <1>9
    <3>2. Regroups(done, FlattenSeq(groups), new)
      BY <2>1, <3>1, Regroup, Zenon
    <3> QED
      BY <3>2, Zenon DEF Regroups
  <2> QED
    BY <1>1, <1>8, <2>1, <2>2 DEF Owed
<1>14. ASSUME NEW i \in 1..(Len(air) + 1) PROVE Pending(Before(i)', air'[i], more[i])
  <2>1. CASE i \in 1..Len(air)
    <3>1. Before(i)' = Before(i)
      BY <1>3 DEF Before
    <3> QED
      BY <1>1, <1>10, <1>12, <2>1, <3>1 DEF Owed
  <2>2. CASE i = Len(air) + 1
    <3>1. Before(i)' = <<>>
      <4>1. i = 1 => air = <<>>
        BY <1>9, <2>2
      <4> QED
        BY <1>3, <1>9, <4>1 DEF Before
    <3> QED
      BY <1>7, <1>10, <1>12, <2>2, <3>1
  <2> QED
    BY <1>9, <2>1, <2>2
<1>15. Owed(done, more)'
  BY <1>1, <1>3, <1>9, <1>10, <1>12, <1>13, <1>14 DEF Owed
<1> QED
  BY <1>3, <1>9, <1>10, <1>15 DEF Delivery

LEMMA DeliveryNotified == Delivery /\ Notified => Delivery'
<1> SUFFICES ASSUME Delivery, Notified PROVE Delivery'
  OBVIOUS
<1>1. PICK done, groups : Owed(done, groups)
  BY DEF Delivery
<1>2. air # <<>>
  BY DEF Notified
<1>3. PICK n \in 1..Len(Head(air)) : Notification(n)
  BY DEF Notified
<1>4. /\ air \in Seq(Seq(Seq(Octet))) /\ buffer \in Seq(Octet)
      /\ done \in Seq(Messages) /\ groups \in Seq(Seq(Messages))
      /\ Len(groups) = Len(air) /\ Len(air) \in Nat \ {0}
  BY <1>1, <1>2 DEF Delivery, Owed
<1>5. PICK write, ms, others, later :
         /\ write = Head(air) /\ others = Tail(air)
         /\ ms = Head(groups) /\ later = Tail(groups)
  OBVIOUS
<1>6. /\ write \in Seq(Seq(Octet)) /\ others \in Seq(Seq(Seq(Octet)))
      /\ Len(others) = Len(air) - 1 /\ \A i \in 1..Len(others) : others[i] = air[i + 1]
  BY <1>2, <1>4, <1>5, HeadTailProperties
<1>7. /\ ms \in Seq(Messages) /\ later \in Seq(Seq(Messages))
      /\ Len(later) = Len(air) - 1 /\ \A i \in 1..Len(later) : later[i] = groups[i + 1]
  <2>1. groups # <<>>
    BY <1>4
  <2> QED
    BY <1>4, <1>5, <2>1, HeadTailProperties
<1>8. write = air[1] /\ ms = groups[1] /\ groups = <<ms>> \o later
  BY <1>2, <1>4, <1>5
<1>9. Pending(buffer, write, ms)
  <2>1. 1 \in 1..Len(air) /\ Before(1) = buffer
    BY <1>4 DEF Before
  <2> QED
    BY <1>1, <1>8, <2>1 DEF Owed
<1>10. PICK rest, walked : /\ rest = SubSeq(write, n + 1, Len(write))
                           /\ walked = Walk(buffer \o decrypt(SubSeq(write, 1, n)))
  OBVIOUS
<1>11. PICK a \in Seq(Messages), b \in Seq(Messages), kept \in Seq(Octet) :
         /\ ms = a \o b
         /\ walked = [frames |-> Heard(a), rest |-> kept]
         /\ Remainder(kept) \in Seq(Octet)
         /\ Pending(Remainder(kept), rest, b)
         /\ rest = <<>> => b = <<>> /\ Remainder(kept) = <<>>
  <2>1. n \in 1..Len(write)
    BY <1>3, <1>5
  <2>2. Pushed(walked, rest, ms)
    BY <1>4, <1>6, <1>7, <1>9, <1>10, <2>1, PushOwes
  <2> QED
    BY <2>2 DEF Pushed
<1>12. /\ buffer' = Remainder(kept) /\ frames' = frames \o Heard(a) /\ sent' = sent
       /\ air' = IF rest = <<>> THEN others ELSE <<rest>> \o others
  <2>1. /\ buffer' = Remainder(walked.rest) /\ frames' = frames \o walked.frames /\ sent' = sent
        /\ air' = IF rest = <<>> THEN others ELSE <<rest>> \o others
    BY <1>3, <1>5, <1>10 DEF Notification, push
  <2>2. walked.rest = kept /\ walked.frames = Heard(a)
    BY <1>11
  <2> QED
    BY <2>1, <2>2
<1>13. rest \in Seq(Seq(Octet))
  <2>1. n \in 0..Len(write)
    BY <1>3, <1>5, <1>6
  <2> QED
    BY <1>6, <1>10, <2>1, SplitAt
<1>14. done \o a \in Seq(Messages) /\ frames' = Heard(done \o a)
  <2>1. done \in Seq(Messages)
    BY <1>4
  <2>2. done \o a \in Seq(Messages)
    BY <2>1, ConcatProperties
  <2>3. Heard(done \o a) = Heard(done) \o Heard(a)
    BY <2>1, HeardOf
  <2> QED
    BY <1>1, <1>12, <2>2, <2>3 DEF Owed
<1>15. PICK f : f = FlattenSeq(later)
  OBVIOUS
<1>16. f \in Seq(Messages) /\ sent = done \o (ms \o f)
  <2>1. ms \in Seq(Messages) /\ later \in Seq(Seq(Messages))
    BY <1>7
  <2>2. FlattenSeq(groups) = ms \o f
    <3>1. FlattenSeq(<<ms>> \o later) = ms \o FlattenSeq(later)
      BY <2>1, FlattenOne
    <3> QED
      BY <1>8, <1>15, <3>1
  <2>3. f \in Seq(Messages)
    BY <1>15, <2>1, FlattenAppend
  <2> QED
    BY <1>1, <2>2, <2>3 DEF Owed
<1>17. ASSUME NEW c \in Seq(Messages) PROVE (done \o a) \o c = done \o (a \o c)
  <2>1. done \in Seq(Messages)
    BY <1>4
  <2>2. Regroups(done, a, c)
    BY <2>1, Regroup
  <2> QED
    BY <2>2 DEF Regroups
<1>18. ASSUME NEW i \in 1..Len(others), i + 1 > 1
       PROVE  Pending(<<>>, others[i], later[i])
  <2>1. i + 1 \in 1..Len(air) /\ Before(i + 1) = <<>>
    BY <1>4, <1>6 DEF Before
  <2> QED
    BY <1>1, <1>6, <1>7, <2>1 DEF Owed
<1>19. CASE rest = <<>>
  <2>1. b = <<>> /\ buffer' = <<>> /\ air' = others
    BY <1>11, <1>12, <1>19
  <2>2. sent' = (done \o a) \o FlattenSeq(later)
    <3>1. ms = a
      BY <1>11, <2>1, ConcatEmptySeq
    <3>2. (done \o a) \o f = done \o (a \o f)
      BY <1>16, <1>17
    <3> QED
      BY <1>12, <1>15, <1>16, <3>1, <3>2
  <2>3. ASSUME NEW i \in 1..Len(air') PROVE Pending(Before(i)', air'[i], later[i])
    <3>1. Before(i)' = <<>> /\ i \in 1..Len(others) /\ i + 1 > 1
      BY <2>1 DEF Before
    <3> QED
      BY <1>18, <2>1, <3>1
  <2>4. Owed(done \o a, later)'
    BY <1>6, <1>7, <1>14, <2>1, <2>2, <2>3 DEF Owed
  <2> QED
    BY <1>6, <1>11, <1>12, <2>1, <2>4 DEF Delivery
<1>20. CASE rest # <<>>
  <2>1. air' = <<rest>> \o others
    BY <1>12, <1>20
  <2>2. /\ air' \in Seq(Seq(Seq(Octet))) /\ Len(air') = Len(others) + 1 /\ air' # <<>>
        /\ air'[1] = rest /\ \A i \in 1..Len(others) : air'[i + 1] = others[i]
    <3>1. rest \in Seq(Seq(Octet)) /\ others \in Seq(Seq(Seq(Octet)))
      BY <1>6, <1>13
    <3> QED
      BY <2>1, <3>1
  <2>3. PICK now : now = <<b>> \o later
    OBVIOUS
  <2>4. /\ now \in Seq(Seq(Messages)) /\ Len(now) = Len(later) + 1
        /\ now[1] = b /\ \A i \in 1..Len(later) : now[i + 1] = later[i]
    BY <1>7, <1>11, <2>3
  <2>5. sent' = (done \o a) \o FlattenSeq(now)
    <3>1. FlattenSeq(now) = b \o f
      <4>1. later \in Seq(Seq(Messages))
        BY <1>7
      <4> QED
        BY <1>15, <2>3, <4>1, FlattenOne
    <3>2. f \in Seq(Messages)
      BY <1>16
    <3>3. (a \o b) \o f = a \o (b \o f)
      <4>1. Regroups(a, b, f)
        BY <3>2, Regroup
      <4> QED
        BY <4>1 DEF Regroups
    <3>4. b \o f \in Seq(Messages)
      BY <3>2, ConcatProperties
    <3>5. (done \o a) \o (b \o f) = done \o (a \o (b \o f))
      BY <1>17, <3>4
    <3> QED
      BY <1>11, <1>12, <1>16, <3>1, <3>3, <3>5
  <2>6. ASSUME NEW i \in 1..Len(air') PROVE Pending(Before(i)', air'[i], now[i])
    <3>1. CASE i = 1
      <4>1. Before(i)' = buffer'
        BY <3>1 DEF Before
      <4> QED
        BY <1>11, <1>12, <2>2, <2>4, <3>1, <4>1
    <3>2. CASE i # 1
      <4>1. PICK j : j = i - 1
        OBVIOUS
      <4>2. j \in 1..Len(others) /\ j + 1 = i /\ j + 1 > 1 /\ Len(later) = Len(others)
        BY <1>4, <1>6, <1>7, <2>2, <3>2, <4>1
      <4>3. Before(i)' = <<>>
        BY <3>2 DEF Before
      <4>4. air'[i] = others[j] /\ now[i] = later[j]
        BY <2>2, <2>4, <4>2
      <4> QED
        BY <1>18, <4>2, <4>3, <4>4
    <3> QED
      BY <3>1, <3>2
  <2>7. Owed(done \o a, now)'
    BY <1>6, <1>7, <1>14, <2>2, <2>4, <2>5, <2>6 DEF Owed
  <2> QED
    BY <1>11, <1>12, <2>2, <2>7 DEF Delivery
<1> QED
  BY <1>19, <1>20

LEMMA DeliveryHolds == Spec => []Delivery
<1>1. Init => Delivery
  BY DeliveryInit
<1>2. Delivery /\ [Next]_vars => Delivery'
  <2> SUFFICES ASSUME Delivery, [Next]_vars PROVE Delivery'
    OBVIOUS
  <2>1. CASE Write
    BY <2>1, DeliveryWrite
  <2>2. CASE Notified
    BY <2>2, DeliveryNotified
  <2>3. CASE UNCHANGED vars
    BY <2>3 DEF vars, Delivery, Owed, Before
  <2> QED
    BY <2>1, <2>2, <2>3 DEF Next
<1> QED
  BY <1>1, <1>2, PTL DEF Spec

(* push() returns what was sent, whole and in order.                        *)
THEOREM StreamReturnsWhatWasSent == Spec => []FramesAreSent
<1>1. Delivery => FramesAreSent
  <2> SUFFICES ASSUME Delivery PROVE FramesAreSent
    OBVIOUS
  <2>1. PICK done, groups : Owed(done, groups)
    BY DEF Delivery
  <2>2. PICK rest : rest = FlattenSeq(groups)
    OBVIOUS
  <2>3. done \in Seq(Messages) /\ rest \in Seq(Messages) /\ sent = done \o rest
        /\ frames = Heard(done)
    <3>1. <<>> \in Seq(Messages)
      OBVIOUS
    <3> QED
      BY <2>1, <2>2, <3>1, FlattenAppend DEF Owed
  <2>4. PICK h, k : h = Heard(done) /\ k = Heard(rest)
    OBVIOUS
  <2>5. h \in Seq(Outputs) /\ k \in Seq(Outputs) /\ Heard(sent) = h \o k
    BY <2>3, <2>4, HeardOf
  <2>6. Len(h) <= Len(h \o k) /\ SubSeq(h, 1, Len(h)) = SubSeq(h \o k, 1, Len(h))
    BY <2>5
  <2>7. IsPrefix(frames, Heard(sent))
    BY <2>3, <2>4, <2>5, <2>6 DEF IsPrefix
  <2> QED
    BY <2>7 DEF FramesAreSent, Heard
<1> QED
  BY <1>1, DeliveryHolds, PTL

(* When everything has arrived, everything has been returned.               *)
THEOREM NoFrameStaysBehind == Spec => []NothingStuck
<1>1. Delivery => NothingStuck
  <2> SUFFICES ASSUME Delivery, air = <<>> PROVE Len(frames) = Len(sent) /\ buffer = <<>>
    BY DEF NothingStuck
  <2>1. PICK done, groups : Owed(done, groups)
    BY DEF Delivery
  <2>2. groups = <<>> /\ <<>> \in Seq(Messages)
    BY <2>1 DEF Owed
  <2>3. FlattenSeq(groups) = <<>>
    BY <2>1, <2>2, FlattenAppend DEF Owed
  <2>4. sent = done /\ frames = Heard(done) /\ done \in Seq(Messages)
    BY <2>1, <2>3, ConcatEmptySeq DEF Owed
  <2>5. Len(Heard(done)) = Len(done)
    BY <2>4, HeardOf
  <2> QED
    BY <2>4, <2>5 DEF Delivery
<1> QED
  BY <1>1, DeliveryHolds, PTL

-----------------------------------------------------------------------------
(* Requests: the lock finds in them what was asked.                         *)

(* A packet that is padded and encrypted is one frame, and nothing else.    *)
LEMMA OneFrame ==
    ASSUME NEW F \in Seq(Octet), Len(F) >= 5, F[1] = START,
           DataLength(F) \in 1..MAX_FRAME, Total(F) = Len(F)
    PROVE  Walk(decrypt(encrypt(F))).frames = <<makeFrame(F)>>
<1>2. /\ F \in Seq(Octet) /\ Len(F) \in Nat /\ Len(F) >= 5 /\ F[1] = START
      /\ DataLength(F) \in 1..MAX_FRAME /\ Total(F) = Len(F)
  OBVIOUS
<1>3. PICK z \in Nat : decrypt(encrypt(F)) = F \o Zeros(z)
  BY <1>2, EncryptDecrypt
<1>4. PICK x, Z : x = F \o Zeros(z) /\ Z = Zeros(z)
  OBVIOUS
<1>5. Z \in Seq(Octet) /\ Len(Z) = z
  BY <1>4, Padding
<1>6. /\ x \in Seq(Octet) /\ Len(x) = Len(F) + z
      /\ \A i \in 1..Len(F) : x[i] = F[i]
      /\ SubSeq(x, 1, Len(F)) = F
      /\ SubSeq(x, Len(F) + 1, Len(x)) = Z
  <2>1. x = F \o Z
    BY <1>4
  <2>2. x \in Seq(Octet) /\ Len(x) = Len(F) + z
    BY <1>5, <2>1, ConcatProperties
  <2>3. \A i \in 1..Len(F) : x[i] = F[i]
    BY <1>2, <1>5, <2>1
  <2>4. SubSeq(x, 1, Len(F)) = F
    BY <1>2, <1>5, <2>1
  <2>5. SubSeq(x, Len(F) + 1, Len(x)) = Z
    BY <1>2, <1>5, <2>1, <2>2
  <2> QED
    BY <2>2, <2>3, <2>4, <2>5
<1>7. PICK f : Walk(x) = f[0] /\ \A used \in 0..Len(x) : f[used] = Turn(x, f, used)
  BY <1>6, WalkDef
<1>8. Left(x, 0) = x /\ Left(x, Len(F)) = Z /\ 0 \in 0..Len(x) /\ Len(F) \in 0..Len(x)
  BY <1>2, <1>6, SubSeqFull DEF Left
<1>9. Whole(x) /\ Total(x) = Len(F)
  <2>1. x[1] = F[1] /\ x[2] = F[2] /\ x[3] = F[3] /\ Len(x) >= Len(F)
    BY <1>2, <1>6
  <2>2. DataLength(x) = DataLength(F) /\ Total(x) = Total(F)
    BY <2>1 DEF Total, DataLength
  <2> QED
    BY <1>2, <1>6, <2>1, <2>2 DEF Whole, Begins
<1>10. ~Whole(Z)
  <2>1. <<>> \in Seq(Octet) /\ Z \o <<>> = Zeros(z)
    BY <1>4, <1>5
  <2> QED
    BY <1>5, <2>1, PaddingDropped
<1>11. f[Len(F)].frames = <<>>
  <2>1. f[Len(F)] = Turn(x, f, Len(F))
    BY <1>7, <1>8
  <2>2. f[Len(F)] = [frames |-> <<>>, rest |-> IF Broken(Z) THEN <<>> ELSE Z]
    BY <1>8, <1>10, <2>1, Zenon DEF Turn
  <2> QED
    BY <2>2
<1>12. f[0].frames = <<makeFrame(F)>> \o <<>>
  <2>1. 0 + Total(x) = Len(F) /\ SubSeq(x, 1, Total(x)) = F
    BY <1>2, <1>6, <1>9
  <2>2. f[0] = Turn(x, f, 0)
    BY <1>7, <1>8
  <2>3. f[0] = [frames |-> <<makeFrame(SubSeq(x, 1, Total(x)))>> \o f[0 + Total(x)].frames,
                rest |-> f[0 + Total(x)].rest]
    BY <1>8, <1>9, <2>2, Zenon DEF Turn
  <2>4. f[0] = [frames |-> <<makeFrame(F)>> \o <<>>, rest |-> f[Len(F)].rest]
    BY <1>11, <2>1, <2>3
  <2> QED
    BY <2>4
<1>13. <<makeFrame(F)>> \o <<>> = <<makeFrame(F)>>
  OBVIOUS
<1> QED
  BY <1>3, <1>4, <1>7, <1>12, <1>13

(* The frame that is read holds the command, a CRC that is right, and the   *)
(* body.                                                                    *)
LEMMA FrameReads ==
    ASSUME NEW command \in Byte, NEW body \in Seq(Byte), Len(body) + 2 <= MAX_FRAME,
           NEW F, F = Framed(command, body)
    PROVE  /\ makeFrame(F).command = command /\ makeFrame(F).crcValid
           /\ Body(makeFrame(F).raw) = body
<1>1. Encloses(F, command, body)
  BY FramedIs
<1>2. Len(body) \in Nat /\ F \in Seq(Octet) /\ Len(F) = Len(body) + 5
  BY <1>1 DEF Encloses
<1>3. SubSeq(F, 5, Len(F) - 1) = body
  <2>1. Len(F) - 1 = Len(body) + 4 /\ \A i \in 1..Len(body) : F[i + 4] = body[i]
    BY <1>1, <1>2 DEF Encloses
  <2> QED
    BY <1>2, <2>1
<1>4. makeFrame(F).command = F[4] /\ makeFrame(F).raw = F
      /\ makeFrame(F).crcValid = (crc8(SubSeq(F, 4, DataLength(F) + 2)) = F[(DataLength(F) + 2) + 1])
  BY DEF makeFrame
<1>5. DataLength(F) + 2 = Len(body) + 4 /\ (DataLength(F) + 2) + 1 = Len(body) + 5
  BY <1>1, <1>2 DEF Encloses
<1> QED
  BY <1>1, <1>3, <1>4, <1>5 DEF Encloses, Body

LEMMA SuffixOf ==
    ASSUME NEW T, NEW s \in Seq(T), NEW t \in Seq(T)
    PROVE  IsSuffix(t, s \o t) /\ IsPrefix(s, s \o t)
<1>1. PICK u : u = s \o t
  OBVIOUS
<1>2. /\ u \in Seq(T) /\ Len(u) = Len(s) + Len(t) /\ Len(s) \in Nat /\ Len(t) \in Nat
      /\ \A i \in 1..Len(s) : u[i] = s[i]
      /\ \A i \in 1..Len(t) : u[Len(s) + i] = t[i]
  BY <1>1
<1>3. IsPrefix(s, u)
  BY <1>2 DEF IsPrefix
<1>4. PICK v, w : v = Reverse(t) /\ w = Reverse(u)
  OBVIOUS
<1>5. /\ v \in Seq(T) /\ Len(v) = Len(t) /\ w \in Seq(T) /\ Len(w) = Len(u)
      /\ \A i \in 1..Len(t) : v[i] = t[(Len(t) - i) + 1]
      /\ \A i \in 1..Len(u) : w[i] = u[(Len(u) - i) + 1]
  BY <1>2, <1>4 DEF Reverse
<1>6. ASSUME NEW i \in 1..Len(t) PROVE v[i] = w[i]
  <2>1. i \in 1..Len(u) /\ (Len(t) - i) + 1 \in 1..Len(t)
        /\ (Len(u) - i) + 1 = Len(s) + ((Len(t) - i) + 1)
    BY <1>2
  <2> QED
    BY <1>2, <1>5, <2>1
<1>7. SubSeq(v, 1, Len(v)) = SubSeq(w, 1, Len(v)) /\ Len(v) <= Len(w)
  BY <1>2, <1>5, <1>6
<1>8. IsPrefix(v, w)
  BY <1>7 DEF IsPrefix
<1> QED
  BY <1>1, <1>3, <1>4, <1>8 DEF IsSuffix

(* String(n).                                                               *)
LEMMA DigitsDef ==
    /\ Digits \in [Nat -> Seq(Digit)]
    /\ \A n \in Nat : Digits[n] = IF n < 10 THEN <<n>> ELSE Append(Digits[n \div 10], n % 10)
<1> DEFINE T == Seq(Digit)
           At(n, f) == IF n < 10 THEN <<n>> ELSE Append(f[n \div 10], n % 10)
<1>1. PICK step : step = [s \in Nat \X [Nat -> T] |-> At(s[1], s[2])]
  OBVIOUS
<1>2. ASSUME NEW n \in Nat, NEW f \in [Nat -> T]
      PROVE  At(n, f) \in T /\ step[<<n, f>>] = At(n, f)
  <2>1. n \div 10 \in Nat /\ n % 10 \in Digit /\ (n < 10 => n \in Digit)
    BY DEF Digit
  <2>2. At(n, f) \in T
    BY <2>1
  <2>3. <<n, f>> \in Nat \X [Nat -> T] /\ <<n, f>>[1] = n /\ <<n, f>>[2] = f
    OBVIOUS
  <2> QED
    BY <1>1, <2>2, <2>3
<1>3. Recursive(T, step)
  <2>1. step \in [Nat \X [Nat -> T] -> T]
    <3>1. ASSUME NEW s \in Nat \X [Nat -> T] PROVE At(s[1], s[2]) \in T
      <4>1. s[1] \in Nat /\ s[2] \in [Nat -> T]
        OBVIOUS
      <4> QED
        BY <1>2, <4>1
    <3> QED
      BY <1>1, <3>1
  <2>2. ASSUME NEW n \in Nat, NEW f \in [Nat -> T], NEW g \in [Nat -> T], Below(f, g, n)
        PROVE  At(n, f) = At(n, g)
    <3>1. n >= 10 => n \div 10 \in Nat /\ n \div 10 < n
      OBVIOUS
    <3> QED
      BY <2>2, <3>1 DEF Below
  <2> HIDE DEF At, T
  <2> QED
    BY <1>2, <2>1, <2>2 DEF Recursive
<1>4. <<>> \in T
  OBVIOUS
<1>5. PICK f \in [Nat -> T] : \A n \in Nat : f[n] = step[<<n, f>>]
  <2> HIDE DEF T
  <2> QED
    BY <1>3, <1>4, Recursion
<1>6. \A n \in Nat : f[n] = At(n, f)
  BY <1>2, <1>5
<1>7. f = [n \in Nat |-> At(n, f)]
  BY <1>5, <1>6
<1>8. Digits = [n \in Nat |-> At(n, Digits)]
  BY <1>7 DEF Digits
<1>9. \A n \in Nat : Digits[n] = At(n, Digits)
  <2> HIDE DEF At
  <2> QED
    BY <1>8
<1>10. Digits \in [Nat -> T]
  <2> DEFINE S == {k \in Nat : \A n \in Nat : n < k => Digits[n] \in T}
  <2>1. 0 \in S
    OBVIOUS
  <2>2. ASSUME NEW k \in Nat, k \in S PROVE k + 1 \in S
    <3>0. Digits[k] = At(k, Digits)
      BY <1>9
    <3>1. Digits[k] \in T
      <4>1. CASE k < 10
        <5>1. k \in Digit
          BY <4>1 DEF Digit
        <5>2. Digits[k] = <<k>>
          BY <3>0, <4>1, Zenon
        <5> QED
          BY <5>1, <5>2
      <4>2. CASE k >= 10
        <5>1. k \div 10 \in Nat /\ k \div 10 < k /\ k % 10 \in Digit
          BY <4>2 DEF Digit
        <5>2. Digits[k \div 10] \in T
          BY <2>2, <5>1
        <5>3. Digits[k] = Append(Digits[k \div 10], k % 10)
          <6>1. ~(k < 10)
            BY <4>2
          <6> QED
            BY <3>0, <6>1, Zenon
        <5> QED
          BY <5>1, <5>2, <5>3
      <4> QED
        BY <4>1, <4>2
    <3>2. \A n \in Nat : n < k + 1 => n < k \/ n = k
      OBVIOUS
    <3> QED
      BY <2>2, <3>1, <3>2
  <2> HIDE DEF S
  <2>3. \A k \in Nat : k \in S
    BY <2>1, <2>2, Induction
  <2>4. ASSUME NEW n \in Nat PROVE Digits[n] \in T
    <3>1. n + 1 \in S /\ n < n + 1
      BY <2>3
    <3> QED
      BY <3>1 DEF S
  <2>5. Digits = [n \in Nat |-> Digits[n]]
    <3> HIDE DEF At
    <3> QED
      BY <1>8
  <2> QED
    BY <2>4, <2>5
<1> QED
  BY <1>9, <1>10

(* Number(text), digit by digit.                                            *)
Values(text) ==
    {f \in [0..Len(text) -> Nat] :
        f[0] = 0 /\ \A n \in 1..Len(text) : f[n] = 10 * f[n - 1] + text[n]}

LEMMA NumberDef ==
    ASSUME NEW text \in Seq(Digit)
    PROVE  \E f \in Values(text) : Number(text) = f[Len(text)]
<1>0. PICK L, T : L = Len(text) /\ T = Nat
  OBVIOUS
<1>1. L \in Nat /\ \A n \in 1..L : text[n] \in Nat
  BY <1>0 DEF Digit
<1> DEFINE At(n, f) == IF n = 0 THEN 0 ELSE 10 * f[n - 1] + text[n]
           Bound(n, f) == IF n \in 0..L THEN At(n, f) ELSE 0
<1>2. PICK step : step = [s \in Nat \X [Nat -> T] |-> Bound(s[1], s[2])]
  OBVIOUS
<1>3. ASSUME NEW n \in Nat, NEW f \in [Nat -> T]
      PROVE  Bound(n, f) \in T /\ step[<<n, f>>] = Bound(n, f)
  <2>1. Bound(n, f) \in Nat
    <3>1. CASE n \in 1..L
      <4>1. PICK a, b : a = f[n - 1] /\ b = text[n]
        OBVIOUS
      <4>2. n - 1 \in Nat
        BY <3>1
      <4>3. a \in Nat /\ b \in Nat
        BY <1>0, <1>1, <3>1, <4>1, <4>2
      <4>4. n \in 0..L /\ n # 0
        BY <1>1, <3>1
      <4>5. Bound(n, f) = 10 * a + b
        BY <4>1, <4>4, Zenon
      <4> HIDE DEF Bound
      <4> QED
        BY <4>3, <4>5
    <3>2. CASE n \notin 1..L
      <4>1. n \in 0..L => n = 0
        BY <1>1, <3>2
      <4>2. Bound(n, f) = 0
        BY <4>1, Zenon
      <4> HIDE DEF Bound
      <4> QED
        BY <4>2
    <3> QED
      BY <3>1, <3>2
  <2>2. <<n, f>> \in Nat \X [Nat -> T] /\ <<n, f>>[1] = n /\ <<n, f>>[2] = f
    OBVIOUS
  <2>3. step[<<n, f>>] = Bound(n, f)
    <3> HIDE DEF Bound
    <3> QED
      BY <1>2, <2>2
  <2> HIDE DEF Bound
  <2> QED
    BY <1>0, <2>1, <2>3
<1>4. Recursive(T, step)
  <2>1. step \in [Nat \X [Nat -> T] -> T]
    <3>1. ASSUME NEW s \in Nat \X [Nat -> T] PROVE Bound(s[1], s[2]) \in T
      <4>1. s[1] \in Nat /\ s[2] \in [Nat -> T]
        OBVIOUS
      <4> HIDE DEF Bound
      <4> QED
        BY <1>3, <4>1
    <3> HIDE DEF Bound
    <3> QED
      BY <1>2, <3>1
  <2>2. ASSUME NEW n \in Nat, NEW f \in [Nat -> T], NEW g \in [Nat -> T], Below(f, g, n)
        PROVE  Bound(n, f) = Bound(n, g)
    <3>1. n # 0 => n - 1 \in Nat /\ n - 1 < n
      OBVIOUS
    <3>2. n # 0 => f[n - 1] = g[n - 1]
      BY <2>2, <3>1 DEF Below
    <3> QED
      BY <3>2, Zenon
  <2> HIDE DEF Bound
  <2>3. ASSUME NEW n \in Nat, NEW f \in [Nat -> T], NEW g \in [Nat -> T], Below(f, g, n)
        PROVE  step[<<n, f>>] = step[<<n, g>>]
    <3>1. step[<<n, f>>] = Bound(n, f) /\ step[<<n, g>>] = Bound(n, g)
      BY <1>3
    <3>2. Bound(n, f) = Bound(n, g)
      BY <2>2, <2>3
    <3> QED
      BY <3>1, <3>2
  <2> QED
    BY <2>1, <2>3 DEF Recursive
<1>5. PICK f \in [Nat -> T] : \A n \in Nat : f[n] = step[<<n, f>>]
  <2>1. PICK base \in T : base = 0
    BY <1>0
  <2> HIDE DEF Bound
  <2> QED
    BY <1>4, Recursion
<1>6. \A n \in 0..L : f[n] = At(n, f)
  <2> TAKE n \in 0..L
  <2>1. n \in Nat
    BY <1>1
  <2>2. f[n] = Bound(n, f)
    <3> HIDE DEF Bound
    <3> QED
      BY <1>3, <1>5, <2>1
  <2>3. Bound(n, f) = At(n, f)
    <3> HIDE DEF At
    <3> QED
      OBVIOUS
  <2> HIDE DEF At, Bound
  <2> QED
    BY <2>2, <2>3
<1>7. PICK g : g = [n \in 0..L |-> f[n]]
  OBVIOUS
<1>8. g = [n \in 0..L |-> At(n, g)]
  <2>1. ASSUME NEW n \in 0..L PROVE f[n] = At(n, g)
    <3>1. n # 0 => n - 1 \in 0..L
      BY <1>1
    <3>2. n # 0 => f[n - 1] = g[n - 1]
      BY <1>7, <3>1
    <3>3. f[n] = At(n, f)
      BY <1>6
    <3> QED
      BY <3>2, <3>3, Zenon
  <2> HIDE DEF At
  <2> QED
    BY <1>7, <2>1
<1>9. PICK v : v = [n \in 0..L |-> At(n, v)] /\ Number(text) = v[L]
  <2>1. PICK v : v = CHOOSE h : h = [n \in 0..L |-> At(n, h)]
    OBVIOUS
  <2>2. v = [n \in 0..L |-> At(n, v)]
    <3> HIDE DEF At
    <3> QED
      BY <1>8, <2>1
  <2>3. Number(text) = v[L]
    BY <1>0, <2>1 DEF Number
  <2> QED
    BY <2>2, <2>3
<1>10. \A n \in 0..L : v[n] = At(n, v)
  <2> HIDE DEF At
  <2> QED
    BY <1>9
<1> DEFINE S == {k \in Nat : k <= L => v[k] \in Nat}
<1>11. 0 \in S
  BY <1>1, <1>10
<1>12. ASSUME NEW k \in Nat, k \in S PROVE k + 1 \in S
  <2> SUFFICES ASSUME k + 1 <= L PROVE v[k + 1] \in Nat
    OBVIOUS
  <2>1. PICK a, b : a = v[k] /\ b = text[k + 1]
    OBVIOUS
  <2>2. k + 1 \in 1..L /\ k + 1 \in 0..L /\ (k + 1) - 1 = k /\ k + 1 # 0 /\ a \in Nat
    BY <1>1, <1>12, <2>1
  <2>3. b \in Nat
    BY <1>1, <2>1, <2>2
  <2>4. v[k + 1] = 10 * a + b
    <3>1. v[k + 1] = At(k + 1, v)
      <4> HIDE DEF At
      <4> QED
        BY <1>10, <2>2
    <3> QED
      BY <2>1, <2>2, <3>1, Zenon
  <2> QED
    BY <2>2, <2>3, <2>4
<1> HIDE DEF S
<1>13. \A k \in Nat : k \in S
  BY <1>11, <1>12, Induction
<1>14. v \in [0..L -> Nat]
  <2>1. \A k \in 0..L : v[k] \in Nat
    BY <1>1, <1>13 DEF S
  <2>2. v = [k \in 0..L |-> v[k]]
    <3> HIDE DEF At
    <3> QED
      BY <1>9
  <2> QED
    BY <2>1, <2>2
<1>15. v[0] = 0 /\ \A n \in 1..L : v[n] = 10 * v[n - 1] + text[n]
  BY <1>1, <1>10
<1> HIDE DEF At
<1> QED
  BY <1>0, <1>9, <1>14, <1>15 DEF Values

LEMMA NumberAppend ==
    ASSUME NEW s \in Seq(Digit), NEW d \in Digit
    PROVE  /\ Number(s) \in Nat /\ Number(<<>>) = 0
           /\ Number(Append(s, d)) = 10 * Number(s) + d
<1>1. <<>> \in Seq(Digit) /\ Len(<<>>) = 0
  OBVIOUS
<1>2. Number(<<>>) = 0
  BY <1>1, NumberDef DEF Values
<1>3. PICK t, L : t = Append(s, d) /\ L = Len(s)
  OBVIOUS
<1>4. /\ t \in Seq(Digit) /\ Len(t) = L + 1 /\ L \in Nat
      /\ t[L + 1] = d /\ \A n \in 1..L : t[n] = s[n]
  BY <1>3
<1>5. PICK f \in Values(s) : Number(s) = f[L]
  BY <1>3, NumberDef
<1>6. PICK g \in Values(t) : Number(t) = g[L + 1]
  BY <1>4, NumberDef
<1>7. /\ f \in [0..L -> Nat] /\ f[0] = 0
      /\ \A n \in 1..L : f[n] = 10 * f[n - 1] + s[n]
  BY <1>3 DEF Values
<1>8. g[0] = 0 /\ \A n \in 1..(L + 1) : g[n] = 10 * g[n - 1] + t[n]
  BY <1>4 DEF Values
<1> DEFINE S == {k \in Nat : k <= L => f[k] = g[k]}
<1>9. 0 \in S
  BY <1>7, <1>8
<1>10. ASSUME NEW k \in Nat, k \in S PROVE k + 1 \in S
  <2> SUFFICES ASSUME k + 1 <= L PROVE f[k + 1] = g[k + 1]
    OBVIOUS
  <2>1. k + 1 \in 1..L /\ k + 1 \in 1..(L + 1) /\ (k + 1) - 1 = k /\ f[k] = g[k]
    BY <1>4, <1>10
  <2>2. f[k + 1] = 10 * f[k] + s[k + 1] /\ g[k + 1] = 10 * g[k] + t[k + 1]
    BY <1>7, <1>8, <2>1
  <2> QED
    BY <1>4, <2>1, <2>2
<1> HIDE DEF S
<1>11. f[L] = g[L] /\ f[L] \in Nat
  <2>1. L \in S
    BY <1>4, <1>9, <1>10, Induction
  <2>2. L \in 0..L
    BY <1>4
  <2> QED
    BY <1>4, <1>7, <2>1, <2>2 DEF S
<1>12. g[L + 1] = 10 * g[L] + d
  <2>1. L + 1 \in 1..(L + 1) /\ (L + 1) - 1 = L
    BY <1>4
  <2> QED
    BY <1>4, <1>8, <2>1
<1> QED
  BY <1>2, <1>3, <1>5, <1>6, <1>11, <1>12

LEMMA ZerosAre ==
    ASSUME NEW z \in Nat
    PROVE  /\ Zeros(z) \in Seq(Digit) /\ Len(Zeros(z)) = z
           /\ Zeros(z) \o <<0>> = Zeros(z + 1)
<1>1. Zeros(z) \in Seq(Digit) /\ Len(Zeros(z)) = z /\ \A i \in 1..z : Zeros(z)[i] = 0
  BY DEF Zeros, Digit
<1>2. z + 1 \in Nat
  OBVIOUS
<1>3. Zeros(z + 1) \in Seq(Digit) /\ Len(Zeros(z + 1)) = z + 1
      /\ \A i \in 1..(z + 1) : Zeros(z + 1)[i] = 0
  BY <1>2 DEF Zeros, Digit
<1>4. PICK s, t : s = Zeros(z) \o <<0>> /\ t = Zeros(z + 1)
  OBVIOUS
<1>5. s \in Seq(Digit) /\ Len(s) = z + 1 /\ \A i \in 1..(z + 1) : s[i] = 0
  <2>1. <<0>> \in Seq(Digit) /\ Len(<<0>>) = 1 /\ <<0>>[1] = 0
    BY DEF Digit
  <2> QED
    BY <1>1, <1>4, <2>1
<1>6. s = t
  <2>1. \A i \in 1..Len(s) : s[i] = t[i]
    BY <1>3, <1>4, <1>5
  <2> QED
    BY <1>3, <1>4, <1>5, <2>1, SeqEqual
<1> QED
  BY <1>1, <1>4, <1>6

(* A string of digits is its number, padded with zeros.                     *)
PaddedBy(pin, n, D, z) ==
    /\ n = Number(pin) /\ D = Digits[n] /\ Len(D) >= 1
    /\ Len(pin) = z + Len(D)
    /\ pin = Zeros(z) \o D

Padded(pin) == \E n \in Nat, D \in Seq(Digit), z \in Nat : PaddedBy(pin, n, D, z)

LEMMA TenTimes ==
    ASSUME NEW n \in Nat, NEW d \in Nat, d < 10
    PROVE  /\ 10 * n + d \in Nat
           /\ (10 * n + d) \div 10 = n /\ (10 * n + d) % 10 = d
  OBVIOUS

LEMMA DigitsSmall ==
    ASSUME NEW n \in Nat, n < 10
    PROVE  Digits[n] = <<n>>
  BY DigitsDef, Zenon

LEMMA DigitsLarge ==
    ASSUME NEW n \in Nat, ~(n < 10)
    PROVE  Digits[n] = Append(Digits[n \div 10], n % 10)
  BY DigitsDef, Zenon

LEMMA PaddedOne ==
    ASSUME NEW d \in Digit
    PROVE  Padded(<<d>>)
<1>1. <<>> \in Seq(Digit) /\ Append(<<>>, d) = <<d>> /\ d \in Nat /\ d < 10 /\ 10 * 0 + d = d
  BY DEF Digit
<1>2. Number(<<d>>) = d
  BY <1>1, NumberAppend
<1>3. Digits[d] = <<d>>
  BY <1>1, DigitsSmall
<1>4. PICK s, t : s = Zeros(0) /\ t = <<d>>
  OBVIOUS
<1>5. t \in Seq(Digit) /\ Len(t) = 1 /\ Len(t) >= 1 /\ Len(t) = 0 + Len(t)
  BY <1>4
<1>6. s \in Seq(Digit) /\ Len(s) = 0
  BY <1>4, ZerosAre
<1>7. t = s \o t
  <2>1. s = <<>>
    BY <1>6
  <2> QED
    BY <1>5, <2>1
<1>8. PaddedBy(t, d, t, 0)
  BY <1>2, <1>3, <1>4, <1>5, <1>7 DEF PaddedBy
<1>9. 0 \in Nat
  OBVIOUS
<1> QED
  BY <1>1, <1>4, <1>5, <1>8, <1>9, Zenon DEF Padded

LEMMA Lengthened ==
    ASSUME NEW Z \in Seq(Digit), NEW D \in Seq(Digit), NEW d \in Digit
    PROVE  Append(Z \o D, d) = Z \o Append(D, d)
<1>1. PICK e : e = <<d>>
  OBVIOUS
<1>2. e \in Seq(Digit) /\ Append(D, d) = D \o e /\ Append(Z \o D, d) = (Z \o D) \o e
  BY <1>1
<1>3. (Z \o D) \o e = Z \o (D \o e)
  BY <1>2, ConcatAssociative
<1> QED
  BY <1>2, <1>3

LEMMA PaddedMore ==
    ASSUME NEW s \in Seq(Digit), NEW d \in Digit, Padded(s)
    PROVE  Padded(Append(s, d))
<1>1. PICK n \in Nat, D \in Seq(Digit), k \in Nat : PaddedBy(s, n, D, k)
  BY Zenon DEF Padded
<1>2. /\ n = Number(s) /\ D = Digits[n] /\ Len(D) >= 1
      /\ Len(s) = k + Len(D) /\ s = Zeros(k) \o D
  BY <1>1 DEF PaddedBy
<1>3. PICK Z, t, m : Z = Zeros(k) /\ t = Append(s, d) /\ m = 10 * n + d
  OBVIOUS
<1>4. Z \in Seq(Digit) /\ Len(Z) = k /\ Z \o <<0>> = Zeros(k + 1)
  BY <1>3, ZerosAre, Zenon
<1>4a. PICK lD, ls : lD = Len(D) /\ ls = Len(s)
  OBVIOUS
<1>4b. lD \in Nat /\ ls \in Nat /\ lD >= 1 /\ ls = k + lD
  <2>1. lD \in Nat /\ ls \in Nat
    BY <1>4a
  <2> QED
    BY <1>2, <1>4a, <2>1, Zenon
<1>5. t \in Seq(Digit) /\ Len(t) = Len(s) + 1
  BY <1>3, AppendProperties
<1>6. Number(t) = m
  BY <1>2, <1>3, NumberAppend
<1>7. d \in Nat /\ d < 10
  BY DEF Digit
<1>8. m \in Nat /\ m \div 10 = n /\ m % 10 = d
  BY <1>3, <1>7, TenTimes
<1>9. CASE n = 0
  <2>1. D = <<0>> /\ Len(D) = 1
    <3>1. D = <<0>>
      BY <1>2, <1>9, DigitsSmall
    <3> QED
      BY <3>1
  <2>2. m = d /\ Digits[m] = <<d>>
    <3>1. m = d
      BY <1>3, <1>7, <1>9
    <3> QED
      BY <1>7, <1>8, <3>1, DigitsSmall
  <2>3. s = Zeros(k + 1)
    BY <1>2, <1>3, <1>4, <2>1
  <2>4. PICK e : e = <<d>>
    OBVIOUS
  <2>5. t = s \o e /\ e \in Seq(Digit) /\ Len(e) = 1
    BY <1>3, <2>4
  <2>6. Len(t) = (k + 1) + Len(e) /\ Len(e) >= 1 /\ k + 1 \in Nat
    BY <1>2, <1>5, <2>1, <2>5
  <2>7. PaddedBy(t, m, e, k + 1)
    BY <1>6, <2>2, <2>3, <2>4, <2>5, <2>6 DEF PaddedBy
  <2> QED
    BY <1>3, <1>8, <2>5, <2>6, <2>7, Zenon DEF Padded
<1>10. CASE n # 0
  <2>1. ~(m < 10)
    BY <1>3, <1>7, <1>10
  <2>2. Digits[m] = Append(D, d)
    BY <1>2, <1>8, <2>1, DigitsLarge
  <2>3. PICK E : E = Append(D, d)
    OBVIOUS
  <2>4. E \in Seq(Digit) /\ Len(E) = Len(D) + 1
    BY <2>3, AppendProperties
  <2>5. Len(t) = k + Len(E) /\ Len(E) >= 1
    <3>1. Len(t) = ls + 1 /\ Len(E) = lD + 1
      BY <1>4a, <1>5, <2>4, Zenon
    <3> QED
      BY <1>4b, <3>1
  <2>6. t = Z \o E
    <3>1. Z \in Seq(Digit) /\ s = Z \o D
      BY <1>2, <1>3, <1>4
    <3> QED
      BY <1>3, <2>3, <3>1, Lengthened, Zenon
  <2>7. PaddedBy(t, m, E, k)
    BY <1>3, <1>6, <2>2, <2>3, <2>5, <2>6 DEF PaddedBy
  <2> QED
    BY <1>3, <1>8, <2>4, <2>7, Zenon DEF Padded
<1> QED
  BY <1>9, <1>10

LEMMA PinPadded == \A pin \in Seq(Digit) : Len(pin) >= 1 => Padded(pin)
<1> DEFINE S == {n \in Nat : \A pin \in Seq(Digit) : Len(pin) = n + 1 => Padded(pin)}
<1>1. 0 \in S
  <2>1. ASSUME NEW pin \in Seq(Digit), Len(pin) = 1 PROVE Padded(pin)
    <3>1. pin = <<pin[1]>> /\ pin[1] \in Digit
      BY <2>1
    <3> QED
      BY <3>1, PaddedOne
  <2> QED
    BY <2>1
<1>2. ASSUME NEW n \in Nat, n \in S PROVE n + 1 \in S
  <2>1. ASSUME NEW pin \in Seq(Digit), Len(pin) = n + 2 PROVE Padded(pin)
    <3>1. PICK s, d : s = SubSeq(pin, 1, n + 1) /\ d = pin[n + 2]
      OBVIOUS
    <3>2. s \in Seq(Digit) /\ Len(s) = n + 1 /\ d \in Digit
      BY <2>1, <3>1
    <3>3. pin = Append(s, d)
      BY <2>1, <3>1, <3>2
    <3>4. Padded(s)
      BY <1>2, <3>2
    <3> QED
      BY <3>2, <3>3, <3>4, PaddedMore
  <2>2. n + 1 \in Nat /\ (n + 1) + 1 = n + 2
    OBVIOUS
  <2> QED
    BY <2>1, <2>2
<1>3. \A n \in Nat : n \in S
  <2> HIDE DEF S
  <2> QED
    BY <1>1, <1>2, Induction
<1>4. ASSUME NEW pin \in Seq(Digit), Len(pin) >= 1 PROVE Padded(pin)
  <2>1. Len(pin) - 1 \in Nat /\ (Len(pin) - 1) + 1 = Len(pin)
    BY <1>4
  <2>2. Len(pin) - 1 \in S
    <3> HIDE DEF S
    <3> QED
      BY <1>3, <2>1
  <2> QED
    BY <2>1, <2>2
<1> QED
  BY <1>4

(* Four bytes hold what they are of.                                        *)
Joined(a, b, c, d) == a + 256 * b + 65536 * c + 16777216 * d
Small(n) == n < 268435456

LEMMA FourBytes ==
    ASSUME NEW n \in Nat
    PROVE  /\ Joined(LE32(n)[1], LE32(n)[2], LE32(n)[3], LE32(n)[4]) = n
           /\ LE32(n)[1] \in Byte /\ LE32(n)[2] \in Byte /\ LE32(n)[3] \in Byte
           /\ LE32(n)[4] \in Nat
           /\ Small(n) => LE32(n)[4] < 16
<1>1. LE32(n)[1] = n % 256 /\ LE32(n)[2] = (n \div 256) % 256
      /\ LE32(n)[3] = (n \div 65536) % 256 /\ LE32(n)[4] = n \div 16777216
  BY SMT DEF LE32
<1>2. n \div 65536 = (n \div 256) \div 256 /\ n \div 16777216 = ((n \div 256) \div 256) \div 256
  BY SMT
<1> QED
  BY <1>1, <1>2, SMT DEF Byte, Joined, Small

LEMMA PackedIs ==
    ASSUME NEW pin \in Pins
    PROVE  LET n == LE32(Number(pin))
           IN  Packed(pin) = <<n[1], n[2], n[3], n[4] + 16 * Len(pin)>>
  BY SMT DEF Packed, LE32

(* The cloud's packed password, decoded.                                    *)
LEMMA PinIs ==
    ASSUME NEW pin \in Pins
    PROVE  /\ pin \in Seq(Digit) /\ Len(pin) \in 1..9 /\ Small(Number(pin))
           /\ \E D \in Seq(Digit), z \in Nat : PaddedBy(pin, Number(pin), D, z)
           /\ Number(pin) \in Nat
<1>1. pin \in Seq(Digit) /\ Len(pin) \in 1..9 /\ Small(Number(pin))
  BY DataChannelAssumption, SMT DEF Small
<1>2. Len(pin) >= 1
  <2>1. ASSUME NEW L \in 1..9 PROVE L >= 1
    OBVIOUS
  <2> QED
    BY <1>1, <2>1, Zenon
<1>3. Padded(pin)
  BY <1>1, <1>2, PinPadded, Zenon
<1>4. PICK n \in Nat, D \in Seq(Digit), z \in Nat : PaddedBy(pin, n, D, z)
  BY <1>3, Zenon DEF Padded
<1>5. n = Number(pin)
  BY <1>4 DEF PaddedBy
<1> QED
  BY <1>1, <1>4, <1>5, SMT

(* The cloud's packed password, decoded.                                    *)
LEMMA PinDecoded ==
    ASSUME NEW pin \in Pins
    PROVE  decodePassword(Packed(pin)) = pin
<1>1. PICK n : n = Number(pin)
  OBVIOUS
<1>2. PICK D \in Seq(Digit), z \in Nat : PaddedBy(pin, n, D, z)
  BY <1>1, PinIs, SMT
<1>3. PICK L, a, b, c, d : L = Len(pin)
         /\ a = LE32(n)[1] /\ b = LE32(n)[2] /\ c = LE32(n)[3] /\ d = LE32(n)[4]
  OBVIOUS
<1>4. n \in Nat /\ Small(n) /\ L \in 1..9
  BY <1>1, <1>3, PinIs, Zenon
<1>5. Joined(a, b, c, d) = n /\ d \in Nat /\ d < 16
  BY <1>3, <1>4, FourBytes, SMT
<1>6. Packed(pin) = <<a, b, c, d + 16 * L>>
  BY <1>1, <1>3, PackedIs
<1>7. PICK p : p = Packed(pin)
  OBVIOUS
<1>8. p[1] = a /\ p[2] = b /\ p[3] = c /\ p[4] = d + 16 * L
  BY <1>6, <1>7
<1>9. p[4] \div 16 = L /\ p[4] % 16 = d
  BY <1>4, <1>5, <1>8
<1>10. Joined(p[1], p[2], p[3], p[4] % 16) = n
  BY <1>5, <1>8, <1>9
<1>11. D = Digits[n] /\ L = z + Len(D) /\ pin = Zeros(z) \o D /\ Len(D) \in Nat
  BY <1>1, <1>2, <1>3 DEF PaddedBy
<1>12. decodePassword(p) = IF Len(D) < L THEN Zeros(L - Len(D)) \o D ELSE D
  BY <1>9, <1>10, <1>11, SMT DEF decodePassword, Joined
<1>13. L - Len(D) = z
  BY <1>11
<1>14. CASE Len(D) < L
  BY <1>7, <1>11, <1>12, <1>13, <1>14
<1>15. CASE ~(Len(D) < L)
  <2>1. z = 0
    BY <1>11, <1>15
  <2>2. Zeros(0) = <<>>
    BY DEF Zeros
  <2>3. pin = D
    BY <1>11, <2>1, <2>2
  <2> QED
    BY <1>7, <1>12, <1>15, <2>3
<1> QED
  BY <1>14, <1>15

(* The credential that is written is the lock's.                            *)
LEMMA CredentialIs ==
    ASSUME NEW uid \in Uids, NEW pin \in Pins
    PROVE  /\ encodeAuth(uid, pin) = LE32(uid) \o Packed(pin)
           /\ encodeAuth(uid, pin) \in Seq(Byte) /\ Len(encodeAuth(uid, pin)) = 8
<1>1. uid \in Nat
  BY DataChannelAssumption, SMT
<1>2. Len(pin) \in 1..9 /\ Number(pin) \in Nat /\ Small(Number(pin))
  BY PinIs, Zenon
<1>3. PICK n, L, a, b, c, d : n = Number(pin) /\ L = Len(pin)
         /\ a = LE32(n)[1] /\ b = LE32(n)[2] /\ c = LE32(n)[3] /\ d = LE32(n)[4]
  OBVIOUS
<1>4. a \in Byte /\ b \in Byte /\ c \in Byte /\ d \in 0..15 /\ L \in 1..9
  <2>1. a \in Byte /\ b \in Byte /\ c \in Byte /\ d \in Nat /\ d < 16
    BY <1>2, <1>3, FourBytes, Zenon
  <2>2. L \in 1..9
    BY <1>2, <1>3, Zenon
  <2>3. d \in 0..15
    BY <2>1
  <2> QED
    BY <2>1, <2>2, <2>3, Zenon
<1>5. Packed(pin) = <<a, b, c, d + 16 * L>>
  BY <1>3, PackedIs
<1>6. LE32(n) = <<a, b, c, d>>
  BY <1>3, SMT DEF LE32
<1>7. encodeAuth(uid, pin) = LE32(uid) \o <<a, b, c, or(L * 16, d) % 256>>
  <2>1. PICK number : number = LE32(Number(pin))
    OBVIOUS
  <2>2. [number EXCEPT ![4] = or(L * 16, @) % 256] = <<a, b, c, or(L * 16, d) % 256>>
    <3>1. number = <<a, b, c, d>>
      BY <1>3, <1>6, <2>1
    <3> QED
      BY <3>1
  <2>3. encodeAuth(uid, pin) = LE32(uid) \o [number EXCEPT ![4] = or(Len(pin) * 16, @) % 256]
    BY <2>1 DEF encodeAuth
  <2> QED
    BY <1>3, <2>2, <2>3
<1>8. or(L * 16, d) % 256 = d + 16 * L /\ d + 16 * L \in Byte
  <2>1. L \in 0..15 /\ L * 16 = 16 * L
    BY <1>4
  <2>2. or(16 * L, d) = 16 * L + d
    BY <1>4, <2>1, OrAssumption, Zenon
  <2>3. (16 * L + d) % 256 = d + 16 * L /\ d + 16 * L \in Byte
    BY <1>4 DEF Byte
  <2> QED
    BY <2>1, <2>2, <2>3
<1>9. PICK u, p : u = LE32(uid) /\ p = <<a, b, c, d + 16 * L>>
  OBVIOUS
<1>10. u \in Seq(Byte) /\ Len(u) = 4
  <2>1. PICK v, w, x, y : v = u[1] /\ w = u[2] /\ x = u[3] /\ y = u[4]
    OBVIOUS
  <2>2. v \in Byte /\ w \in Byte /\ x \in Byte
    BY <1>1, <1>9, <2>1, FourBytes, Zenon
  <2>3. y \in Byte
    BY <1>1, <1>9, <2>1, DataChannelAssumption, SMT DEF LE32
  <2>4. u = <<v, w, x, y>>
    BY <1>9, <2>1, SMT DEF LE32
  <2> QED
    BY <2>2, <2>3, <2>4
<1>11. p \in Seq(Byte) /\ Len(p) = 4
  BY <1>4, <1>8, <1>9
<1>12. u \o p \in Seq(Byte) /\ Len(u \o p) = 8
  <2>1. u \in Seq(Byte) /\ p \in Seq(Byte) /\ Len(u) = 4 /\ Len(p) = 4 /\ 4 + 4 = 8
    BY <1>10, <1>11
  <2>2. u \o p \in Seq(Byte) /\ Len(u \o p) = Len(u) + Len(p)
    BY <2>1, ConcatProperties, Zenon
  <2> QED
    BY <2>1, <2>2
<1> QED
  BY <1>5, <1>7, <1>8, <1>9, <1>12

(* What a request is: its body holds the credential, if any, and the data.  *)
Credential(uid, pin, auth) == IF auth THEN encodeAuth(uid, pin) ELSE <<>>

Asks(r, command, uid, pin, data, auth) ==
    /\ r.command = command /\ r.uid = uid /\ r.pin = pin /\ r.data = data /\ r.auth = auth
    /\ r.blocks = encrypt(Framed(command, Credential(uid, pin, auth) \o data))

Asked(r) ==
    \E command \in Commands, uid \in Uids, pin \in Pins, data \in Payloads, auth \in BOOLEAN :
        Asks(r, command, uid, pin, data, auth)

RequestMade == asked # None => Asked(asked)

LEMMA RequestMadeHolds == ChannelSpec => []RequestMade
<1>1. ChannelInit => RequestMade
  BY DEF ChannelInit, RequestMade
<1>2. RequestMade /\ [ChannelNext]_channel => RequestMade'
  <2> SUFFICES ASSUME RequestMade, [ChannelNext]_channel PROVE RequestMade'
    OBVIOUS
  <2>1. CASE Request
    <3>1. PICK command \in Commands, uid \in Uids, pin \in Pins, data \in Payloads, auth \in BOOLEAN :
              LET credential == [uid |-> uid, password |-> decodePassword(Packed(pin))]
                  request == buildRequest(command, credential, data, auth)
              IN  asked' = [command |-> command, uid |-> uid, pin |-> pin, data |-> data,
                            auth |-> auth, blocks |-> encrypt(request)]
      BY <2>1, Zenon DEF Request
    <3>2. PICK credential : credential = [uid |-> uid, password |-> decodePassword(Packed(pin))]
      OBVIOUS
    <3>3. credential.uid = uid /\ credential.password = pin
      BY <3>2, PinDecoded
    <3>4. buildRequest(command, credential, data, auth)
            = Framed(command, Credential(uid, pin, auth) \o data)
      BY <3>3, Zenon DEF buildRequest, Credential
    <3>5. asked' = [command |-> command, uid |-> uid, pin |-> pin, data |-> data, auth |-> auth,
                    blocks |-> encrypt(Framed(command, Credential(uid, pin, auth) \o data))]
      BY <3>1, <3>2, <3>4, Zenon
    <3>6. Asks(asked', command, uid, pin, data, auth)
      BY <3>5, Zenon DEF Asks
    <3>7. Asked(asked')
      BY <3>6, Zenon DEF Asked
    <3> QED
      BY <3>7 DEF RequestMade
  <2>2. CASE asked' = None \/ asked' = asked
    BY <2>2 DEF RequestMade
  <2> QED
    BY <2>1, <2>2 DEF ChannelNext, channel
<1> QED
  BY <1>1, <1>2, PTL DEF ChannelSpec

LEMMA SuffixEnds ==
    ASSUME NEW s \in Seq(Byte), NEW t \in Seq(Byte)
    PROVE  /\ s \o t \in Seq(Byte) /\ Len(s \o t) = Len(s) + Len(t)
           /\ IsSuffix(t, s \o t) /\ IsPrefix(s, s \o t)
  BY SuffixOf, ConcatProperties, Zenon

LEMMA CredentialTyped ==
    ASSUME NEW uid \in Uids, NEW pin \in Pins, NEW auth \in BOOLEAN
    PROVE  /\ Credential(uid, pin, auth) \in Seq(Byte)
           /\ Len(Credential(uid, pin, auth)) = IF auth THEN 8 ELSE 0
<1>1. CASE auth
  BY <1>1, CredentialIs DEF Credential
<1>2. CASE ~auth
  BY <1>2 DEF Credential
<1> QED
  BY <1>1, <1>2

(* What the lock makes of it.                                               *)
LEMMA RequestRead ==
    ASSUME NEW command \in Commands, NEW uid \in Uids, NEW pin \in Pins,
           NEW data \in Payloads, NEW auth \in BOOLEAN,
           Asks(asked, command, uid, pin, data, auth)
    PROVE  /\ Len(Read) = 1
           /\ Read[1].command = command
           /\ Read[1].crcValid
           /\ Body(Read[1].raw) = Credential(uid, pin, auth) \o data
<1>1. PICK C, b, F : C = Credential(uid, pin, auth) /\ b = C \o data /\ F = Framed(command, b)
  OBVIOUS
<1>2. C \in Seq(Byte) /\ Len(C) <= 8 /\ Len(C) \in Nat
  BY <1>1, CredentialTyped
<1>3. data \in Seq(Byte) /\ Len(data) + 10 <= MAX_FRAME /\ MAX_FRAME \in Nat
  <2>1. data \in Seq(Byte) /\ MAX_FRAME \in Nat
    BY FrameStreamAssumption
  <2>2. Len(data) + 10 <= MAX_FRAME
    BY DataChannelAssumption, SMT
  <2> QED
    BY <2>1, <2>2
<1>4. b \in Seq(Byte) /\ Len(b) = Len(C) + Len(data)
  BY <1>1, <1>2, <1>3, SuffixEnds, Zenon
<1>5. Len(b) + 2 <= MAX_FRAME /\ Len(b) \in Nat
  <2>1. PICK x, y, z : x = Len(C) /\ y = Len(data) /\ z = Len(b)
    OBVIOUS
  <2>2. x \in Nat /\ x <= 8 /\ z = x + y
    BY <1>2, <1>4, <2>1, Zenon
  <2>3. y \in Nat /\ y + 10 <= MAX_FRAME
    BY <1>3, <2>1
  <2>4. z \in Nat /\ z + 2 <= MAX_FRAME
    BY <1>3, <2>2, <2>3
  <2> QED
    BY <2>1, <2>4
<1>6. command \in Byte
  BY FrameStreamAssumption
<1>7. Encloses(F, command, b)
  BY <1>1, <1>4, <1>5, <1>6, FramedIs, Zenon
<1>8. /\ F \in Seq(Octet) /\ Len(F) >= 5 /\ F[1] = START
      /\ DataLength(F) \in 1..MAX_FRAME /\ Total(F) = Len(F)
  <2>1. Len(F) = Len(b) + 5
    BY <1>7 DEF Encloses
  <2>2. Len(F) >= 5
    BY <1>5, <2>1
  <2> QED
    BY <1>7, <2>2, Zenon DEF Encloses
<1>9. Walk(decrypt(encrypt(F))).frames = <<makeFrame(F)>>
  BY <1>8, OneFrame, Zenon
<1>10. /\ makeFrame(F).command = command /\ makeFrame(F).crcValid
       /\ Body(makeFrame(F).raw) = b
  BY <1>1, <1>4, <1>5, <1>6, FrameReads, Zenon
<1>11. Read = <<makeFrame(F)>>
  BY <1>1, <1>9, Zenon DEF Read, Asks
<1>12. Len(Read) = 1 /\ Read[1] = makeFrame(F)
  BY <1>11
<1> QED
  BY <1>1, <1>10, <1>12, Zenon

(* Whatever the request, with or without a credential: the lock finds one   *)
(* packet in it, with the command, a CRC that is right and the data at the  *)
(* end of a body of the right length.                                       *)
THEOREM LockUnderstandsRequest == ChannelSpec => []RequestUnderstood
<1>1. RequestMade => RequestUnderstood
  <2> SUFFICES ASSUME Asked(asked) PROVE RequestUnderstood
    BY DEF RequestMade, RequestUnderstood
  <2>1. PICK command \in Commands, uid \in Uids, pin \in Pins, data \in Payloads, auth \in BOOLEAN :
            Asks(asked, command, uid, pin, data, auth)
    BY Zenon DEF Asked
  <2>2. /\ Len(Read) = 1 /\ Read[1].command = command /\ Read[1].crcValid
        /\ Body(Read[1].raw) = Credential(uid, pin, auth) \o data
    BY <2>1, RequestRead, Zenon
  <2>3. asked.command = command /\ asked.data = data /\ asked.auth = auth
    BY <2>1 DEF Asks
  <2>4. PICK C, b : C = Credential(uid, pin, auth) /\ b = C \o data
    OBVIOUS
  <2>5. C \in Seq(Byte) /\ Len(C) = IF auth THEN 8 ELSE 0
    BY <2>4, CredentialTyped, Zenon
  <2>6. data \in Seq(Byte)
    BY FrameStreamAssumption
  <2>7. IsSuffix(data, b) /\ Len(b) = Len(C) + Len(data)
    BY <2>4, <2>5, <2>6, SuffixEnds, Zenon
  <2>8. Len(C) + Len(data) = Len(data) + Len(C)
    <3>1. Len(C) \in Nat /\ Len(data) \in Nat
      BY <2>5, <2>6
    <3> QED
      BY <3>1
  <2>9. Len(b) = Len(data) + (IF auth THEN 8 ELSE 0)
    BY <2>5, <2>7, <2>8, Zenon
  <2>10. Body(Read[1].raw) = b
    BY <2>2, <2>4, Zenon
  <2> QED
    BY <2>2, <2>3, <2>7, <2>9, <2>10, Zenon DEF RequestUnderstood
<1> QED
  BY <1>1, RequestMadeHolds, PTL

(* The PIN that the cloud delivers packed reaches the lock as the lock has  *)
(* it, whatever its length and its leading zeros.                           *)
THEOREM PinReachesLock == ChannelSpec => []PinSurvives
<1>1. RequestMade => PinSurvives
  <2> SUFFICES ASSUME Asked(asked), asked.auth
               PROVE  IsPrefix(LE32(asked.uid) \o Packed(asked.pin), Body(Read[1].raw))
    BY DEF RequestMade, PinSurvives
  <2>1. PICK command \in Commands, uid \in Uids, pin \in Pins, data \in Payloads, auth \in BOOLEAN :
            Asks(asked, command, uid, pin, data, auth)
    BY Zenon DEF Asked
  <2>2. Body(Read[1].raw) = Credential(uid, pin, auth) \o data
    BY <2>1, RequestRead, Zenon
  <2>3. asked.uid = uid /\ asked.pin = pin /\ asked.auth = auth
    BY <2>1 DEF Asks
  <2>4. PICK C : C = encodeAuth(uid, pin)
    OBVIOUS
  <2>5. Credential(uid, pin, auth) = C
    BY <2>3, <2>4, Zenon DEF Credential
  <2>6. C = LE32(uid) \o Packed(pin) /\ C \in Seq(Byte)
    BY <2>4, CredentialIs, Zenon
  <2>7. data \in Seq(Byte)
    BY FrameStreamAssumption
  <2>8. IsPrefix(C, C \o data)
    BY <2>6, <2>7, SuffixEnds, Zenon
  <2> QED
    BY <2>2, <2>3, <2>5, <2>6, <2>8, Zenon
<1> QED
  BY <1>1, RequestMadeHolds, PTL

(* Beside its requests the channel is the stream, whose theorems are its.   *)
THEOREM ChannelIsStream == ChannelSpec => Spec
<1>1. ChannelInit => Init
  BY DEF ChannelInit
<1>2. [ChannelNext]_channel => [Next]_vars
  BY DEF ChannelNext, Next, Request, channel, vars
<1> QED
  BY <1>1, <1>2, PTL DEF ChannelSpec, Spec

-----------------------------------------------------------------------------
(* The curve: a group, if its arithmetic is one.                            *)

LEMMA PointsPlane ==
    /\ Points \subseteq Plane /\ Infinity \in Points /\ G \in Points
    /\ \A p \in Points : p # Infinity =>
          p \in [x : 0..(P - 1), y : 0..(P - 1)] /\ isOnCurve(p)
<1>1. P \in Nat
  BY CurveAssumption
<1>2. G \in Points
  BY CurveAssumption DEF G, Points
<1>3. Points \subseteq Plane
  BY <1>1 DEF Points, Plane, Infinity
<1> QED
  BY <1>2, <1>3 DEF Points

LEMMA PointsRegroup ==
    ASSUME Group
    PROVE  \A p, q, r \in Points : add(add(p, q), r) = add(p, add(q, r))
  BY DEF Group

LEMMA PointsAdd ==
    ASSUME Group, NEW p \in Points, NEW q \in Points
    PROVE  /\ add(p, q) \in Points /\ add(p, q) = add(q, p)
           /\ add(p, Infinity) = p /\ add(Infinity, p) = p
           /\ double(p) = add(p, p)
<1>1. add(p, q) \in Points /\ add(p, q) = add(q, p)
  BY Zenon DEF Group
<1>2. add(p, Infinity) = p /\ add(Infinity, p) = p
  BY Zenon DEF add
<1>3. double(p) = add(p, p)
  BY Zenon DEF add, double
<1> QED
  BY <1>1, <1>2, <1>3

(* A point, so many times.                                                  *)
Folds(p) ==
    {f \in [Nat -> Points] :
        f[0] = Infinity /\ \A n \in Nat : f[n + 1] = add(f[n], p)}

Times(n, p) == (CHOOSE f : f \in Folds(p))[n]

LEMMA TimesIs ==
    ASSUME Group, NEW p \in Points
    PROVE  /\ Times(0, p) = Infinity
           /\ \A n \in Nat : Times(n, p) \in Points /\ Times(n + 1, p) = add(Times(n, p), p)
<1>1. PICK next : next = [s \in Nat \X Points |-> add(s[2], p)]
  OBVIOUS
<1>2. /\ next \in [Nat \X Points -> Points]
      /\ \A n \in Nat, q \in Points : next[<<n, q>>] = add(q, p)
  <2>1. \A q \in Points : add(q, p) \in Points
    BY PointsAdd
  <2> QED
    BY <1>1, <2>1
<1>3. Infinity \in Points
  BY PointsPlane
<1>4. PICK f : f \in Iterates(Points, Infinity, next)
  BY <1>2, <1>3, Iterated
<1>5. f \in Folds(p)
  BY <1>2, <1>4 DEF Iterates, Folds
<1>6. PICK g : g = CHOOSE h : h \in Folds(p)
  OBVIOUS
<1>7. g \in Folds(p) /\ \A n : Times(n, p) = g[n]
  BY <1>5, <1>6, Zenon DEF Times
<1> QED
  BY <1>7 DEF Folds

LEMMA TimesPlus ==
    ASSUME Group, NEW p \in Points, NEW m \in Nat
    PROVE  \A n \in Nat : Times(m + n, p) = add(Times(m, p), Times(n, p))
<1> DEFINE S == {n \in Nat : Times(m + n, p) = add(Times(m, p), Times(n, p))}
<1>1. 0 \in S
  <2>1. m + 0 = m
    OBVIOUS
  <2>2. Times(m, p) = add(Times(m, p), Times(0, p))
    <3>1. PICK t : t = Times(m, p)
      OBVIOUS
    <3>2. t \in Points /\ Times(0, p) = Infinity
      BY <3>1, TimesIs
    <3> QED
      BY <3>1, <3>2, PointsAdd
  <2> QED
    BY <2>1, <2>2
<1>2. ASSUME NEW n \in Nat, n \in S PROVE n + 1 \in S
  <2>1. PICK a, b, c : a = Times(m, p) /\ b = Times(n, p) /\ c = Times(m + n, p)
    OBVIOUS
  <2>2. a \in Points /\ b \in Points /\ c = add(a, b)
    BY <1>2, <2>1, TimesIs
  <2>3. m + n \in Nat /\ (m + n) + 1 = m + (n + 1)
    OBVIOUS
  <2>4. Times(m + (n + 1), p) = add(c, p) /\ Times(n + 1, p) = add(b, p)
    BY <2>1, <2>3, TimesIs
  <2>5. add(add(a, b), p) = add(a, add(b, p))
    BY <2>2, PointsRegroup
  <2> QED
    BY <2>1, <2>2, <2>4, <2>5
<1> HIDE DEF S
<1>3. \A n \in Nat : n \in S
  BY <1>1, <1>2, Induction
<1> QED
  BY <1>3 DEF S

(* Two sums, added crosswise.                                              *)
Crosses(a, b, p, q) == add(add(a, b), add(p, q)) = add(add(a, p), add(b, q))

LEMMA PointsCross ==
    ASSUME Group, NEW a \in Points, NEW b \in Points, NEW p \in Points, NEW q \in Points
    PROVE  Crosses(a, b, p, q)
<1>1. add(p, q) \in Points /\ add(b, p) \in Points /\ add(b, q) \in Points
  BY PointsAdd, Zenon
<1>2. add(add(a, b), add(p, q)) = add(a, add(b, add(p, q)))
  BY <1>1, PointsRegroup
<1>3. add(b, add(p, q)) = add(add(b, p), q)
  BY PointsRegroup
<1>4. add(b, p) = add(p, b)
  BY PointsAdd, Zenon
<1>5. add(add(p, b), q) = add(p, add(b, q))
  BY PointsRegroup
<1>6. add(a, add(p, add(b, q))) = add(add(a, p), add(b, q))
  BY <1>1, PointsRegroup
<1> QED
  BY <1>2, <1>3, <1>4, <1>5, <1>6 DEF Crosses

LEMMA TimesOver ==
    ASSUME Group, NEW p \in Points, NEW q \in Points
    PROVE  \A n \in Nat : Times(n, add(p, q)) = add(Times(n, p), Times(n, q))
<1> DEFINE S == {n \in Nat : Times(n, add(p, q)) = add(Times(n, p), Times(n, q))}
<1>1. PICK r : r = add(p, q)
  OBVIOUS
<1>2. r \in Points
  BY <1>1, PointsAdd, Zenon
<1>3. 0 \in S
  <2>1. Times(0, r) = Infinity /\ Times(0, p) = Infinity /\ Times(0, q) = Infinity
    BY <1>2, TimesIs
  <2>2. add(Infinity, Infinity) = Infinity
    BY DEF add
  <2> QED
    BY <1>1, <2>1, <2>2
<1>4. ASSUME NEW n \in Nat, n \in S PROVE n + 1 \in S
  <2>1. PICK a, b, c : a = Times(n, p) /\ b = Times(n, q) /\ c = Times(n, r)
    OBVIOUS
  <2>2. a \in Points /\ b \in Points /\ c = add(a, b)
    BY <1>1, <1>4, <2>1, TimesIs
  <2>3. Times(n + 1, r) = add(c, r) /\ Times(n + 1, p) = add(a, p)
        /\ Times(n + 1, q) = add(b, q)
    BY <1>2, <2>1, TimesIs
  <2>4. add(add(a, b), add(p, q)) = add(add(a, p), add(b, q))
    <3>1. Crosses(a, b, p, q)
      BY <2>2, PointsCross, Zenon
    <3> QED
      BY <3>1 DEF Crosses
  <2> QED
    BY <1>1, <2>2, <2>3, <2>4
<1> HIDE DEF S
<1>5. \A n \in Nat : n \in S
  BY <1>3, <1>4, Induction
<1> QED
  BY <1>5 DEF S

LEMMA TimesInfinity ==
    ASSUME Group
    PROVE  \A n \in Nat : Times(n, Infinity) = Infinity
<1> DEFINE S == {n \in Nat : Times(n, Infinity) = Infinity}
<1>1. Infinity \in Points
  BY PointsPlane
<1>2. 0 \in S
  BY <1>1, TimesIs
<1>3. ASSUME NEW n \in Nat, n \in S PROVE n + 1 \in S
  <2>1. Times(n + 1, Infinity) = add(Infinity, Infinity)
    BY <1>1, <1>3, TimesIs
  <2>2. add(Infinity, Infinity) = Infinity
    BY DEF add
  <2> QED
    BY <2>1, <2>2
<1> HIDE DEF S
<1>4. \A n \in Nat : n \in S
  BY <1>2, <1>3, Induction
<1> QED
  BY <1>4 DEF S

(* The two sides' keys are the same point: a times b of it, in any order.   *)
LEMMA TimesCommute ==
    ASSUME Group, NEW p \in Points, NEW b \in Nat
    PROVE  \A a \in Nat : Times(a, Times(b, p)) = Times(b, Times(a, p))
<1> DEFINE S == {a \in Nat : Times(a, Times(b, p)) = Times(b, Times(a, p))}
<1>1. PICK q : q = Times(b, p)
  OBVIOUS
<1>2. q \in Points
  BY <1>1, TimesIs
<1>3. 0 \in S
  <2>1. Times(0, q) = Infinity /\ Times(0, p) = Infinity
    BY <1>2, TimesIs
  <2> QED
    BY <1>1, <2>1, TimesInfinity
<1>4. ASSUME NEW a \in Nat, a \in S PROVE a + 1 \in S
  <2>1. PICK c : c = Times(a, p)
    OBVIOUS
  <2>2. c \in Points /\ Times(a + 1, p) = add(c, p)
    BY <2>1, TimesIs
  <2>3. Times(a + 1, q) = add(Times(a, q), q)
    BY <1>2, TimesIs
  <2>4. Times(a, q) = Times(b, c)
    BY <1>1, <1>4, <2>1
  <2>5. Times(b, add(c, p)) = add(Times(b, c), Times(b, p))
    BY <2>2, TimesOver, Zenon
  <2> QED
    BY <1>1, <2>2, <2>3, <2>4, <2>5
<1> HIDE DEF S
<1>5. \A a \in Nat : a \in S
  BY <1>3, <1>4, Induction
<1> QED
  BY <1>5 DEF S

(* The ladder's rungs.                                                      *)
Rung(n, f) ==
    [result \in Plane |-> [addend \in Plane |->
        IF n = 0 THEN result
        ELSE f[n \div 2][IF n % 2 = 1 THEN add(result, addend) ELSE result][double(addend)]]]

LEMMA RungBelow ==
    ASSUME NEW n \in Nat, NEW f, NEW g, \A i \in Nat : i < n => f[i] = g[i]
    PROVE  Rung(n, f) = Rung(n, g)
<1>1. n # 0 => n \div 2 \in Nat /\ n \div 2 < n
  OBVIOUS
<1>2. n # 0 => f[n \div 2] = g[n \div 2]
  BY <1>1
<1>3. CASE n = 0
  BY <1>3, Zenon DEF Rung
<1>4. CASE n # 0
  <2>1. PICK h : h = f[n \div 2] /\ h = g[n \div 2]
    BY <1>2, <1>4
  <2> QED
    BY <2>1, Zenon DEF Rung
<1> QED
  BY <1>3, <1>4

LEMMA LaddersExist ==
    \A n \in Nat : \E f : f = [s \in 0..n |-> f[s]] /\ \A s \in 0..n : f[s] = Rung(s, f)
<1> DEFINE Good(n, f) == f = [s \in 0..n |-> f[s]] /\ \A s \in 0..n : f[s] = Rung(s, f)
           S == {n \in Nat : \E f : Good(n, f)}
<1>1. 0 \in S
  <2>1. PICK f : f = [s \in 0..0 |-> Rung(0, <<>>)]
    OBVIOUS
  <2>2. \A s \in 0..0 : s = 0
    OBVIOUS
  <2>3. Rung(0, <<>>) = Rung(0, f)
    BY RungBelow
  <2>4. \A s \in 0..0 : f[s] = Rung(s, f)
    BY <2>1, <2>2, <2>3
  <2>5. f = [s \in 0..0 |-> f[s]]
    BY <2>1
  <2>6. Good(0, f)
    BY <2>4, <2>5
  <2> HIDE DEF Good
  <2> QED
    BY <2>6
<1>2. ASSUME NEW n \in Nat, n \in S PROVE n + 1 \in S
  <2>1. PICK f : Good(n, f)
    BY <1>2
  <2>2. PICK r : r = Rung(n + 1, f)
    OBVIOUS
  <2>3. PICK g : g = [s \in 0..(n + 1) |-> IF s = n + 1 THEN r ELSE f[s]]
    OBVIOUS
  <2>4. g[n + 1] = r /\ \A s \in 0..n : g[s] = f[s]
    BY <2>3
  <2>5. ASSUME NEW s \in 0..(n + 1) PROVE g[s] = Rung(s, g)
    <3>1. s \in Nat /\ n + 1 \in Nat /\ (s # n + 1 => s \in 0..n)
      OBVIOUS
    <3>2. \A i \in Nat : i < s => f[i] = g[i]
      BY <2>4
    <3>3. Rung(s, f) = Rung(s, g)
      BY <3>1, <3>2, RungBelow
    <3>4. CASE s = n + 1
      BY <2>2, <2>4, <3>3, <3>4
    <3>5. CASE s # n + 1
      BY <2>1, <2>4, <3>1, <3>3, <3>5
    <3> QED
      BY <3>4, <3>5
  <2>6. g = [s \in 0..(n + 1) |-> g[s]]
    BY <2>3
  <2>7. Good(n + 1, g) /\ n + 1 \in Nat
    BY <2>5, <2>6
  <2> HIDE DEF Good
  <2> QED
    BY <2>7
<1> HIDE DEF S
<1>3. \A n \in Nat : n \in S
  BY <1>1, <1>2, Induction
<1> QED
  BY <1>3 DEF S

LEMMA LadderDef == \A s \in 0..(N - 1) : Ladder[s] = Rung(s, Ladder)
<1>1. N - 1 \in Nat
  BY CurveAssumption
<1>2. PICK n : n = N - 1
  OBVIOUS
<1>3. PICK f : f = [s \in 0..n |-> f[s]] /\ \A s \in 0..n : f[s] = Rung(s, f)
  BY <1>1, <1>2, LaddersExist
<1>4. f = [s \in 0..n |-> Rung(s, f)]
  BY <1>3
<1>5. Ladder = [s \in 0..n |-> Rung(s, Ladder)]
  <2>1. f = [s \in 0..(N - 1) |-> Rung(s, f)]
    BY <1>2, <1>4, Zenon
  <2>2. PICK L : L = CHOOSE g : g = [s \in 0..(N - 1) |-> Rung(s, g)]
    OBVIOUS
  <2>3. Ladder = L
    BY <2>2, Zenon DEF Ladder, Rung
  <2>4. L = [s \in 0..(N - 1) |-> Rung(s, L)]
    BY <2>1, <2>2, Zenon
  <2> QED
    BY <1>2, <2>3, <2>4, Zenon
<1> QED
  BY <1>2, <1>5, Zenon

(* A rung adds the addend, times the scalar.                                *)
LEMMA LadderStep ==
    ASSUME Group, NEW s \in 0..(N - 1), NEW r \in Points, NEW a \in Points,
           s # 0 => \A p \in Points, q \in Points :
                        Ladder[s \div 2][p][q] = add(p, Times(s \div 2, q))
    PROVE  Ladder[s][r][a] = add(r, Times(s, a))
<1>1. Ladder[s] = Rung(s, Ladder)
  BY LadderDef
<1>2. r \in Plane /\ a \in Plane
  BY PointsPlane
<1>3. CASE s = 0
  <2>1. Rung(s, Ladder)[r][a] = r
    BY <1>2, <1>3 DEF Rung
  <2>2. Times(s, a) = Infinity
    BY <1>3, TimesIs
  <2>3. add(r, Infinity) = r
    BY PointsAdd
  <2> QED
    BY <1>1, <2>1, <2>2, <2>3
<1>4. CASE s # 0
  <2>1. PICK h, b, p : h = s \div 2 /\ b = s % 2
                       /\ p = IF b = 1 THEN add(r, a) ELSE r
    OBVIOUS
  <2>2. h \in Nat /\ s = (h + h) + b /\ b \in {0, 1} /\ h + h \in Nat
    <3>1. s \in Nat
      BY CurveAssumption
    <3> QED
      BY <2>1, <3>1
  <2>3. p \in Points /\ add(a, a) \in Points /\ double(a) = add(a, a)
    BY <2>1, PointsAdd, Zenon
  <2>4. Rung(s, Ladder)[r][a] = Ladder[h][p][double(a)]
    BY <1>2, <1>4, <2>1 DEF Rung
  <2>5. Ladder[h][p][add(a, a)] = add(p, Times(h, add(a, a)))
    BY <1>4, <2>1, <2>3
  <2>6. PICK t, u : t = Times(h, a) /\ u = Times(h + h, a)
    OBVIOUS
  <2>7. t \in Points /\ u \in Points
    BY <2>2, <2>6, TimesIs
  <2>8. Times(h, add(a, a)) = u
    <3>1. Times(h, add(a, a)) = add(t, t)
      BY <2>2, <2>6, TimesOver
    <3>2. u = add(t, t)
      BY <2>2, <2>6, TimesPlus
    <3> QED
      BY <3>1, <3>2
  <2>9. Ladder[s][r][a] = add(p, u)
    BY <1>1, <2>3, <2>4, <2>5, <2>8
  <2>10. CASE b = 0
    <3>1. p = r /\ s = h + h
      BY <2>1, <2>2, <2>10
    <3> QED
      BY <2>6, <2>9, <3>1
  <2>11. CASE b = 1
    <3>1. p = add(r, a) /\ s = (h + h) + 1
      BY <2>1, <2>2, <2>11
    <3>2. Times(s, a) = add(u, a)
      BY <2>2, <2>6, <3>1, TimesIs
    <3>3. add(add(r, a), u) = add(r, add(a, u))
      BY <2>7, PointsRegroup
    <3>4. add(a, u) = add(u, a)
      BY <2>7, PointsAdd
    <3> QED
      BY <2>9, <3>1, <3>2, <3>3, <3>4
  <2> QED
    BY <2>2, <2>10, <2>11
<1> QED
  BY <1>3, <1>4

LEMMA LadderIs ==
    ASSUME Group
    PROVE  \A s \in 0..(N - 1) : \A r \in Points, a \in Points :
               Ladder[s][r][a] = add(r, Times(s, a))
<1> DEFINE Right(s) == \A r \in Points, a \in Points : Ladder[s][r][a] = add(r, Times(s, a))
           S == {n \in Nat : \A s \in 0..(N - 1) : s < n => Right(s)}
<1>0. N \in Nat
  BY CurveAssumption
<1>1. 0 \in S
  BY <1>0
<1>2. ASSUME NEW n \in Nat, n \in S PROVE n + 1 \in S
  <2>1. ASSUME NEW s \in 0..(N - 1), s < n + 1 PROVE Right(s)
    <3>1. CASE s < n
      BY <1>2, <3>1
    <3>2. CASE s = n
      <4>1. s # 0 => s \div 2 \in 0..(N - 1) /\ s \div 2 < n
        BY <1>0, <3>2
      <4>2. s # 0 => Right(s \div 2)
        <5> HIDE DEF Right
        <5> QED
          BY <1>2, <4>1
      <4>3. ASSUME NEW r \in Points, NEW a \in Points
            PROVE  Ladder[s][r][a] = add(r, Times(s, a))
        BY <4>2, LadderStep
      <4> QED
        BY <4>3
    <3> QED
      BY <1>0, <2>1, <3>1, <3>2
  <2> HIDE DEF Right
  <2> QED
    BY <2>1
<1> HIDE DEF S
<1>3. \A n \in Nat : n \in S
  BY <1>1, <1>2, Induction
<1>4. ASSUME NEW s \in 0..(N - 1) PROVE Right(s)
  <2>1. s \in Nat /\ s + 1 \in Nat /\ s < s + 1
    BY <1>0
  <2>2. s + 1 \in S
    BY <1>3, <2>1
  <2> HIDE DEF Right
  <2> QED
    BY <2>1, <2>2 DEF S
<1> QED
  BY <1>4

(* multiply() is repeated addition.                                         *)
LEMMA MultiplyIs ==
    ASSUME Group, NEW k \in PrivateKeys, NEW p \in Points
    PROVE  multiply(k, p) = Times(k, p) /\ multiply(k, p) \in Points
<1>1. N \in Nat /\ k \in Nat /\ k % N = k /\ k # 0 /\ k \in 0..(N - 1)
  BY CurveAssumption DEF PrivateKeys
<1>2. CASE p = Infinity
  BY <1>1, <1>2, TimesInfinity, PointsPlane DEF multiply
<1>3. CASE p # Infinity
  <2>1. multiply(k, p) = Ladder[k][Infinity][p]
    BY <1>1, <1>3 DEF multiply
  <2>2. Ladder[k][Infinity][p] = add(Infinity, Times(k, p))
    BY <1>1, LadderIs, PointsPlane
  <2>3. Times(k, p) \in Points
    BY <1>1, TimesIs
  <2>4. add(Infinity, Times(k, p)) = Times(k, p)
    BY <2>3, PointsAdd
  <2> QED
    BY <2>1, <2>2, <2>3, <2>4
<1> QED
  BY <1>2, <1>3

LEMMA PublicKeyIs ==
    ASSUME Group, NEW k \in PrivateKeys
    PROVE  /\ publicKey(k) = Times(k, G) /\ publicKey(k) \in Points
           /\ publicKey(k) # Infinity
<1>1. publicKey(k) # Infinity
  BY Zenon DEF Group
<1> QED
  BY <1>1, MultiplyIs, PointsPlane DEF publicKey

(* Two private keys make the same secret of each other's public keys.       *)
LEMMA SecretsMeet ==
    ASSUME Group, NEW a \in PrivateKeys, NEW b \in PrivateKeys
    PROVE  sharedSecret(a, publicKey(b)) = sharedSecret(b, publicKey(a))
<1>1. a \in Nat /\ b \in Nat
  BY CurveAssumption DEF PrivateKeys
<1>2. PICK A1, B1 : A1 = publicKey(a) /\ B1 = publicKey(b)
  OBVIOUS
<1>3. /\ A1 \in Points /\ A1 # Infinity /\ A1 = Times(a, G)
      /\ B1 \in Points /\ B1 # Infinity /\ B1 = Times(b, G)
  BY <1>2, PublicKeyIs
<1>4. isOnCurve(A1) /\ isOnCurve(B1)
  BY <1>3, PointsPlane
<1>5. multiply(a, B1) = multiply(b, A1)
  <2>1. multiply(a, B1) = Times(a, B1) /\ multiply(b, A1) = Times(b, A1)
    BY <1>3, MultiplyIs
  <2>2. Times(a, Times(b, G)) = Times(b, Times(a, G))
    BY <1>1, PointsPlane, TimesCommute
  <2> QED
    BY <1>3, <2>1, <2>2
<1> QED
  BY <1>2, <1>3, <1>4, <1>5, Zenon DEF sharedSecret

-----------------------------------------------------------------------------
(* Coordinates: bytes and back.                                             *)

LEMMA Division ==
    ASSUME NEW x \in Nat, NEW b \in Nat \ {0}
    PROVE  /\ x \div b \in Nat /\ x % b \in Nat
           /\ (x \div b) * b + (x % b) = x
           /\ \A m \in Nat : x < b * m => x \div b < m
<1>1. x \div b \in Nat /\ x % b \in Nat /\ (x \div b) * b + (x % b) = x
  BY SMT
<1>2. ASSUME NEW m \in Nat, x < b * m PROVE x \div b < m
  <2>1. PICK q, r : q = x \div b /\ r = x % b
    OBVIOUS
  <2>2. q \in Nat /\ r \in Nat /\ q * b + r = x
    BY <1>1, <2>1
  <2>3. q * b < b * m
    BY <1>2, <2>2
  <2>4. q < m
    BY <2>2, <2>3, SMT
  <2> QED
    BY <2>1, <2>4
<1> QED
  BY <1>1, <1>2

LEMMA PowerDef ==
    /\ Power \in [Nat -> Nat] /\ Power[0] = 1
    /\ \A n \in Nat : Power[n + 1] = BASE * Power[n]
<1>1. BASE \in Nat
  BY CurveAssumption
<1>2. PICK T, one, next : T = Nat /\ one = 1 /\ next = [s \in Nat \X T |-> BASE * s[2]]
  OBVIOUS
<1>3. one \in T /\ next \in [Nat \X T -> T] /\ \A n \in Nat, x \in T : next[<<n, x>>] = BASE * x
  BY <1>1, <1>2
<1>4. PICK f \in [Nat -> T] : f[0] = one /\ \A n \in Nat : f[n + 1] = next[<<n, f[n]>>]
  <2>1. PICK f : f \in Iterates(T, one, next)
    BY <1>3, Iterated
  <2> QED
    BY <2>1 DEF Iterates
<1> DEFINE At(n, g) == IF n = 0 THEN 1 ELSE BASE * g[n - 1]
<1>5. ASSUME NEW n \in Nat PROVE f[n] = At(n, f)
  <2>1. CASE n = 0
    BY <1>2, <1>4, <2>1
  <2>2. CASE n # 0
    <3>1. PICK m \in Nat : n = m + 1 /\ n - 1 = m
      <4>1. n - 1 \in Nat /\ (n - 1) + 1 = n
        BY <2>2
      <4> QED
        BY <4>1
    <3>2. f[m + 1] = BASE * f[m]
      BY <1>3, <1>4
    <3> QED
      BY <2>2, <3>1, <3>2
  <2> QED
    BY <2>1, <2>2
<1>6. f = [n \in Nat |-> At(n, f)]
  BY <1>4, <1>5
<1>7. Power = [n \in Nat |-> At(n, Power)]
  BY <1>6 DEF Power
<1>8. ASSUME NEW n \in Nat PROVE Power[n] = At(n, Power)
  <2> HIDE DEF At
  <2> QED
    BY <1>7
<1>9. Power[0] = 1
  BY <1>8
<1>10. ASSUME NEW n \in Nat PROVE Power[n + 1] = BASE * Power[n]
  <2>1. n + 1 \in Nat /\ n + 1 # 0 /\ (n + 1) - 1 = n
    OBVIOUS
  <2>2. Power[n + 1] = At(n + 1, Power)
    <3> HIDE DEF At
    <3> QED
      BY <1>8, <2>1
  <2> QED
    BY <2>1, <2>2, Zenon
<1> DEFINE S == {n \in Nat : Power[n] \in Nat}
<1>11. 0 \in S
  BY <1>9
<1>12. ASSUME NEW n \in Nat, n \in S PROVE n + 1 \in S
  <2>1. PICK x : x = Power[n]
    OBVIOUS
  <2>2. x \in Nat /\ Power[n + 1] = BASE * x
    BY <1>10, <1>12, <2>1
  <2> QED
    BY <1>1, <2>2
<1> HIDE DEF S
<1>13. \A n \in Nat : n \in S
  BY <1>11, <1>12, Induction
<1>14. Power = [n \in Nat |-> Power[n]]
  <2> HIDE DEF At
  <2> QED
    BY <1>7
<1>15. Power \in [Nat -> Nat]
  BY <1>13, <1>14 DEF S
<1> QED
  BY <1>9, <1>10, <1>15

(* A value, byte after byte.                                                *)
LEMMA ShiftDef ==
    ASSUME NEW value \in Nat
    PROVE  /\ Shift(value) \in [0..BYTES -> Nat] /\ Shift(value)[0] = value
           /\ \A n \in Nat : n < BYTES => Shift(value)[n + 1] = Shift(value)[n] \div BASE
<1>1. BASE \in Nat \ {0} /\ BYTES \in Nat
  BY CurveAssumption
<1>2. PICK T, next : T = Nat /\ next = [s \in Nat \X T |-> s[2] \div BASE]
  OBVIOUS
<1>3. value \in T /\ next \in [Nat \X T -> T]
      /\ \A n \in Nat, x \in T : next[<<n, x>>] = x \div BASE
  <2>1. \A x \in Nat : x \div BASE \in Nat
    BY <1>1, Division
  <2> QED
    BY <1>2, <2>1
<1>4. PICK f \in [Nat -> T] : f[0] = value /\ \A n \in Nat : f[n + 1] = next[<<n, f[n]>>]
  <2>1. PICK f : f \in Iterates(T, value, next)
    BY <1>3, Iterated
  <2> QED
    BY <2>1 DEF Iterates
<1> DEFINE At(n, g) == IF n = 0 THEN value ELSE g[n - 1] \div BASE
<1>5. ASSUME NEW n \in Nat PROVE f[n] = At(n, f)
  <2>1. CASE n = 0
    BY <1>4, <2>1
  <2>2. CASE n # 0
    <3>1. PICK m \in Nat : n = m + 1 /\ n - 1 = m
      <4>1. n - 1 \in Nat /\ (n - 1) + 1 = n
        BY <2>2
      <4> QED
        BY <4>1
    <3>2. f[m + 1] = f[m] \div BASE
      BY <1>3, <1>4
    <3> QED
      BY <2>2, <3>1, <3>2
  <2> QED
    BY <2>1, <2>2
<1>6. PICK g : g = [n \in 0..BYTES |-> f[n]]
  OBVIOUS
<1>7. g = [n \in 0..BYTES |-> At(n, g)]
  <2>1. ASSUME NEW n \in 0..BYTES PROVE f[n] = At(n, g)
    <3>1. n \in Nat /\ (n # 0 => n - 1 \in 0..BYTES)
      BY <1>1
    <3>2. n # 0 => f[n - 1] = g[n - 1]
      BY <1>6, <3>1
    <3>3. f[n] = At(n, f)
      BY <1>5, <3>1
    <3> QED
      BY <3>2, <3>3, Zenon
  <2> HIDE DEF At
  <2> QED
    BY <1>6, <2>1
<1>8. PICK v : v = CHOOSE h : h = [n \in 0..BYTES |-> At(n, h)]
  OBVIOUS
<1>9. v = [n \in 0..BYTES |-> At(n, v)]
  <2> HIDE DEF At
  <2> QED
    BY <1>7, <1>8
<1>10. Shift(value) = v
  BY <1>8, Zenon DEF Shift
<1>11. ASSUME NEW n \in 0..BYTES PROVE v[n] = At(n, v)
  <2> HIDE DEF At
  <2> QED
    BY <1>9
<1>12. v[0] = value
  BY <1>1, <1>11
<1>13. ASSUME NEW n \in Nat, n < BYTES PROVE v[n + 1] = v[n] \div BASE
  <2>1. n + 1 \in 0..BYTES /\ n + 1 # 0 /\ (n + 1) - 1 = n
    BY <1>1, <1>13
  <2>2. v[n + 1] = At(n + 1, v)
    <3> HIDE DEF At
    <3> QED
      BY <1>11, <2>1
  <2> QED
    BY <2>1, <2>2, Zenon
<1> DEFINE S == {n \in Nat : n <= BYTES => v[n] \in Nat}
<1>14. 0 \in S
  BY <1>12
<1>15. ASSUME NEW n \in Nat, n \in S PROVE n + 1 \in S
  <2> SUFFICES ASSUME n + 1 <= BYTES PROVE v[n + 1] \in Nat
    OBVIOUS
  <2>1. PICK x : x = v[n]
    OBVIOUS
  <2>2. n < BYTES /\ x \in Nat
    BY <1>1, <1>15, <2>1
  <2>3. v[n + 1] = x \div BASE
    BY <1>13, <2>1, <2>2
  <2> QED
    BY <1>1, <2>2, <2>3, Division
<1> HIDE DEF S
<1>16. \A n \in Nat : n \in S
  BY <1>14, <1>15, Induction
<1>17. v = [n \in 0..BYTES |-> v[n]]
  <2> HIDE DEF At
  <2> QED
    BY <1>9
<1>18. \A n \in 0..BYTES : v[n] \in Nat
  BY <1>1, <1>16 DEF S
<1>19. v \in [0..BYTES -> Nat]
  BY <1>17, <1>18
<1> QED
  BY <1>10, <1>12, <1>13, <1>19

(* Nothing is left of a coordinate after its last byte.                     *)
LEMMA ShiftEnds ==
    ASSUME NEW c \in Nat, c < Power[BYTES]
    PROVE  Shift(c)[BYTES] = 0
<1>1. BASE \in Nat \ {0} /\ BYTES \in Nat
  BY CurveAssumption
<1>2. PICK v : v = Shift(c)
  OBVIOUS
<1>3. /\ v \in [0..BYTES -> Nat] /\ v[0] = c
      /\ \A n \in Nat : n < BYTES => v[n + 1] = v[n] \div BASE
  BY <1>2, ShiftDef
<1> DEFINE S == {n \in Nat : n <= BYTES => v[n] < Power[BYTES - n]}
<1>4. 0 \in S
  <2>1. BYTES - 0 = BYTES
    BY <1>1
  <2> QED
    BY <1>3, <2>1
<1>5. ASSUME NEW n \in Nat, n \in S PROVE n + 1 \in S
  <2> SUFFICES ASSUME n + 1 <= BYTES PROVE v[n + 1] < Power[BYTES - (n + 1)]
    OBVIOUS
  <2>1. PICK x, m, y : x = v[n] /\ m = BYTES - (n + 1) /\ y = Power[m]
    OBVIOUS
  <2>2. n < BYTES /\ n \in 0..BYTES /\ m \in Nat /\ BYTES - n = m + 1
    BY <1>1, <2>1
  <2>3. x \in Nat /\ y \in Nat /\ Power[m + 1] = BASE * y
    BY <1>3, <2>1, <2>2, PowerDef
  <2>4. x < BASE * y
    BY <1>1, <1>5, <2>1, <2>2, <2>3
  <2>5. x \div BASE < y
    BY <1>1, <2>3, <2>4, Division
  <2> QED
    BY <1>3, <2>1, <2>2, <2>5
<1> HIDE DEF S
<1>6. \A n \in Nat : n \in S
  BY <1>4, <1>5, Induction
<1>7. BYTES \in S /\ BYTES <= BYTES
  BY <1>1, <1>6
<1>8. v[BYTES] < Power[BYTES - BYTES]
  BY <1>7 DEF S
<1>9. BYTES - BYTES = 0 /\ v[BYTES] \in Nat
  BY <1>1, <1>3
<1>10. v[BYTES] = 0
  BY <1>8, <1>9, PowerDef
<1> QED
  BY <1>2, <1>10

(* A coordinate survives its way over the air.                              *)
LEMMA CoordinateArrives ==
    ASSUME NEW c \in Nat, c < Power[BYTES]
    PROVE  fromLE(toLE(c)) = c
<1>1. BASE \in Nat \ {0} /\ BYTES \in Nat
  BY CurveAssumption
<1>2. PICK v, bytes : v = Shift(c) /\ bytes = toLE(c)
  OBVIOUS
<1>3. /\ v \in [0..BYTES -> Nat] /\ v[0] = c /\ v[BYTES] = 0
      /\ \A n \in Nat : n < BYTES => v[n + 1] = v[n] \div BASE
  BY <1>2, ShiftDef, ShiftEnds
<1>4. bytes = [i \in 1..BYTES |-> v[i - 1] % BASE]
  BY <1>2, Zenon DEF toLE
<1>5. Len(bytes) = BYTES
  BY <1>1, <1>4
<1> DEFINE At(n, g) == IF n = 0 THEN 0 ELSE g[n - 1] * BASE + bytes[BYTES - n + 1]
<1>6. PICK g : g = [n \in 0..BYTES |-> v[BYTES - n]]
  OBVIOUS
<1>7. ASSUME NEW n \in Nat, n < BYTES
      PROVE  v[BYTES - (n + 1)] = v[BYTES - n] * BASE + bytes[BYTES - (n + 1) + 1]
  <2>1. PICK m, x : m = BYTES - (n + 1) /\ x = v[m]
    OBVIOUS
  <2>2. m \in Nat /\ m < BYTES /\ m \in 0..BYTES /\ BYTES - n = m + 1
        /\ m + 1 \in 1..BYTES /\ (m + 1) - 1 = m
    BY <1>1, <1>7, <2>1
  <2>3. v[m + 1] = x \div BASE /\ x \in Nat
    BY <1>3, <2>1, <2>2
  <2>4. bytes[m + 1] = x % BASE
    BY <1>4, <2>1, <2>2
  <2>5. x = (x \div BASE) * BASE + (x % BASE)
    BY <1>1, <2>3, Division
  <2> QED
    BY <2>1, <2>2, <2>3, <2>4, <2>5, Zenon
<1>8. ASSUME NEW n \in 0..BYTES PROVE v[BYTES - n] = At(n, g)
  <2>1. CASE n = 0
    <3>1. BYTES - n = BYTES
      BY <1>1, <2>1
    <3> QED
      BY <1>3, <2>1, <3>1
  <2>2. CASE n # 0
    <3>1. PICK m \in Nat : n = m + 1 /\ n - 1 = m /\ m < BYTES /\ m \in 0..BYTES
      <4>1. n - 1 \in Nat /\ n = (n - 1) + 1 /\ n - 1 < BYTES /\ n - 1 \in 0..BYTES
        BY <1>1, <2>2
      <4> QED
        BY <4>1
    <3>2. g[m] = v[BYTES - m]
      BY <1>6, <3>1
    <3> QED
      BY <1>7, <2>2, <3>1, <3>2, Zenon
  <2> QED
    BY <2>1, <2>2
<1>9. g = [n \in 0..BYTES |-> At(n, g)]
  <2> HIDE DEF At
  <2> QED
    BY <1>6, <1>8
<1>10. PICK w : w = CHOOSE h : h = [n \in 0..BYTES |-> At(n, h)]
  OBVIOUS
<1>11. w = [n \in 0..BYTES |-> At(n, w)]
  <2> HIDE DEF At
  <2> QED
    BY <1>9, <1>10
<1>12. fromLE(bytes) = w[BYTES]
  BY <1>5, <1>10, Zenon DEF fromLE
<1> DEFINE S == {n \in Nat : n <= BYTES => w[n] = g[n]}
<1>13. ASSUME NEW n \in 0..BYTES PROVE w[n] = At(n, w) /\ g[n] = At(n, g)
  <2> HIDE DEF At
  <2> QED
    BY <1>9, <1>11
<1>14. 0 \in S
  <2>1. 0 \in 0..BYTES
    BY <1>1
  <2> QED
    BY <1>13, <2>1
<1>15. ASSUME NEW n \in Nat, n \in S PROVE n + 1 \in S
  <2> SUFFICES ASSUME n + 1 <= BYTES PROVE w[n + 1] = g[n + 1]
    OBVIOUS
  <2>1. n + 1 \in 0..BYTES /\ n + 1 # 0 /\ (n + 1) - 1 = n /\ n <= BYTES
    BY <1>1
  <2>2. w[n] = g[n]
    BY <1>15, <2>1
  <2>3. w[n + 1] = At(n + 1, w) /\ g[n + 1] = At(n + 1, g)
    <3> HIDE DEF At
    <3> QED
      BY <1>13, <2>1
  <2> QED
    BY <2>1, <2>2, <2>3, Zenon
<1> HIDE DEF S
<1>16. \A n \in Nat : n \in S
  BY <1>14, <1>15, Induction
<1>17. w[BYTES] = g[BYTES]
  BY <1>1, <1>16 DEF S
<1>18. g[BYTES] = c
  <2>1. BYTES \in 0..BYTES /\ BYTES - BYTES = 0
    BY <1>1
  <2> QED
    BY <1>3, <1>6, <2>1
<1> QED
  BY <1>2, <1>12, <1>17, <1>18

-----------------------------------------------------------------------------
(* The key agreement.                                                       *)

(* A point's coordinates survive together.                                  *)
LEMMA PointArrives ==
    ASSUME NEW p, p \in Garbage \/ (p \in Points /\ p # Infinity)
    PROVE  [x |-> fromLE(toLE(p.x)), y |-> fromLE(toLE(p.y))] = p
<1>1. P \in Nat /\ P <= Power[BYTES] /\ BYTES \in Nat /\ Power[BYTES] \in Nat
      /\ Abscissas \subseteq 0..(Power[BYTES] - 1)
  BY CurveAssumption, KeyExchangeAssumption, PowerDef
<1>2. PICK M : M = Power[BYTES]
  OBVIOUS
<1>3. p \in [x : 0..(M - 1), y : 0..(M - 1)]
  <2>1. CASE p \in Garbage
    BY <1>1, <1>2, <2>1 DEF Garbage
  <2>2. CASE p \in Points /\ p # Infinity
    BY <1>1, <1>2, <2>2, PointsPlane
  <2> QED
    BY <2>1, <2>2
<1>4. p.x \in Nat /\ p.x < Power[BYTES] /\ p.y \in Nat /\ p.y < Power[BYTES]
  BY <1>1, <1>2, <1>3
<1>5. fromLE(toLE(p.x)) = p.x /\ fromLE(toLE(p.y)) = p.y
  BY <1>4, CoordinateArrives
<1> QED
  BY <1>3, <1>5

LEMMA ShortSequences ==
    ASSUME NEW a, NEW b
    PROVE  /\ Append(<<>>, a) = <<a>> /\ Append(<<a>>, b) = <<a, b>>
           /\ Head(<<a>>) = a /\ Head(<<a, b>>) = a
           /\ Tail(<<a>>) = <<>> /\ Tail(<<a, b>>) = <<b>>
<1>1. PICK T : T = {a, b}
  OBVIOUS
<1>2. a \in T /\ b \in T
  BY <1>1
<1>3. <<a>> \in Seq(T) /\ <<a, b>> \in Seq(T) /\ Len(<<a>>) = 1 /\ Len(<<a, b>>) = 2
  BY <1>2
<1>4. Append(<<>>, a) = <<a>>
  OBVIOUS
<1>5. Append(<<a>>, b) = <<a, b>>
  <2>1. PICK s, t : s = Append(<<a>>, b) /\ t = <<a, b>>
    OBVIOUS
  <2>2. s \in Seq(T) /\ Len(s) = 2 /\ s[1] = a /\ s[2] = b
    BY <1>2, <1>3, <2>1
  <2>3. t \in Seq(T) /\ Len(t) = 2 /\ t[1] = a /\ t[2] = b
    BY <1>3, <2>1
  <2>4. \A i \in 1..Len(s) : s[i] = t[i]
    BY <2>2, <2>3
  <2> QED
    BY <2>1, <2>2, <2>3, <2>4, SeqEqual
<1>6. Head(<<a>>) = a /\ Head(<<a, b>>) = a
  OBVIOUS
<1>7. Tail(<<a>>) = <<>>
  OBVIOUS
<1>8. Tail(<<a, b>>) = <<b>>
  OBVIOUS
<1> QED
  BY <1>4, <1>5, <1>6, <1>7, <1>8

LEMMA ThirdAppended == \A a, b, c : Append(<<a, b>>, c) = <<a, b, c>>
<1> TAKE a, b, c
<1>1. PICK T : T = {a, b, c}
  OBVIOUS
<1>2. a \in T /\ b \in T /\ c \in T
  BY <1>1
<1>3. PICK s, t : s = Append(<<a, b>>, c) /\ t = <<a, b, c>>
  OBVIOUS
<1>4. s \in Seq(T) /\ Len(s) = 3 /\ s[1] = a /\ s[2] = b /\ s[3] = c
  BY <1>2, <1>3
<1>5. t \in Seq(T) /\ Len(t) = 3 /\ t[1] = a /\ t[2] = b /\ t[3] = c
  BY <1>2, <1>3
<1>6. \A i \in 1..Len(s) : s[i] = t[i]
  BY <1>4, <1>5
<1> QED
  BY <1>3, <1>4, <1>5, <1>6, SeqEqual

(* What is known of a connection that is up: of the attempt's phase, the    *)
(* private keys of both sides, what the lock has, what the attempt has      *)
(* received and the lock has still to send, and the key.                    *)
Untold(x, y, has, rec, sends, hon) ==
    /\ has = <<>> \/ has = <<x>> \/ has = <<x, y>>
    /\ rec = <<>> /\ sends = <<>> /\ hon

Sending(x, y, rec, sends) ==
    \/ sends = <<x, y>> /\ rec = <<>>
    \/ sends = <<y>> /\ (rec = <<>> \/ rec = <<x>>)
    \/ sends = <<>> /\ (rec = <<>> \/ rec = <<x>> \/ rec = <<y>> \/ rec = <<x, y>>)

Answer(p, lp, hon) == IF hon THEN p = publicKey(lp) ELSE p \in Garbage

Told(x, y, lp, has, rec, sends, hon) ==
    /\ has = <<x, y, <<>>>>
    /\ \E p : Answer(p, lp, hon) /\ Sending(toLE(p.x), toLE(p.y), rec, sends)

Connected(ph, x, y, me, lp, has, rec, sends, hon, k) ==
    /\ ph # "new"
    /\ ph = "subscribe" \/ ph = "writeX" => has = <<>>
    /\ ph = "writeY" => has = <<x>>
    /\ Untold(x, y, has, rec, sends, hon) \/ Told(x, y, lp, has, rec, sends, hon)
    /\ k # Failed => hon /\ has = <<x, y, <<>>>> /\ k = sharedSecret(me, publicKey(lp))

LEMMA ConnectedBegins ==
    ASSUME NEW x, NEW y, NEW me, NEW lp
    PROVE  Connected("subscribe", x, y, me, lp, <<>>, <<>>, <<>>, TRUE, Failed)
  BY DEF Connected, Untold

LEMMA ConnectedWrites ==
    ASSUME NEW x, NEW y, NEW me, NEW lp, NEW has, NEW rec, NEW sends, NEW hon \in BOOLEAN, NEW k
    PROVE  /\ Connected("subscribe", x, y, me, lp, has, rec, sends, hon, k)
                => Connected("writeX", x, y, me, lp, has, rec, sends, hon, k)
           /\ Connected("writeX", x, y, me, lp, has, rec, sends, hon, k)
                => Connected("writeY", x, y, me, lp, Append(has, x), rec, sends, hon, k)
           /\ Connected("writeY", x, y, me, lp, has, rec, sends, hon, k)
                => Connected("wait", x, y, me, lp, Append(has, y), rec, sends, hon, k)
<1>0. <<>> # <<x, y, <<>>>> /\ <<x>> # <<x, y, <<>>>>
  OBVIOUS
<1>1. /\ Append(<<>>, x) = <<x>> /\ Append(<<x>>, y) = <<x, y>>
      /\ <<>> # <<x, y, <<>>>> /\ <<x>> # <<x, y, <<>>>>
  BY <1>0, ShortSequences, Zenon
<1>2. Connected("subscribe", x, y, me, lp, has, rec, sends, hon, k)
        => Connected("writeX", x, y, me, lp, has, rec, sends, hon, k)
  BY DEF Connected
<1>3. ASSUME Connected("writeX", x, y, me, lp, has, rec, sends, hon, k)
      PROVE  Connected("writeY", x, y, me, lp, Append(has, x), rec, sends, hon, k)
  <2>1. has = <<>> /\ rec = <<>> /\ sends = <<>> /\ hon /\ k = Failed
    BY <1>1, <1>3 DEF Connected, Untold, Told
  <2> QED
    BY <1>1, <2>1, Zenon DEF Connected, Untold
<1>4. ASSUME Connected("writeY", x, y, me, lp, has, rec, sends, hon, k)
      PROVE  Connected("wait", x, y, me, lp, Append(has, y), rec, sends, hon, k)
  <2>1. has = <<x>> /\ rec = <<>> /\ sends = <<>> /\ hon /\ k = Failed
    BY <1>1, <1>4 DEF Connected, Untold, Told
  <2> QED
    BY <1>1, <2>1, Zenon DEF Connected, Untold
<1> QED
  BY <1>2, <1>3, <1>4

LEMMA ConnectedOver ==
    ASSUME NEW ph, NEW x, NEW y, NEW me, NEW lp, NEW has, NEW rec, NEW sends,
           NEW hon \in BOOLEAN, NEW k,
           Connected(ph, x, y, me, lp, has, rec, sends, hon, k)
    PROVE  Connected("over", x, y, me, lp, has, rec, sends, hon, k)
  BY DEF Connected

(* Both coordinates are there: they are the lock's, or make no key.         *)
LEMMA ConnectedAgrees ==
    ASSUME Group, NEW ph, NEW x, NEW y, NEW me \in PrivateKeys, NEW lp \in PrivateKeys,
           NEW has, NEW rec, NEW sends, NEW hon \in BOOLEAN, NEW k, NEW k2,
           Connected(ph, x, y, me, lp, has, rec, sends, hon, k), Len(rec) >= 2,
           k2 = sharedSecret(me, [x |-> fromLE(rec[1]), y |-> fromLE(rec[2])])
    PROVE  Connected("over", x, y, me, lp, has, rec, sends, hon, k2)
<1>1. rec # <<>> /\ (\A a : rec # <<a>>)
  OBVIOUS
<1>2. Told(x, y, lp, has, rec, sends, hon)
  BY <1>1 DEF Connected, Untold
<1>3. PICK p : Answer(p, lp, hon) /\ Sending(toLE(p.x), toLE(p.y), rec, sends)
  BY <1>2 DEF Told
<1>4. rec = <<toLE(p.x), toLE(p.y)>>
  BY <1>1, <1>3, Zenon DEF Sending
<1>5. rec[1] = toLE(p.x) /\ rec[2] = toLE(p.y)
  BY <1>4
<1>6. p \in Garbage \/ (p \in Points /\ p # Infinity)
  BY <1>3, PublicKeyIs, Zenon DEF Answer
<1>7. [x |-> fromLE(rec[1]), y |-> fromLE(rec[2])] = p
  BY <1>5, <1>6, PointArrives, Zenon
<1>8. k2 = sharedSecret(me, p)
  BY <1>7
<1>9. k2 # Failed => hon
  <2>1. ASSUME p \in Garbage PROVE k2 = Failed
    <3>1. ~isOnCurve(p)
      BY <2>1 DEF Garbage
    <3> QED
      BY <1>8, <3>1, Zenon DEF sharedSecret
  <2> QED
    BY <1>3, <2>1 DEF Answer
<1>10. k2 # Failed => k2 = sharedSecret(me, publicKey(lp))
  BY <1>3, <1>8, <1>9 DEF Answer
<1>11. has = <<x, y, <<>>>>
  BY <1>2 DEF Told
<1> QED
  BY <1>2, <1>9, <1>10, <1>11, Zenon DEF Connected

LEMMA ConnectedAnswers ==
    ASSUME NEW ph, NEW x, NEW y, NEW me, NEW lp, NEW has, NEW rec, NEW sends,
           NEW hon \in BOOLEAN, NEW k, NEW p, NEW hon2 \in BOOLEAN,
           Connected(ph, x, y, me, lp, has, rec, sends, hon, k),
           Len(has) = 2, Answer(p, lp, hon2)
    PROVE  Connected(ph, x, y, me, lp, Append(has, <<>>), rec, <<toLE(p.x), toLE(p.y)>>, hon2, k)
<1>1. has # <<>> /\ has # <<x>> /\ has # <<x, y, <<>>>>
  OBVIOUS
<1>2. has = <<x, y>> /\ rec = <<>> /\ k = Failed /\ ph # "new"
      /\ ph # "subscribe" /\ ph # "writeX" /\ ph # "writeY"
  BY <1>1, Zenon DEF Connected, Untold, Told
<1>3. Append(<<x, y>>, <<>>) = <<x, y, <<>>>>
  BY ThirdAppended
<1>4. Sending(toLE(p.x), toLE(p.y), rec, <<toLE(p.x), toLE(p.y)>>)
  BY <1>2, Zenon DEF Sending
<1>5. Told(x, y, lp, Append(has, <<>>), rec, <<toLE(p.x), toLE(p.y)>>, hon2)
  BY <1>2, <1>3, <1>4, Zenon DEF Told
<1> QED
  BY <1>2, <1>5, Zenon DEF Connected

LEMMA SendingOn ==
    ASSUME NEW x, NEW y, NEW rec, NEW sends, NEW rec2,
           Sending(x, y, rec, sends), sends # <<>>,
           rec2 = rec \/ rec2 = Append(rec, Head(sends))
    PROVE  Sending(x, y, rec2, Tail(sends))
<1>1. CASE sends = <<x, y>> /\ rec = <<>>
  <2>1. Head(sends) = x /\ Tail(sends) = <<y>> /\ Append(rec, x) = <<x>>
    BY <1>1
  <2> QED
    BY <1>1, <2>1, Zenon DEF Sending
<1>2. CASE sends = <<y>> /\ (rec = <<>> \/ rec = <<x>>)
  <2>1. Head(sends) = y /\ Tail(sends) = <<>> /\ Append(<<>>, y) = <<y>>
        /\ Append(<<x>>, y) = <<x, y>>
    BY <1>2, ShortSequences, Zenon
  <2> QED
    BY <1>2, <2>1, Zenon DEF Sending
<1> QED
  BY <1>1, <1>2, Zenon DEF Sending

LEMMA ConnectedNotifies ==
    ASSUME NEW ph, NEW x, NEW y, NEW me, NEW lp, NEW has, NEW rec, NEW sends,
           NEW hon \in BOOLEAN, NEW k, NEW rec2,
           Connected(ph, x, y, me, lp, has, rec, sends, hon, k), sends # <<>>,
           rec2 = rec \/ rec2 = Append(rec, Head(sends))
    PROVE  Connected(ph, x, y, me, lp, has, rec2, Tail(sends), hon, k)
<1>1. Told(x, y, lp, has, rec, sends, hon)
  BY DEF Connected, Untold
<1>2. PICK p : Answer(p, lp, hon) /\ Sending(toLE(p.x), toLE(p.y), rec, sends)
  BY <1>1 DEF Told
<1>3. Sending(toLE(p.x), toLE(p.y), rec2, Tail(sends))
  BY <1>2, SendingOn, Zenon
<1>4. Told(x, y, lp, has, rec2, Tail(sends), hon)
  BY <1>1, <1>2, <1>3, Zenon DEF Told
<1> QED
  BY <1>4, Zenon DEF Connected

Phases == {"new", "subscribe", "writeX", "writeY", "wait", "over"}

Known ==
    Connected(phase[current], toLE(publicKey(private[current]).x),
              toLE(publicKey(private[current]).y), private[current], lockPrivate,
              lockHas, received[current], lockSends, honest, key[current])

ExchangeTypes ==
    /\ current \in Attempts /\ link \in BOOLEAN /\ honest \in BOOLEAN
    /\ phase \in [Attempts -> Phases]
    /\ private \in [Attempts -> Keys] /\ lockPrivate \in Keys
    /\ received = [a \in Attempts |-> received[a]]
    /\ key = [a \in Attempts |-> key[a]]

(* Attempts to come have nothing.                                           *)
ToCome(c, ph, rec, k) ==
    \A a \in Attempts :
        /\ a > c => ph[a] = "new"
        /\ ph[a] = "new" => rec[a] = <<>> /\ k[a] = Failed

(* The types, that attempts to come have nothing, and, while the link is    *)
(* up, whose bytes are where.                                               *)
ExchangeInv ==
    /\ ExchangeTypes
    /\ ToCome(current, phase, received, key)
    /\ link => Known

LEMMA ExchangeInitially == ExchangeInit => ExchangeInv
<1> SUFFICES ASSUME ExchangeInit PROVE ExchangeInv
  OBVIOUS
<1>1. 1 \in Attempts
  BY KeyExchangeAssumption DEF Attempts
<1>2. ExchangeTypes
  BY <1>1 DEF ExchangeInit, ExchangeTypes, Phases
<1>3. ToCome(current, phase, received, key)
  BY DEF ExchangeInit, ToCome
<1> QED
  BY <1>2, <1>3 DEF ExchangeInit, ExchangeInv

LEMMA ExchangeBegin == ExchangeInv /\ Begin => ExchangeInv'
<1> SUFFICES ASSUME ExchangeInv, Begin PROVE ExchangeInv'
  OBVIOUS
<1>1. ExchangeTypes'
  BY DEF ExchangeInv, ExchangeTypes, Begin, Phases
<1>2. phase'[current] = "subscribe" /\ \A a \in Attempts : a # current => phase'[a] = phase[a]
  BY DEF ExchangeInv, ExchangeTypes, Begin
<1>3. ToCome(current, phase, received, key)'
  BY <1>2 DEF ExchangeInv, ExchangeTypes, Begin, ToCome, Attempts
<1>4. received[current] = <<>> /\ key[current] = Failed
  BY DEF ExchangeInv, ExchangeTypes, Begin, ToCome
<1>5. Known'
  BY <1>2, <1>4, ConnectedBegins DEF Known, Begin
<1> QED
  BY <1>1, <1>3, <1>5 DEF ExchangeInv

(* A step of the current attempt: its phase goes on.                        *)
LEMMA ExchangePhase ==
    ASSUME ExchangeInv, link, NEW to \in Phases \ {"new"},
           phase' = [phase EXCEPT ![current] = to],
           UNCHANGED <<current, link, private, received, lockPrivate, lockSends, honest>>,
           key' = [b \in Attempts |-> key'[b]],
           \A b \in Attempts : b # current => key'[b] = key[b]
    PROVE  /\ ExchangeTypes'
           /\ ToCome(current, phase, received, key)'
           /\ phase'[current] = to
<1>1. phase' \in [Attempts -> Phases] /\ phase'[current] = to
      /\ \A a \in Attempts : a # current => phase'[a] = phase[a]
  BY DEF ExchangeInv, ExchangeTypes
<1>2. ExchangeTypes'
  BY <1>1 DEF ExchangeInv, ExchangeTypes
<1>3. ToCome(current, phase, received, key)'
  BY <1>1 DEF ExchangeInv, ExchangeTypes, ToCome, Attempts
<1> QED
  BY <1>1, <1>2, <1>3

LEMMA ExchangeWrites ==
    ASSUME NEW a \in Attempts, ExchangeInv, Subscribed(a) \/ WriteX(a) \/ WriteY(a)
    PROVE  ExchangeInv'
<1>1. a = current /\ link /\ Known /\ honest \in BOOLEAN /\ key' = key
      /\ UNCHANGED <<current, link, private, received, lockPrivate, lockSends, honest>>
  BY DEF ExchangeInv, ExchangeTypes, Subscribed, WriteX, WriteY, Writes, lock
<1>2. key' = [b \in Attempts |-> key'[b]] /\ \A b \in Attempts : b # current => key'[b] = key[b]
  BY <1>1 DEF ExchangeInv, ExchangeTypes
<1>3. CASE Subscribed(a)
  <2>1. phase[current] = "subscribe" /\ phase' = [phase EXCEPT ![current] = "writeX"]
        /\ lockHas' = lockHas
    BY <1>1, <1>3 DEF Subscribed, lock
  <2>2. ExchangeTypes' /\ ToCome(current, phase, received, key)' /\ phase'[current] = "writeX"
    BY <1>1, <1>2, <2>1, ExchangePhase DEF Phases
  <2>3. Known'
    BY <1>1, <2>1, <2>2, ConnectedWrites DEF Known
  <2> QED
    BY <2>2, <2>3 DEF ExchangeInv
<1>4. CASE WriteX(a)
  <2>1. phase[current] = "writeX" /\ phase' = [phase EXCEPT ![current] = "writeY"]
        /\ lockHas' = Append(lockHas, toLE(publicKey(private[current]).x))
    BY <1>1, <1>4 DEF WriteX, Writes
  <2>2. ExchangeTypes' /\ ToCome(current, phase, received, key)' /\ phase'[current] = "writeY"
    BY <1>1, <1>2, <2>1, ExchangePhase DEF Phases
  <2>3. Known'
    BY <1>1, <2>1, <2>2, ConnectedWrites DEF Known
  <2> QED
    BY <2>2, <2>3 DEF ExchangeInv
<1>5. CASE WriteY(a)
  <2>1. phase[current] = "writeY" /\ phase' = [phase EXCEPT ![current] = "wait"]
        /\ lockHas' = Append(lockHas, toLE(publicKey(private[current]).y))
    BY <1>1, <1>5 DEF WriteY, Writes
  <2>2. ExchangeTypes' /\ ToCome(current, phase, received, key)' /\ phase'[current] = "wait"
    BY <1>1, <1>2, <2>1, ExchangePhase DEF Phases
  <2>3. Known'
    BY <1>1, <2>1, <2>2, ConnectedWrites DEF Known
  <2> QED
    BY <2>2, <2>3 DEF ExchangeInv
<1> QED
  BY <1>3, <1>4, <1>5

(* The end of an attempt, current or abandoned.                             *)
LEMMA ExchangeEnds ==
    ASSUME Group, NEW a \in Attempts, ExchangeInv, Agrees(a) \/ GivesUp(a)
    PROVE  ExchangeInv'
<1>1. /\ phase' = [phase EXCEPT ![a] = "over"]
      /\ UNCHANGED <<current, link, private, received, lockPrivate, lockHas, lockSends, honest>>
  BY DEF Agrees, GivesUp, Ends, lock
<1>2. phase[a] # "new"
  BY DEF Agrees, GivesUp, Running
<1>3. /\ key' = [b \in Attempts |-> key'[b]]
      /\ \A b \in Attempts : b # a => key'[b] = key[b]
  BY DEF ExchangeInv, ExchangeTypes, Agrees, GivesUp
<1>4. /\ phase' \in [Attempts -> Phases] /\ phase'[a] = "over"
      /\ \A b \in Attempts : b # a => phase'[b] = phase[b]
  BY <1>1 DEF ExchangeInv, ExchangeTypes, Phases
<1>5. ExchangeTypes'
  BY <1>1, <1>3, <1>4 DEF ExchangeInv, ExchangeTypes
<1>6. ToCome(current, phase, received, key)'
  BY <1>1, <1>2, <1>3, <1>4 DEF ExchangeInv, ExchangeTypes, ToCome
<1>7. ASSUME link PROVE Known'
  <2>0. Known /\ current \in Attempts /\ honest \in BOOLEAN
    BY <1>7 DEF ExchangeInv, ExchangeTypes
  <2>1. CASE a # current
    <3>1. phase'[current] = phase[current] /\ key'[current] = key[current]
      BY <1>3, <1>4, <2>0, <2>1
    <3> QED
      BY <1>1, <2>0, <3>1 DEF Known
  <2>2. CASE a = current /\ GivesUp(a)
    <3>1. phase'[current] = "over" /\ key'[current] = key[current]
      BY <1>4, <2>2 DEF GivesUp
    <3> QED
      BY <1>1, <2>0, <3>1, ConnectedOver DEF Known
  <2>3. CASE a = current /\ Agrees(a)
    <3>1. PICK k2 : k2 = sharedSecret(private[current],
                [x |-> fromLE(received[current][1]), y |-> fromLE(received[current][2])])
      OBVIOUS
    <3>2. phase'[current] = "over" /\ key'[current] = k2 /\ Len(received[current]) >= 2
      BY <1>4, <2>0, <2>3, <3>1 DEF Agrees, ExchangeInv, ExchangeTypes
    <3>3. private[current] \in PrivateKeys /\ lockPrivate \in PrivateKeys
      BY KeyExchangeAssumption DEF ExchangeInv, ExchangeTypes
    <3> QED
      BY <1>1, <2>0, <3>1, <3>2, <3>3, ConnectedAgrees DEF Known
  <2> QED
    BY <2>1, <2>2, <2>3
<1> QED
  BY <1>1, <1>5, <1>6, <1>7 DEF ExchangeInv

LEMMA ExchangeDrops == ExchangeInv /\ Drops => ExchangeInv'
<1> SUFFICES ASSUME ExchangeInv, Drops PROVE ExchangeInv'
  OBVIOUS
<1>1. current' \in Attempts /\ \A a \in Attempts : a > current' => a > current
  BY DEF ExchangeInv, ExchangeTypes, Drops, Attempts
<1>2. /\ link' = FALSE
      /\ UNCHANGED <<phase, private, received, key, lockPrivate, honest>>
  BY DEF Drops, lock
<1>3. ExchangeTypes'
  BY <1>1, <1>2 DEF ExchangeInv, ExchangeTypes
<1>4. ToCome(current, phase, received, key)'
  BY <1>1, <1>2 DEF ExchangeInv, ToCome
<1> QED
  BY <1>2, <1>3, <1>4 DEF ExchangeInv

LEMMA ExchangeAnswers == ExchangeInv /\ LockAnswers => ExchangeInv'
<1> SUFFICES ASSUME ExchangeInv, LockAnswers PROVE ExchangeInv'
  OBVIOUS
<1>1. /\ link /\ Len(lockHas) = 2 /\ lockHas' = Append(lockHas, <<>>)
      /\ UNCHANGED <<current, link, phase, private, received, key, lockPrivate>>
  BY DEF LockAnswers, client
<1>2. PICK p : /\ lockSends' = <<toLE(p.x), toLE(p.y)>> /\ honest' \in BOOLEAN
               /\ Answer(p, lockPrivate, honest')
  <2>1. CASE lockSends' = <<toLE(publicKey(lockPrivate).x), toLE(publicKey(lockPrivate).y)>>
             /\ honest' = honest
    <3>1. honest' = TRUE
      BY <2>1 DEF LockAnswers, ExchangeInv, ExchangeTypes
    <3> QED
      BY <2>1, <3>1 DEF Answer
  <2>2. CASE \E p \in Garbage : lockSends' = <<toLE(p.x), toLE(p.y)>> /\ honest' = FALSE
    BY <2>2 DEF Answer
  <2> QED
    BY <2>1, <2>2, Zenon DEF LockAnswers
<1>3. ExchangeTypes' /\ ToCome(current, phase, received, key)'
  BY <1>1, <1>2 DEF ExchangeInv, ExchangeTypes, ToCome
<1>4. Known /\ honest \in BOOLEAN
  BY <1>1 DEF ExchangeInv, ExchangeTypes
<1>5. Known'
  BY <1>1, <1>2, <1>4, ConnectedAnswers DEF Known
<1> QED
  BY <1>3, <1>5 DEF ExchangeInv

LEMMA ExchangeNotifies == ExchangeInv /\ LockNotifies => ExchangeInv'
<1> SUFFICES ASSUME ExchangeInv, LockNotifies PROVE ExchangeInv'
  OBVIOUS
<1>1. /\ link /\ lockSends # <<>> /\ lockSends' = Tail(lockSends)
      /\ UNCHANGED <<current, link, phase, private, key, lockPrivate, lockHas, honest>>
  BY DEF LockNotifies
<1>2. /\ received' = [a \in Attempts |-> received'[a]]
      /\ \A a \in Attempts : a # current => received'[a] = received[a]
      /\ received'[current] = received[current]
         \/ received'[current] = Append(received[current], Head(lockSends))
  BY DEF LockNotifies, ExchangeInv, ExchangeTypes
<1>3. Known /\ honest \in BOOLEAN /\ current \in Attempts
  BY <1>1 DEF ExchangeInv, ExchangeTypes
<1>4. phase[current] # "new"
  BY <1>3 DEF Known, Connected
<1>5. ExchangeTypes'
  BY <1>1, <1>2 DEF ExchangeInv, ExchangeTypes
<1>6. ToCome(current, phase, received, key)'
  BY <1>1, <1>2, <1>4 DEF ExchangeInv, ToCome
<1>7. Known'
  BY <1>1, <1>2, <1>3, ConnectedNotifies DEF Known
<1> QED
  BY <1>5, <1>6, <1>7 DEF ExchangeInv

LEMMA ExchangeHolds == ASSUME Group PROVE ExchangeSpec => []ExchangeInv
<1>1. ExchangeInv /\ [ExchangeNext]_exchange => ExchangeInv'
  <2> SUFFICES ASSUME ExchangeInv, [ExchangeNext]_exchange PROVE ExchangeInv'
    OBVIOUS
  <2>1. CASE UNCHANGED exchange
    BY <2>1 DEF exchange, ExchangeInv, ExchangeTypes, ToCome, Known
  <2>2. CASE Begin \/ Drops \/ LockAnswers \/ LockNotifies
    BY <2>2, ExchangeBegin, ExchangeDrops, ExchangeAnswers, ExchangeNotifies
  <2>3. ASSUME NEW a \in Attempts, Subscribed(a) \/ WriteX(a) \/ WriteY(a) PROVE ExchangeInv'
    BY <2>3, ExchangeWrites
  <2>4. ASSUME NEW a \in Attempts, Agrees(a) \/ GivesUp(a) PROVE ExchangeInv'
    BY <2>4, ExchangeEnds
  <2> QED
    BY <2>1, <2>2, <2>3, <2>4 DEF ExchangeNext
<1> QED
  BY <1>1, ExchangeInitially, PTL DEF ExchangeSpec

(* On a curve whose arithmetic is a group's: the key that eccKey() returns  *)
(* on the connection that is up is the one the lock derives, whatever       *)
(* attempts went before and whatever else the lock may send.                *)
THEOREM KeysAgree == ASSUME Group PROVE ExchangeSpec => []KeyAgreed
<1>1. ExchangeInv => KeyAgreed
  <2> SUFFICES ASSUME ExchangeInv, link, key[current] # Failed
               PROVE  honest /\ key[current] = LockKey
    BY DEF KeyAgreed
  <2>1. PICK ours, x, y : /\ ours = publicKey(private[current])
                          /\ x = toLE(ours.x) /\ y = toLE(ours.y)
    OBVIOUS
  <2>2. /\ honest /\ lockHas = <<x, y, <<>>>>
        /\ key[current] = sharedSecret(private[current], publicKey(lockPrivate))
    BY <2>1, Zenon DEF ExchangeInv, Known, Connected
  <2>3. private[current] \in PrivateKeys /\ lockPrivate \in PrivateKeys
    BY KeyExchangeAssumption DEF ExchangeInv, ExchangeTypes
  <2>4. ours \in Points /\ ours # Infinity
    BY <2>1, <2>3, PublicKeyIs
  <2>5. lockHas[1] = x /\ lockHas[2] = y
    BY <2>2
  <2>6. [x |-> fromLE(lockHas[1]), y |-> fromLE(lockHas[2])] = ours
    BY <2>1, <2>4, <2>5, PointArrives, Zenon
  <2>7. LockKey = sharedSecret(lockPrivate, ours)
    BY <2>6 DEF LockKey
  <2>8. sharedSecret(private[current], publicKey(lockPrivate)) = sharedSecret(lockPrivate, ours)
    BY <2>1, <2>3, SecretsMeet
  <2> QED
    BY <2>2, <2>7, <2>8
<1> QED
  BY <1>1, ExchangeHolds, PTL

=============================================================================
