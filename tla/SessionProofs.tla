---------------------------- MODULE SessionProofs ----------------------------
(***************************************************************************)
(* What module Session promises of requests and of set(), for a wire and an *)
(* inbox of any length and every choice of options.  The last two theorems  *)
(* hold as long as no bolt command times out: nothing else breaks them.     *)
(*                                                                         *)
(* The promises about requests (WaitersExact, ClosedIsSettled, ResumedOnce) *)
(* are inductive together with Requests: IInv.  Those about set() need the  *)
(* order of what is under way between the two ends as well: OInv.           *)
(***************************************************************************)
EXTENDS Session, TLAPS

(* A caller that has anything of a request is in one; an answer is of the   *)
(* code that was expected; setup only reads; a set() asks for something.    *)
Requests ==
    /\ \A c \in Callers :
          /\ writing[c] \/ answer[c] # Failed => Active(c)
          /\ answer[c] \in Frames => answer[c].code = Expected(c)
    /\ step["setup"] \in {"idle", "status"}
    /\ goal # None => Active("job")
    /\ step["job"] \in {"bolt", "again"} => goal # None
    /\ ~open => wire = <<>> /\ inbox = <<>>

IInv == TypeOK /\ Requests /\ WaitersExact /\ ClosedIsSettled /\ ResumedOnce

Asking == step["job"] \in {"bolt", "again"} /\ answer["job"] = Waiting
BoltRequests == {i \in DOMAIN inbox : inbox[i].command # "status"}
Acks == {i \in DOMAIN wire : wire[i].code # "status"}

(* The timer of a bolt command fires, while it or its answer may be under   *)
(* way.                                                                     *)
BoltTimesOut == Asking /\ Timeout("job")

(* Otherwise, what is under way of a bolt command belongs to the one that   *)
(* is asking: its request, the last of the job's, or its answer.            *)
OneCommand ==
    /\ BoltRequests # {} \/ Acks # {} => Asking
    /\ BoltRequests = {} \/ Acks = {}
    /\ \A i \in BoltRequests : \A j \in DOMAIN inbox : inbox[j].who = "job" => j <= i
    /\ \A i \in BoltRequests : inbox[i].who = "job"
    /\ \A i, j \in Acks : i = j
    /\ Asking /\ BoltRequests = {} => \A j \in DOMAIN inbox : inbox[j].who # "job"

(* The motor has not run for a command that is unread or was refused.       *)
OneRun ==
    /\ MovesOnce
    /\ BoltRequests # {} => runs = 0
    /\ \A i \in Acks : ~wire[i].ok => runs = 0
    /\ step["job"] = "bolt" /\ answer["job"] \in Frames /\ ~answer["job"].ok => runs = 0

(* A status that may answer the follow-up read was made since set() began.  *)
Reports(frame, state) == frame.code = "status" /\ frame.state = state
Fresh ==
    /\ goal # None /\ bolt = goal => seen
    /\ \A i \in Acks, j \in DOMAIN wire : i < j /\ Reports(wire[j], goal) => seen
    /\ goal # None /\ (step["job"] = "status" \/ answer["job"] \in Frames) =>
          /\ \A j \in DOMAIN wire : Reports(wire[j], goal) => seen
          /\ Reports(answer["job"], goal) => seen
    /\ ConfirmedIsReal

OInv == IInv /\ OneCommand /\ OneRun /\ Fresh

-----------------------------------------------------------------------------
(* Facts about sequences.                                                   *)

(* What RemoveAt() leaves, and where.                                       *)
LEMMA RemoveAtProperties ==
    ASSUME NEW S, NEW s \in Seq(S), NEW i \in 1..Len(s)
    PROVE  /\ RemoveAt(s, i) \in Seq(S)
           /\ Len(RemoveAt(s, i)) = Len(s) - 1
           /\ \A j \in 1..(Len(s) - 1) : RemoveAt(s, i)[j] = IF j < i THEN s[j] ELSE s[j + 1]
<1> DEFINE before == SubSeq(s, 1, i - 1)
           after == SubSeq(s, i + 1, Len(s))
<1>a. Len(s) \in Nat
  OBVIOUS
<1>1. before \in Seq(S) /\ Len(before) = i - 1
  OBVIOUS
<1>2. \A j \in 1..(i - 1) : before[j] = s[j]
  OBVIOUS
<1>3. after \in Seq(S)
  OBVIOUS
<1>4. Len(after) = Len(s) - i
  OBVIOUS
<1>5. \A j \in 1..(Len(s) - i) : after[j] = s[j + i]
  OBVIOUS
<1>6. RemoveAt(s, i) = before \o after
  BY DEF RemoveAt
<1> HIDE DEF before, after
<1>7. before \o after \in Seq(S)
  BY <1>1, <1>3
<1>8. Len(before \o after) = Len(s) - 1
  BY <1>1, <1>3, <1>4
<1>9. ASSUME NEW j \in 1..(Len(s) - 1)
      PROVE  (before \o after)[j] = IF j < i THEN s[j] ELSE s[j + 1]
  <2>1. CASE j < i
    BY <2>1, <1>1, <1>2, <1>3, <1>4
  <2>2. CASE ~ j < i
    <3>1. j - (i - 1) \in 1..(Len(s) - i) /\ j \in 1..(Len(before) + Len(after)) /\ ~ j <= Len(before)
      BY <2>2, <1>1, <1>4
    <3>2. (before \o after)[j] = after[j - (i - 1)]
      BY <3>1, <1>1, <1>3
    <3>3. after[j - (i - 1)] = s[(j - (i - 1)) + i]
      BY <3>1, <1>5
    <3> QED BY <2>2, <3>2, <3>3
  <2> QED BY <2>1, <2>2
<1> QED
  BY <1>6, <1>7, <1>8, <1>9

(* FlattenSeq() is recursive; a caller list has at most two elements.       *)
LEMMA FlattenTwo ==
    ASSUME NEW S, NEW ss \in Seq(S), Len(ss) <= 2
    PROVE  /\ Len(ss) = 0 => FlattenSeq(ss) = <<>>
           /\ Len(ss) = 1 => FlattenSeq(ss) = ss[1]
           /\ Len(ss) = 2 => FlattenSeq(ss) = ss[1] \o ss[2]
<1> DEFINE n == Len(ss)
           flatten == CHOOSE f : f = [i \in 1..n |-> IF i = 1 THEN ss[i] ELSE f[i-1] \o ss[i]]
           g == [i \in 1..n |-> IF i = 1 THEN ss[1] ELSE ss[1] \o ss[2]]
<1>m. n \in Nat
  OBVIOUS
<1>c. 1 # 0 /\ 2 # 0 /\ 2 # 1 /\ 2 - 1 = 1
  OBVIOUS
<1>0. n = 0 => ss = <<>>
  OBVIOUS
<1>1. FlattenSeq(ss) = IF n = 0 THEN ss ELSE flatten[n]
  BY DEF FlattenSeq
<1>l. n <= 2
  OBVIOUS
<1> HIDE DEF n
<1>n. n \in 0..2
  BY <1>m, <1>l
<1>2. g = [i \in 1..n |-> IF i = 1 THEN ss[i] ELSE g[i-1] \o ss[i]]
  <2>1. ASSUME NEW i \in 1..n
        PROVE  g[i] = IF i = 1 THEN ss[i] ELSE g[i-1] \o ss[i]
    <3>1. CASE i = 1
      BY <3>1
    <3>2. CASE i = 2
      <4>1. g[1] = ss[1]
        BY <3>2, <1>n
      <4>2. g[2] = ss[1] \o ss[2]
        BY <3>2, <1>c, Zenon
      <4> HIDE DEF g
      <4>3. g[i - 1] = ss[1]
        BY <4>1, <3>2
      <4> QED BY <3>2, <4>3, <4>2
    <3> QED BY <1>n, <3>1, <3>2
  <2> QED BY <2>1
<1>3. flatten = [i \in 1..n |-> IF i = 1 THEN ss[i] ELSE flatten[i-1] \o ss[i]]
  <2> HIDE DEF g
  <2> QED BY <1>2
<1> HIDE DEF flatten
<1>4. n > 0 => flatten[1] = ss[1]
  BY <1>3, <1>n
<1>5. n = 2 => flatten[2] = ss[1] \o ss[2]
  <2> SUFFICES ASSUME n = 2 PROVE flatten[2] = ss[1] \o ss[2]
    OBVIOUS
  <2>1. \A i \in 1..2 : flatten[i] = IF i = 1 THEN ss[i] ELSE flatten[i-1] \o ss[i]
    BY <1>3
  <2>2. flatten[2] = flatten[1] \o ss[2]
    <3>1. 2 \in 1..2
      OBVIOUS
    <3> QED BY <2>1, <3>1, <1>c, Zenon
  <2>3. flatten[1] = ss[1]
    BY <1>4
  <2> QED BY <2>2, <2>3, Zenon
<1>6. n = 1 => FlattenSeq(ss) = ss[1]
  BY <1>1, <1>4, <1>n
<1>7. n = 2 => FlattenSeq(ss) = ss[1] \o ss[2]
  BY <1>1, <1>5, <1>c, Zenon
<1>8. n = 0 => FlattenSeq(ss) = <<>>
  BY <1>1, <1>0, <1>n
<1> QED
  BY <1>6, <1>7, <1>8 DEF n

(* What Append() puts where.                                                *)
LEMMA AppendAt ==
    ASSUME NEW S, NEW s \in Seq(S), NEW e \in S
    PROVE  /\ DOMAIN Append(s, e) = 1..(Len(s) + 1)
           /\ Append(s, e)[Len(s) + 1] = e /\ \A j \in 1..Len(s) : Append(s, e)[j] = s[j]
<1>1. Append(s, e) \in Seq(S) /\ Len(Append(s, e)) = Len(s) + 1 /\ Len(s) \in Nat
  OBVIOUS
<1>2. Append(s, e)[Len(s) + 1] = e /\ \A j \in 1..Len(s) : Append(s, e)[j] = s[j]
  OBVIOUS
<1> QED
  BY <1>1, <1>2

(* The three ways a queue of callers changes, seen as sets: one joins the   *)
(* end, ...                                                                 *)
LEMMA AppendSet ==
    ASSUME NEW S, NEW s \in Seq(S), NEW e \in S
    PROVE  /\ Append(s, e) \in Seq(S)
           /\ ToSet(Append(s, e)) = ToSet(s) \cup {e}
           /\ IsInjective(s) /\ e \notin ToSet(s) => IsInjective(Append(s, e))
<1>1. Append(s, e) \in Seq(S) /\ Len(Append(s, e)) = Len(s) + 1 /\ Len(s) \in Nat
  OBVIOUS
<1>2. DOMAIN s = 1..Len(s) /\ DOMAIN Append(s, e) = 1..(Len(s) + 1)
  BY <1>1
<1>3. Append(s, e)[Len(s) + 1] = e /\ \A j \in 1..Len(s) : Append(s, e)[j] = s[j]
  OBVIOUS
<1> HIDE DEF IsInjective
<1>4. ToSet(Append(s, e)) = ToSet(s) \cup {e}
  BY <1>1, <1>2, <1>3 DEF ToSet
<1>5. ASSUME IsInjective(s), e \notin ToSet(s),
             NEW i \in 1..(Len(s) + 1), NEW j \in 1..(Len(s) + 1),
             Append(s, e)[i] = Append(s, e)[j]
      PROVE  i = j
  BY <1>1, <1>2, <1>3, <1>5 DEF ToSet, IsInjective
<1> QED
  BY <1>1, <1>2, <1>4, <1>5 DEF IsInjective

(* ... the first leaves, ...                                                *)
LEMMA TailSet ==
    ASSUME NEW S, NEW s \in Seq(S), s # <<>>
    PROVE  /\ Tail(s) \in Seq(S) /\ Head(s) \in S
           /\ IsInjective(s) => ToSet(Tail(s)) = ToSet(s) \ {Head(s)} /\ IsInjective(Tail(s))
<1>1. Tail(s) \in Seq(S) /\ Len(Tail(s)) = Len(s) - 1 /\ Len(s) \in Nat /\ Len(s) > 0
  OBVIOUS
<1>2. DOMAIN s = 1..Len(s) /\ DOMAIN Tail(s) = 1..(Len(s) - 1)
  BY <1>1
<1>3. Head(s) = s[1] /\ \A j \in 1..(Len(s) - 1) : Tail(s)[j] = s[j + 1]
  OBVIOUS
<1>4. s[1] \in S
  BY <1>1
<1>5. ASSUME IsInjective(s)
      PROVE  ToSet(Tail(s)) = ToSet(s) \ {Head(s)} /\ IsInjective(Tail(s))
  <2>1. ASSUME NEW i \in 1..(Len(s) - 1), NEW j \in 1..(Len(s) - 1), Tail(s)[i] = Tail(s)[j]
        PROVE  i = j
    BY <1>1, <1>2, <1>3, <1>5, <2>1 DEF IsInjective
  <2>2. ASSUME NEW i \in 1..(Len(s) - 1)
        PROVE  Tail(s)[i] \in ToSet(s) \ {Head(s)}
    BY <1>1, <1>2, <1>3, <1>5 DEF IsInjective, ToSet
  <2>3. ASSUME NEW i \in 1..Len(s), s[i] # Head(s)
        PROVE  i - 1 \in 1..(Len(s) - 1) /\ Tail(s)[i - 1] = s[i]
    <3>1. i # 1
      BY <1>3, <2>3
    <3>2. i - 1 \in 1..(Len(s) - 1) /\ (i - 1) + 1 = i
      BY <3>1, <1>1
    <3> QED BY <3>2, <1>3
  <2>4. ToSet(Tail(s)) \subseteq ToSet(s) \ {Head(s)}
    BY <1>2, <2>2 DEF ToSet
  <2>5. ToSet(s) \ {Head(s)} \subseteq ToSet(Tail(s))
    BY <1>2, <2>3 DEF ToSet
  <2>6. IsInjective(Tail(s))
    BY <1>2, <2>1 DEF IsInjective
  <2> QED BY <2>4, <2>5, <2>6
<1> QED
  BY <1>1, <1>3, <1>4, <1>5

(* ... or several join.                                                     *)
LEMMA ConcatSet ==
    ASSUME NEW S, NEW s \in Seq(S), NEW t \in Seq(S)
    PROVE  /\ s \o t \in Seq(S)
           /\ ToSet(s \o t) = ToSet(s) \cup ToSet(t)
           /\ IsInjective(s) /\ IsInjective(t) /\ ToSet(s) \cap ToSet(t) = {} => IsInjective(s \o t)
<1> DEFINE m == Len(s)
           n == Len(t)
<1>1. m \in Nat /\ n \in Nat /\ s \o t \in Seq(S) /\ Len(s \o t) = m + n
  OBVIOUS
<1>2. DOMAIN s = 1..m /\ DOMAIN t = 1..n /\ DOMAIN (s \o t) = 1..(m + n)
  BY <1>1
<1>3. \A j \in 1..(m + n) : (s \o t)[j] = IF j <= m THEN s[j] ELSE t[j - m]
  OBVIOUS
<1> DEFINE both == s \o t
<1> HIDE DEF m, n, both
<1>4. \A j \in 1..m : j \in 1..(m + n) /\ both[j] = s[j]
  BY <1>1, <1>3 DEF both
<1>5. \A j \in 1..n : j + m \in 1..(m + n) /\ both[j + m] = t[j]
  <2> TAKE j \in 1..n
  <2>1. j + m \in 1..(m + n) /\ ~ j + m <= m /\ (j + m) - m = j
    BY <1>1
  <2> QED BY <2>1, <1>3 DEF both
<1>6. \A j \in 1..(m + n) : j \in 1..m \/ (j - m \in 1..n /\ (j - m) + m = j)
  BY <1>1
<1>7. \A j \in 1..(m + n) : (j \in 1..m /\ both[j] = s[j]) \/ (j - m \in 1..n /\ both[j] = t[j - m])
  BY <1>4, <1>5, <1>6
<1>8. ToSet(both) = ToSet(s) \cup ToSet(t)
  <2>1. ToSet(both) \subseteq ToSet(s) \cup ToSet(t)
    BY <1>2, <1>7 DEF ToSet, both
  <2>2. ToSet(s) \subseteq ToSet(both)
    BY <1>2, <1>4 DEF ToSet, both
  <2>3. ToSet(t) \subseteq ToSet(both)
    BY <1>2, <1>5 DEF ToSet, both
  <2> QED BY <2>1, <2>2, <2>3
<1>9. ASSUME IsInjective(s), IsInjective(t), ToSet(s) \cap ToSet(t) = {}
      PROVE  IsInjective(both)
  <2>1. ASSUME NEW i \in 1..(m + n), NEW j \in 1..(m + n), both[i] = both[j]
        PROVE  i = j
    <3>1. \A k \in 1..m, l \in 1..n : s[k] # t[l]
      BY <1>2, <1>9 DEF ToSet
    <3>2. CASE i \in 1..m /\ j \in 1..m
      BY <3>2, <1>2, <1>4, <1>9, <2>1 DEF IsInjective
    <3>3. CASE i - m \in 1..n /\ both[i] = t[i - m] /\ j - m \in 1..n /\ both[j] = t[j - m]
      <4>1. i - m = j - m
        BY <3>3, <1>2, <1>9, <2>1 DEF IsInjective
      <4> QED BY <4>1, <1>1
    <3> QED BY <3>1, <3>2, <3>3, <1>7, <2>1
  <2> QED BY <1>2, <2>1 DEF IsInjective, both
<1> QED
  BY <1>1, <1>8, <1>9 DEF both

-----------------------------------------------------------------------------
(* The waiters, and the callers that are due.                               *)

Waiter == [who : Callers, expect : {"status"} \cup Goals]
Single(p) == \A i, j \in DOMAIN p : p[i].who = p[j].who => i = j
Who(p) == {p[i].who : i \in DOMAIN p}

(* A waiter is taken away, and no other.                                    *)
LEMMA RemovedWaiter ==
    ASSUME NEW p \in Seq(Waiter), Single(p), NEW k \in DOMAIN p
    PROVE  /\ RemoveAt(p, k) \in Seq(Waiter) /\ Single(RemoveAt(p, k))
           /\ Who(RemoveAt(p, k)) = Who(p) \ {p[k].who}
           /\ \A i \in DOMAIN RemoveAt(p, k) : \E j \in DOMAIN p : RemoveAt(p, k)[i] = p[j]
<1> DEFINE q == RemoveAt(p, k)
           n == Len(p)
           At(i) == IF i < k THEN i ELSE i + 1
<1>1. n \in Nat /\ DOMAIN p = 1..n /\ k \in 1..n
  OBVIOUS
<1>2. q \in Seq(Waiter) /\ Len(q) = n - 1 /\ \A j \in 1..(n - 1) : q[j] = IF j < k THEN p[j] ELSE p[j + 1]
  BY <1>1, RemoveAtProperties
<1>3. DOMAIN q = 1..(n - 1)
  BY <1>1, <1>2
<1> HIDE DEF q, n
<1>4. \A i \in 1..(n - 1) : At(i) \in 1..n /\ At(i) # k /\ q[i] = p[At(i)]
  BY <1>1, <1>2
<1>5. \A i, j \in 1..(n - 1) : At(i) = At(j) => i = j
  BY <1>1
<1>6. \A i \in 1..n : i # k => \E j \in 1..(n - 1) : At(j) = i
  <2> TAKE i \in 1..n
  <2> HAVE i # k
  <2>1. CASE i < k
    <3>1. i \in 1..(n - 1) /\ At(i) = i
      BY <2>1, <1>1
    <3> QED BY <3>1
  <2>2. CASE i > k
    <3>1. i - 1 \in 1..(n - 1) /\ At(i - 1) = i
      BY <2>2, <1>1
    <3> QED BY <3>1
  <2> QED BY <1>1, <2>1, <2>2
<1> HIDE DEF At
<1>7. Single(q)
  BY <1>1, <1>3, <1>4, <1>5 DEF Single
<1>8. Who(q) \subseteq Who(p) \ {p[k].who}
  BY <1>1, <1>3, <1>4 DEF Single, Who
<1>9. Who(p) \ {p[k].who} \subseteq Who(q)
  BY <1>1, <1>3, <1>4, <1>6 DEF Who
<1> QED
  BY <1>1, <1>2, <1>3, <1>4, <1>7, <1>8, <1>9 DEF q

(* A waiter joins the others.                                               *)
LEMMA AppendedWaiter ==
    ASSUME NEW p \in Seq(Waiter), NEW w \in Waiter
    PROVE  /\ Append(p, w) \in Seq(Waiter)
           /\ Who(Append(p, w)) = Who(p) \cup {w.who}
           /\ Single(p) /\ w.who \notin Who(p) => Single(Append(p, w))
           /\ \A i \in DOMAIN Append(p, w) :
                 Append(p, w)[i] = w \/ \E j \in DOMAIN p : Append(p, w)[i] = p[j]
<1> DEFINE q == Append(p, w)
           n == Len(p)
<1>1. n \in Nat /\ DOMAIN p = 1..n /\ q \in Seq(Waiter) /\ Len(q) = n + 1
  OBVIOUS
<1>2. DOMAIN q = 1..(n + 1)
  BY <1>1
<1>3. q[n + 1] = w /\ \A j \in 1..n : q[j] = p[j]
  OBVIOUS
<1> HIDE DEF q, n
<1>4. \A j \in 1..(n + 1) : j = n + 1 \/ j \in 1..n
  BY <1>1
<1>5. Who(q) = Who(p) \cup {w.who}
  <2>1. Who(q) \subseteq Who(p) \cup {w.who}
    BY <1>1, <1>2, <1>3, <1>4 DEF Who
  <2>2. Who(p) \cup {w.who} \subseteq Who(q)
    BY <1>1, <1>2, <1>3 DEF Who
  <2> QED BY <2>1, <2>2
<1>6. Single(p) /\ w.who \notin Who(p) => Single(q)
  BY <1>1, <1>2, <1>3, <1>4 DEF Single, Who
<1> QED
  BY <1>1, <1>2, <1>3, <1>4, <1>5, <1>6 DEF q

(* No two wait for the same caller, so at most two wait.                    *)
LEMMA AtMostTwo ==
    ASSUME NEW p \in Seq(Waiter), Single(p)
    PROVE  Len(p) <= 2
<1>1. Len(p) \in Nat /\ DOMAIN p = 1..Len(p)
  OBVIOUS
<1>2. \A i \in DOMAIN p : p[i].who \in {"setup", "job"}
  <2>1. \A i \in DOMAIN p : p[i] \in Waiter
    BY <1>1
  <2> QED BY <2>1 DEF Waiter, Callers
<1>3. ~ Len(p) > 2
  <2> SUFFICES ASSUME Len(p) > 2 PROVE FALSE
    OBVIOUS
  <2>1. {1, 2, 3} \subseteq DOMAIN p
    BY <1>1
  <2> QED BY <2>1, <1>2 DEF Single
<1> QED
  BY <1>1, <1>3

(* Returns() keeps, in their order, those that do not await a write.        *)
LEMMA ReturnsProperties ==
    ASSUME NEW cs \in Seq(Callers), Len(cs) <= 2, IsInjective(cs), TypeOK
    PROVE  /\ Returns(cs) \in Seq(Callers) /\ IsInjective(Returns(cs))
           /\ ToSet(Returns(cs)) = {c \in ToSet(cs) : ~writing[c]}
<1> DEFINE ss == [i \in DOMAIN cs |-> IF writing[cs[i]] THEN <<>> ELSE <<cs[i]>>]
           n == Len(cs)
<1>1. n \in Nat /\ DOMAIN cs = 1..n /\ \A i \in 1..n : cs[i] \in Callers
  OBVIOUS
<1>2. n \in 0..2
  BY <1>1
<1>3. \A i \in 1..n : ss[i] = (IF writing[cs[i]] THEN <<>> ELSE <<cs[i]>>) /\ ss[i] \in Seq(Callers)
  BY <1>1
<1>4. ss \in Seq(Seq(Callers)) /\ Len(ss) = n
  BY <1>1, <1>3
<1>5. \A i \in 1..n : /\ IsInjective(ss[i])
                      /\ ToSet(ss[i]) = {c \in {cs[i]} : ~writing[c]}
  BY <1>1, <1>3 DEF IsInjective, ToSet
<1>6. Returns(cs) = FlattenSeq(ss)
  BY DEF Returns
<1> HIDE DEF ss, n
<1>f. /\ n = 0 => FlattenSeq(ss) = <<>>
      /\ n = 1 => FlattenSeq(ss) = ss[1]
      /\ n = 2 => FlattenSeq(ss) = ss[1] \o ss[2]
  <2>1. Len(ss) <= 2
    BY <1>2, <1>4
  <2> QED BY <1>4, <2>1, FlattenTwo
<1>7. CASE n = 0
  <2>1. Returns(cs) = <<>>
    BY <1>f, <1>6, <1>7
  <2> QED BY <2>1, <1>1, <1>7 DEF ToSet, IsInjective
<1>8. CASE n = 1
  <2>1. Returns(cs) = ss[1]
    BY <1>f, <1>6, <1>8
  <2> QED BY <2>1, <1>1, <1>3, <1>5, <1>8 DEF ToSet
<1>9. CASE n = 2
  <2>1. Returns(cs) = ss[1] \o ss[2]
    BY <1>f, <1>6, <1>9
  <2>2. {1, 2} \subseteq 1..n
    BY <1>9
  <2>3. cs[1] # cs[2] /\ ToSet(cs) = {cs[1], cs[2]}
    BY <1>1, <1>9 DEF IsInjective, ToSet
  <2>4. ToSet(ss[1]) \cap ToSet(ss[2]) = {}
    BY <2>2, <2>3, <1>5
  <2> DEFINE a == ss[1]
             b == ss[2]
  <2>5. a \in Seq(Callers) /\ b \in Seq(Callers) /\ IsInjective(a) /\ IsInjective(b)
    BY <2>2, <1>3, <1>5
  <2>6. ToSet(a) \cup ToSet(b) = {c \in ToSet(cs) : ~writing[c]}
    BY <2>2, <2>3, <1>5
  <2> HIDE DEF a, b
  <2>7. /\ a \o b \in Seq(Callers) /\ ToSet(a \o b) = ToSet(a) \cup ToSet(b)
        /\ ToSet(a) \cap ToSet(b) = {} => IsInjective(a \o b)
    BY <2>5, ConcatSet
  <2> QED BY <2>1, <2>4, <2>6, <2>7 DEF a, b
<1> QED
  BY <1>2, <1>7, <1>8, <1>9
(* What is known of the queues in a state of the invariant.                 *)
LEMMA Queues ==
    ASSUME IInv
    PROVE  /\ pending \in Seq(Waiter) /\ Single(pending) /\ Waiters = Who(pending)
           /\ due \in Seq(Callers) /\ IsInjective(due)
           /\ Waiters \subseteq Callers /\ ToSet(due) \subseteq Callers
           /\ \A c \in Callers : c \in ToSet(due) => c \notin Waiters
<1>1. pending \in Seq(Waiter) /\ Single(pending) /\ Waiters = Who(pending) /\ due \in Seq(Callers)
  BY DEF IInv, TypeOK, WaitersExact, Single, Waiters, Who, Waiter
<1>2. \A i \in DOMAIN pending : pending[i] \in Waiter
  BY <1>1
<1>3. Waiters \subseteq Callers
  BY <1>2 DEF Waiters, Waiter
<1>4. ToSet(due) \subseteq Callers
  BY <1>1 DEF ToSet
<1> QED
  BY <1>1, <1>3, <1>4 DEF IInv, WaitersExact, ResumedOnce

(* _discard() takes the caller's waiter, and no other.                      *)
LEMMA Discards ==
    ASSUME IInv, NEW c \in Callers, Discard(c)
    PROVE  /\ pending' \in Seq(Waiter) /\ Single(pending') /\ Waiters' = Waiters \ {c}
           /\ \A i \in DOMAIN pending' : \E j \in DOMAIN pending : pending'[i] = pending[j]
<1>1. CASE c \in Waiters
  <2>1. PICK k \in DOMAIN pending : pending[k].who = c /\ pending' = RemoveAt(pending, k)
    BY <1>1 DEF Discard
  <2> DEFINE q == RemoveAt(pending, k)
  <2>2. /\ q \in Seq(Waiter) /\ Single(q) /\ Who(q) = Who(pending) \ {c}
        /\ \A i \in DOMAIN q : \E j \in DOMAIN pending : q[i] = pending[j]
    BY <2>1, Queues, RemovedWaiter
  <2> HIDE DEF q
  <2>3. pending' = q
    BY <2>1 DEF q
  <2> QED BY <2>2, <2>3, Queues DEF Waiters, Who
<1>2. CASE c \notin Waiters
  BY <1>2, Queues DEF Discard, Waiters, Who
<1> QED
  BY <1>1, <1>2

(* A request adds one waiter.                                               *)
LEMMA Requested ==
    ASSUME IInv, NEW c \in Callers, c \notin Waiters, NEW what,
           NEW code \in {"status"} \cup Goals, Request(c, what, code)
    PROVE  /\ pending' \in Seq(Waiter) /\ Single(pending') /\ Waiters' = Waiters \cup {c}
           /\ \A i \in DOMAIN pending' :
                 \/ pending'[i] = [who |-> c, expect |-> code]
                 \/ \E j \in DOMAIN pending : pending'[i] = pending[j]
<1> DEFINE w == [who |-> c, expect |-> code]
           q == Append(pending, w)
<1>1. w \in Waiter /\ w.who = c
  BY DEF Waiter
<1> HIDE DEF w
<1>2. /\ q \in Seq(Waiter) /\ Single(q) /\ Who(q) = Who(pending) \cup {c}
      /\ \A i \in DOMAIN q : q[i] = w \/ \E j \in DOMAIN pending : q[i] = pending[j]
  BY <1>1, Queues, AppendedWaiter
<1>3. pending' = q
  BY DEF Request, w
<1> HIDE DEF q
<1> QED
  BY <1>2, <1>3, Queues DEF Waiters, Who, w

(* Whose request() is over when one promise settles, ...                    *)
LEMMA ReturnsOne ==
    ASSUME TypeOK, NEW c \in Callers
    PROVE  /\ Returns(<<c>>) \in Seq(Callers) /\ IsInjective(Returns(<<c>>))
           /\ ToSet(Returns(<<c>>)) = {d \in {c} : ~writing[d]}
<1> DEFINE cs == <<c>>
<1>1. cs \in Seq(Callers) /\ Len(cs) <= 2 /\ IsInjective(cs) /\ ToSet(cs) = {c}
  BY DEF IsInjective, ToSet
<1> HIDE DEF cs
<1>2. /\ Returns(cs) \in Seq(Callers) /\ IsInjective(Returns(cs))
      /\ ToSet(Returns(cs)) = {d \in ToSet(cs) : ~writing[d]}
  BY <1>1, ReturnsProperties
<1> QED
  BY <1>1, <1>2 DEF cs

(* ... and when all do.                                                     *)
LEMMA ReturnsAll ==
    ASSUME IInv
    PROVE  LET r == Returns([i \in DOMAIN pending |-> pending[i].who])
           IN  /\ r \in Seq(Callers) /\ IsInjective(r)
               /\ ToSet(r) = {c \in Waiters : ~writing[c]}
<1> DEFINE cs == [i \in DOMAIN pending |-> pending[i].who]
<1>0. Len(pending) \in Nat /\ DOMAIN pending = 1..Len(pending) /\ Len(pending) <= 2
  BY Queues, AtMostTwo
<1>1. \A i \in DOMAIN pending : pending[i].who \in Callers
  BY Queues DEF Waiters
<1>2. cs \in Seq(Callers) /\ Len(cs) <= 2
  BY <1>0, <1>1
<1>3. IsInjective(cs) /\ ToSet(cs) = Waiters
  BY Queues DEF IsInjective, ToSet, Single, Waiters
<1>4. TypeOK
  BY DEF IInv
<1> HIDE DEF cs
<1>5. /\ Returns(cs) \in Seq(Callers) /\ IsInjective(Returns(cs))
      /\ ToSet(Returns(cs)) = {d \in ToSet(cs) : ~writing[d]}
  BY <1>2, <1>3, <1>4, ReturnsProperties
<1> QED
  BY <1>3, <1>5 DEF cs

(* The session ends: whoever waited and held its promise is due.            *)
LEMMA Ends ==
    ASSUME IInv, NEW d \in Seq(Callers), IsInjective(d), ToSet(d) \subseteq ToSet(due),
           EndSession(d)
    PROVE  /\ pending' = <<>> /\ Waiters' = {} /\ ~open' /\ wire' = <<>> /\ inbox' = <<>>
           /\ due' \in Seq(Callers) /\ IsInjective(due')
           /\ ToSet(due') = ToSet(d) \cup {c \in Waiters : ~writing[c]}
           /\ answer' = [c \in Callers |-> IF c \in Waiters THEN Failed ELSE answer[c]]
           /\ unhandled' \in BOOLEAN
<1> DEFINE r == Returns([i \in DOMAIN pending |-> pending[i].who])
<1>1. r \in Seq(Callers) /\ IsInjective(r) /\ ToSet(r) = {c \in Waiters : ~writing[c]}
  BY ReturnsAll
<1>2. due' = d \o r /\ pending' = <<>> /\ ~open' /\ wire' = <<>> /\ inbox' = <<>>
  BY DEF EndSession, FailPending
<1> HIDE DEF r
<1>3. ToSet(d) \cap ToSet(r) = {}
  BY <1>1, Queues
<1>4. /\ d \o r \in Seq(Callers) /\ IsInjective(d \o r)
      /\ ToSet(d \o r) = ToSet(d) \cup ToSet(r)
  BY <1>1, <1>3, ConcatSet
<1>5. Waiters' = {}
  BY <1>2 DEF Waiters
<1>6. unhandled' \in BOOLEAN
  BY DEF EndSession, FailPending, IInv, TypeOK
<1>7. answer' = [c \in Callers |-> IF c \in Waiters THEN Failed ELSE answer[c]]
  BY DEF EndSession, FailPending
<1> QED
  BY <1>1, <1>2, <1>4, <1>5, <1>6, <1>7

-----------------------------------------------------------------------------
(* The invariant of requests, action by action.                             *)

(* The three kinds of answer are told apart by their codes.                 *)
LEMMA Kinds ==
    /\ Failed # Waiting /\ Failed \notin Frames /\ Waiting \notin Frames
    /\ \A f \in Frames : f.code \in {"status"} \cup Goals
    /\ None \notin States \cup Goals
<1>1. Failed # Waiting
  BY DEF Failed, Waiting
<1>2. \A f \in Frames : f.code \in {"status"} \cup Goals
  BY DEF Frames
<1>3. "failed" \notin {"status"} \cup Goals /\ "waiting" \notin {"status"} \cup Goals
  BY DEF Goals
<1>4. Failed.code = "failed" /\ Waiting.code = "waiting"
  BY DEF Failed, Waiting
<1>5. None \notin States \cup Goals
  BY DEF None, States, Goals
<1> QED
  BY <1>1, <1>2, <1>3, <1>4, <1>5

(* The invariant holds at first.                                            *)
LEMMA Start == Init => IInv
<1> SUFFICES ASSUME Init PROVE IInv
  OBVIOUS
<1> USE DEF Init
<1>1. pending = <<>> /\ due = <<>> /\ wire = <<>> /\ inbox = <<>>
  OBVIOUS
<1>2. DOMAIN pending = {} /\ ToSet(due) = {} /\ IsInjective(due) /\ Waiters = {}
  BY <1>1 DEF ToSet, IsInjective, Waiters
<1>3. TypeOK
  <2>1. /\ pending \in Seq([who : Callers, expect : {"status"} \cup Goals])
        /\ due \in Seq(Callers) /\ wire \in Seq(Frames) /\ Len(wire) = 0
        /\ inbox \in Seq([who : Callers, command : {"status"} \cup Goals])
    BY <1>1
  <2>2. Len(wire) <= MaxWire /\ chunk \in 0..2 /\ chunk <= Len(wire)
    BY <2>1, SessionAssumption
  <2>3. outcome \in [asked : Goals \cup {None}, state : States \cup {None}, confirmed : BOOLEAN]
    BY DEF NoOutcome
  <2>4. answer \in [Callers -> {Waiting, Failed} \cup Frames]
    OBVIOUS
  <2> QED BY <2>1, <2>2, <2>3, <2>4 DEF TypeOK, States
<1>4. \A c \in Callers : step[c] = "idle" /\ ~writing[c] /\ answer[c] = Failed
  OBVIOUS
<1>5. Requests
  BY <1>1, <1>4, Kinds DEF Requests, Active, Callers
<1>6. WaitersExact /\ ClosedIsSettled /\ ResumedOnce
  BY <1>1, <1>2, <1>4, Kinds DEF WaitersExact, ClosedIsSettled, ResumedOnce, Active
<1> QED
  BY <1>3, <1>5, <1>6 DEF IInv

(* One lemma per action: the write is confirmed, ...                        *)
LEMMA WriteDoneKeeps ==
    ASSUME IInv, NEW c \in Callers, WriteDone(c)
    PROVE  IInv'
<1> USE DEF WriteDone
<1>0. UNCHANGED <<open, pending, heard, step, answer, chunk, goal, deferred, outcome, known,
                  wire, inbox, bolt, motor, ours, seen, runs, unhandled, misblamed>>
  BY DEF command, lock, history
<1>1. /\ due' \in Seq(Callers) /\ IsInjective(due')
      /\ ToSet(due') = ToSet(due) \cup (IF answer[c] = Waiting THEN {} ELSE {c})
  <2>1. c \notin ToSet(due)
    BY DEF IInv, ResumedOnce
  <2> QED BY <2>1, Queues, AppendSet
<1>2. writing' = [writing EXCEPT ![c] = FALSE] /\ writing[c] /\ Active(c)
  BY DEF IInv, Requests
<1>3. TypeOK'
  BY <1>0, <1>1, <1>2 DEF IInv, TypeOK
<1>4. Requests'
  <2>1. \A d \in Callers : writing'[d] \/ answer'[d] # Failed => Active(d)'
    BY <1>0, <1>2 DEF IInv, TypeOK, Requests, Active
  <2>2. \A d \in Callers : answer'[d] \in Frames => answer'[d].code = Expected(d)'
    BY <1>0, <1>2, Kinds DEF IInv, TypeOK, Requests, Expected
  <2>3. ~open' => wire' = <<>> /\ inbox' = <<>>
    BY <1>0, <1>2 DEF IInv, Requests
  <2>4. /\ step'["setup"] \in {"idle", "status"}
        /\ goal' # None => Active("job")'
        /\ step'["job"] \in {"bolt", "again"} => goal' # None
    BY <1>0, <1>2 DEF IInv, Requests, Active
  <2> QED BY <2>1, <2>2, <2>3, <2>4 DEF Requests
<1>5. WaitersExact' /\ ClosedIsSettled'
  BY <1>0 DEF IInv, WaitersExact, ClosedIsSettled, Waiters, Active, Expected
<1>6. ResumedOnce'
  BY <1>0, <1>1, <1>2 DEF IInv, TypeOK, ResumedOnce, Active
<1> QED
  BY <1>3, <1>4, <1>5, <1>6 DEF IInv

(* ... it fails, ...                                                        *)
LEMMA WriteFailsKeeps ==
    ASSUME IInv, NEW c \in Callers, WriteFails(c)
    PROVE  IInv'
<1> USE DEF WriteFails
<1>0. /\ writing[c] /\ Active(c) /\ c \notin ToSet(due)
      /\ UNCHANGED <<open, heard, step, chunk, goal, deferred, outcome, known, wire, bolt, motor,
                     ours, seen, runs, unhandled, misblamed>>
      /\ writing' = [writing EXCEPT ![c] = FALSE]
      /\ answer' = [answer EXCEPT ![c] = Failed]
  BY DEF IInv, Requests, ResumedOnce, command, history
<1>1. /\ due' \in Seq(Callers) /\ IsInjective(due')
      /\ ToSet(due') = ToSet(due) \cup {c}
  BY <1>0, Queues, AppendSet
<1>2. /\ pending' \in Seq(Waiter) /\ Single(pending') /\ Waiters' = Waiters \ {c}
      /\ \A i \in DOMAIN pending' : \E j \in DOMAIN pending : pending'[i] = pending[j]
  BY Discards
<1>3. inbox' \in Seq([who : Callers, command : {"status"} \cup Goals])
  <2>1. inbox \in Seq([who : Callers, command : {"status"} \cup Goals])
    BY DEF IInv, TypeOK
  <2>2. CASE \E i \in DOMAIN inbox : inbox' = RemoveAt(inbox, i)
    <3>1. PICK i \in DOMAIN inbox : inbox' = RemoveAt(inbox, i)
      BY <2>2
    <3>2. i \in 1..Len(inbox)
      BY <2>1, <3>1
    <3> QED BY <2>1, <3>1, <3>2, RemoveAtProperties
  <2> QED BY <2>1, <2>2
<1>4. TypeOK'
  BY <1>0, <1>1, <1>2, <1>3 DEF IInv, TypeOK, Waiter
<1>5. ~open' => inbox' = inbox
  OBVIOUS
<1>6. Requests'
  <2>1. \A d \in Callers : writing'[d] \/ answer'[d] # Failed => Active(d)'
    BY <1>0, <1>5 DEF IInv, TypeOK, Requests, Active
  <2>2. \A d \in Callers : answer'[d] \in Frames => answer'[d].code = Expected(d)'
    BY <1>0, <1>5, Kinds DEF IInv, TypeOK, Requests, Expected
  <2>3. ~open' => wire' = <<>> /\ inbox' = <<>>
    BY <1>0, <1>5 DEF IInv, Requests
  <2>4. /\ step'["setup"] \in {"idle", "status"}
        /\ goal' # None => Active("job")'
        /\ step'["job"] \in {"bolt", "again"} => goal' # None
    BY <1>0, <1>5 DEF IInv, Requests, Active
  <2> QED BY <2>1, <2>2, <2>3, <2>4 DEF Requests
<1>7. WaitersExact'
  BY <1>0, <1>2 DEF IInv, TypeOK, WaitersExact, Active, Expected, Single, Failed, Waiting
<1>8. ClosedIsSettled'
  <2>1. ~open => pending = <<>> /\ c \notin Waiters
    BY DEF IInv, ClosedIsSettled, Waiters
  <2> QED BY <2>1, <1>0 DEF Discard, ClosedIsSettled
<1>9. ResumedOnce'
  BY <1>0, <1>1 DEF IInv, TypeOK, ResumedOnce, Active, Failed, Waiting
<1> QED
  BY <1>4, <1>6, <1>7, <1>8, <1>9 DEF IInv

(* ... the answer is late, ...                                              *)
LEMMA TimeoutKeeps ==
    ASSUME IInv, NEW c \in Callers, Timeout(c)
    PROVE  IInv'
<1> USE DEF Timeout
<1>0. /\ c \in Waiters /\ Active(c) /\ answer[c] = Waiting /\ c \notin ToSet(due)
      /\ UNCHANGED <<open, heard, step, writing, chunk, goal, deferred, outcome, known, wire,
                     inbox, bolt, motor, ours, seen, runs, misblamed>>
      /\ answer' = [answer EXCEPT ![c] = Failed]
      /\ unhandled' \in BOOLEAN
  BY DEF IInv, WaitersExact, ResumedOnce, command, lock, TypeOK
<1>1. /\ due' \in Seq(Callers) /\ IsInjective(due')
      /\ ToSet(due') = ToSet(due) \cup {d \in {c} : ~writing[d]}
  <2> DEFINE r == Returns(<<c>>)
  <2>1. TypeOK
    BY DEF IInv
  <2>2. r \in Seq(Callers) /\ IsInjective(r) /\ ToSet(r) = {d \in {c} : ~writing[d]}
    BY <2>1, ReturnsOne
  <2>3. due' = due \o r
    OBVIOUS
  <2> HIDE DEF r
  <2>4. ToSet(due) \cap ToSet(r) = {}
    BY <2>2, <1>0
  <2>5. due \in Seq(Callers) /\ IsInjective(due)
    BY Queues
  <2>6. /\ due \o r \in Seq(Callers) /\ IsInjective(due \o r)
        /\ ToSet(due \o r) = ToSet(due) \cup ToSet(r)
    BY <2>2, <2>4, <2>5, ConcatSet
  <2> QED BY <2>2, <2>3, <2>6
<1>2. /\ pending' \in Seq(Waiter) /\ Single(pending') /\ Waiters' = Waiters \ {c}
      /\ \A i \in DOMAIN pending' : \E j \in DOMAIN pending : pending'[i] = pending[j]
  BY Discards
<1>4. TypeOK'
  BY <1>0, <1>1, <1>2 DEF IInv, TypeOK, Waiter
<1>6. Requests'
  <2>1. \A d \in Callers : writing'[d] \/ answer'[d] # Failed => Active(d)'
    BY <1>0 DEF IInv, TypeOK, Requests, Active
  <2>2. \A d \in Callers : answer'[d] \in Frames => answer'[d].code = Expected(d)'
    BY <1>0, Kinds DEF IInv, TypeOK, Requests, Expected
  <2>3. ~open' => wire' = <<>> /\ inbox' = <<>>
    BY <1>0 DEF IInv, Requests
  <2>4. /\ step'["setup"] \in {"idle", "status"}
        /\ goal' # None => Active("job")'
        /\ step'["job"] \in {"bolt", "again"} => goal' # None
    BY <1>0 DEF IInv, Requests, Active
  <2> QED BY <2>1, <2>2, <2>3, <2>4 DEF Requests
<1>7. WaitersExact'
  BY <1>0, <1>2 DEF IInv, TypeOK, WaitersExact, Active, Expected, Single, Failed, Waiting
<1>8. ClosedIsSettled'
  BY <1>0 DEF IInv, ClosedIsSettled, Waiters
<1>9. ResumedOnce'
  BY <1>0, <1>1 DEF IInv, TypeOK, ResumedOnce, Active, Failed, Waiting
<1> QED
  BY <1>4, <1>6, <1>7, <1>8, <1>9 DEF IInv

(* ... the link ends, ...                                                   *)
LEMMA HangupKeeps ==
    ASSUME IInv, Hangup
    PROVE  IInv'
<1> USE DEF Hangup
<1>0. /\ chunk = 0 /\ EndSession(due)
      /\ UNCHANGED <<heard, step, writing, chunk, goal, deferred, outcome, known, bolt, motor,
                     ours, seen, runs, misblamed>>
  BY DEF Turn, command
<1>1. /\ pending' = <<>> /\ Waiters' = {} /\ ~open' /\ wire' = <<>> /\ inbox' = <<>>
      /\ due' \in Seq(Callers) /\ IsInjective(due')
      /\ ToSet(due') = ToSet(due) \cup {c \in Waiters : ~writing[c]}
      /\ answer' = [c \in Callers |-> IF c \in Waiters THEN Failed ELSE answer[c]]
      /\ unhandled' \in BOOLEAN
  BY <1>0, Queues, Ends
<1>2. open' \in BOOLEAN
  BY DEF EndSession
<1>4. TypeOK'
  <2>1. answer' \in [Callers -> {Waiting, Failed} \cup Frames]
    BY <1>1 DEF IInv, TypeOK
  <2>2. /\ pending' \in Seq(Waiter) /\ wire' \in Seq(Frames) /\ Len(wire') = 0
        /\ inbox' \in Seq([who : Callers, command : {"status"} \cup Goals])
    BY <1>1
  <2>3. chunk' \in 0..2 /\ chunk' <= Len(wire') /\ Len(wire') <= MaxWire
    BY <1>0, <2>2, SessionAssumption
  <2> QED BY <1>0, <1>1, <1>2, <2>1, <2>2, <2>3 DEF IInv, TypeOK, Waiter
<1>6. Requests'
  <2>1. \A d \in Callers : writing'[d] \/ answer'[d] # Failed => Active(d)'
    BY <1>0, <1>1 DEF IInv, TypeOK, Requests, Active
  <2>2. \A d \in Callers : answer'[d] \in Frames => answer'[d].code = Expected(d)'
    BY <1>0, <1>1, Kinds DEF IInv, TypeOK, Requests, Expected
  <2>3. ~open' => wire' = <<>> /\ inbox' = <<>>
    BY <1>0, <1>1 DEF IInv, Requests
  <2>4. /\ step'["setup"] \in {"idle", "status"}
        /\ goal' # None => Active("job")'
        /\ step'["job"] \in {"bolt", "again"} => goal' # None
    BY <1>0, <1>1 DEF IInv, Requests, Active
  <2> QED BY <2>1, <2>2, <2>3, <2>4 DEF Requests
<1>7. WaitersExact'
  BY <1>0, <1>1 DEF IInv, WaitersExact, Active, Failed, Waiting
<1>8. ClosedIsSettled'
  BY <1>1 DEF ClosedIsSettled
<1>9. ResumedOnce'
  BY <1>0, <1>1 DEF IInv, WaitersExact, ResumedOnce, Active, Failed, Waiting
<1> QED
  BY <1>4, <1>6, <1>7, <1>8, <1>9 DEF IInv

(* ... a notification arrives.                                              *)
LEMMA NotifyKeeps ==
    ASSUME IInv, NEW n \in 1..2, Notify(n)
    PROVE  IInv'
<1> USE DEF Notify, conversation, command, lock, history
<1>1. TypeOK'
  BY DEF IInv, TypeOK
<1>2. Requests' /\ WaitersExact' /\ ClosedIsSettled' /\ ResumedOnce'
  BY DEF IInv, Requests, WaitersExact, ClosedIsSettled, ResumedOnce, Waiters, Active, Expected
<1> QED
  BY <1>1, <1>2 DEF IInv

(* A caller sends a request, a fresh one or, resumed, its next.             *)
LEMMA RequestKeeps ==
    ASSUME IInv, NEW c \in Callers, NEW what \in {"status", "bolt", "again"},
           NEW code \in {"status"} \cup Goals, Request(c, what, code),
           c \notin Waiters, open', code = Expected(c)', c = "setup" => what = "status",
           goal # None /\ c # "job" => goal' # None,
           what \in {"bolt", "again"} => goal' # None,
           goal' # None => Active("job") \/ c = "job",
           \A d \in Callers \ {c} : Active(d) => Expected(d)' = Expected(d),
           step["job"] \in {"bolt", "again"} /\ c # "job" => goal' # None,
           due' \in Seq(Callers), IsInjective(due'), ToSet(due') = ToSet(due) \ {c},
           UNCHANGED <<chunk, wire, bolt, motor, ours, unhandled, misblamed>>,
           open' \in BOOLEAN, {heard', known', deferred'} \subseteq States \cup {None},
           goal' \in Goals \cup {None}, seen' \in BOOLEAN, runs' \in Nat,
           outcome' \in [asked : Goals \cup {None}, state : States \cup {None}, confirmed : BOOLEAN]
    PROVE  IInv'
<1>0. /\ step' = [step EXCEPT ![c] = what] /\ writing' = [writing EXCEPT ![c] = TRUE]
      /\ answer' = [answer EXCEPT ![c] = Waiting]
      /\ inbox' = Append(inbox, [who |-> c, command |-> code])
  BY DEF Request
<1>1. /\ pending' \in Seq(Waiter) /\ Single(pending') /\ Waiters' = Waiters \cup {c}
      /\ \A i \in DOMAIN pending' :
            \/ pending'[i] = [who |-> c, expect |-> code]
            \/ \E j \in DOMAIN pending : pending'[i] = pending[j]
  BY Requested
<1>2. TypeOK'
  <2>1. inbox' \in Seq([who : Callers, command : {"status"} \cup Goals])
    BY <1>0 DEF IInv, TypeOK
  <2> QED BY <1>0, <1>1, <2>1 DEF IInv, TypeOK, Waiter
<1>3. Requests'
  <2>1. \A d \in Callers : writing'[d] \/ answer'[d] # Failed => Active(d)'
    BY <1>0 DEF IInv, TypeOK, Requests, Active
  <2>2. \A d \in Callers : answer'[d] \in Frames => answer'[d].code = Expected(d)'
    <3> TAKE d \in Callers
    <3>1. CASE d = c
      BY <3>1, <1>0, Kinds DEF IInv, TypeOK
    <3>2. CASE d # c
      BY <3>2, <1>0, Kinds DEF IInv, TypeOK, Requests
    <3> QED BY <3>1, <3>2
  <2>3. step'["setup"] \in {"idle", "status"}
    BY <1>0 DEF IInv, TypeOK, Requests, Callers
  <2>4. goal' # None => Active("job")'
    BY <1>0 DEF IInv, TypeOK, Requests, Active, Callers
  <2>5. step'["job"] \in {"bolt", "again"} => goal' # None
    BY <1>0 DEF IInv, TypeOK, Requests, Callers
  <2> QED BY <2>1, <2>2, <2>3, <2>4, <2>5 DEF Requests
<1>4. WaitersExact'
  <2>1. \A d \in Callers : d \in Waiters' <=> Active(d)' /\ answer'[d] = Waiting
    BY <1>0, <1>1 DEF IInv, TypeOK, WaitersExact, Active
  <2> DEFINE Expects(d) == IF step'[d] = "status" THEN "status" ELSE goal'
  <2>2. \A d \in Callers : Expected(d)' = Expects(d)
    BY DEF Expected
  <2>3. ASSUME NEW i \in DOMAIN pending'
        PROVE  pending'[i].expect = Expects(pending'[i].who)
    <3>1. CASE pending'[i] = [who |-> c, expect |-> code]
      BY <3>1, <2>2
    <3>2. CASE \E j \in DOMAIN pending : pending'[i] = pending[j]
      <4>1. PICK j \in DOMAIN pending : pending'[i] = pending[j]
        BY <3>2
      <4>2. PICK d \in Callers : d = pending[j].who
        BY Queues DEF Waiters
      <4>3. d \in Waiters
        BY <4>2 DEF Waiters
      <4>4. Active(d) /\ pending[j].expect = Expected(d) /\ d # c
        BY <4>2, <4>3 DEF IInv, WaitersExact
      <4>5. Expected(d)' = Expected(d)
        BY <4>4
      <4> QED BY <4>1, <4>2, <4>4, <4>5, <2>2
    <3> QED BY <1>1, <3>1, <3>2
  <2>4. (\A i \in DOMAIN pending : pending[i].expect = Expected(pending[i].who))'
    BY <2>3 DEF Expected
  <2> QED BY <1>1, <2>1, <2>4 DEF WaitersExact, Single
<1>5. ClosedIsSettled'
  BY DEF ClosedIsSettled
<1>6. ResumedOnce'
  BY <1>0 DEF IInv, TypeOK, ResumedOnce, Active
<1> QED
  BY <1>2, <1>3, <1>4, <1>5, <1>6 DEF IInv

(* A caller has taken the last answer it wanted.                            *)
LEMMA LeaveKeeps ==
    ASSUME IInv, NEW c \in Callers, Returned(c), Leaves(c),
           (goal' = goal /\ (c = "setup" \/ goal = None)) \/ (goal' = None /\ c = "job"),
           \A d \in Callers \ {c} : Active(d) => Expected(d)' = Expected(d),
           UNCHANGED <<open, pending, heard, writing, chunk, wire, inbox, bolt, motor, ours, seen,
                       runs, unhandled, misblamed>>,
           {known', deferred'} \subseteq States \cup {None},
           outcome' \in [asked : Goals \cup {None}, state : States \cup {None}, confirmed : BOOLEAN]
    PROVE  IInv'
<1>0. step' = [step EXCEPT ![c] = "idle"] /\ answer' = [answer EXCEPT ![c] = Failed]
  BY DEF Leaves
<1>1. due' \in Seq(Callers) /\ IsInjective(due') /\ ToSet(due') = ToSet(due) \ {c} /\ c \in ToSet(due)
  <2>1. due # <<>> /\ Head(due) = c /\ due' = Tail(due) /\ due \in Seq(Callers)
    BY Queues DEF Returned, Leaves
  <2>2. due[1] = c /\ 1 \in DOMAIN due
    BY <2>1
  <2>3. c \in ToSet(due)
    BY <2>2 DEF ToSet
  <2> QED BY <2>1, <2>3, Queues, TailSet
<1>2. c \notin Waiters /\ ~writing[c] /\ Waiters' = Waiters
  BY <1>1, Queues DEF IInv, ResumedOnce, Waiters
<1>3. TypeOK'
  BY <1>0, <1>1 DEF IInv, TypeOK, Callers
<1>4. Requests'
  <2>1. \A d \in Callers : writing'[d] \/ answer'[d] # Failed => Active(d)'
    BY <1>0, <1>2 DEF IInv, TypeOK, Requests, Active
  <2>2. \A d \in Callers : answer'[d] \in Frames => answer'[d].code = Expected(d)'
    <3> TAKE d \in Callers
    <3>1. CASE d = c
      BY <3>1, <1>0, Kinds DEF IInv, TypeOK
    <3>2. CASE d # c
      BY <3>2, <1>0, Kinds DEF IInv, TypeOK, Requests
    <3> QED BY <3>1, <3>2
  <2>3. step'["setup"] \in {"idle", "status"}
    BY <1>0 DEF IInv, TypeOK, Requests, Callers
  <2>4. goal' # None => Active("job")'
    BY <1>0 DEF IInv, TypeOK, Requests, Active, Callers
  <2>5. step'["job"] \in {"bolt", "again"} => goal' # None
    BY <1>0 DEF IInv, TypeOK, Requests, Callers
  <2>6. ~open' => wire' = <<>> /\ inbox' = <<>>
    BY DEF IInv, Requests
  <2> QED BY <2>1, <2>2, <2>3, <2>4, <2>5, <2>6 DEF Requests
<1>5. WaitersExact'
  <2>1. \A d \in Callers : d \in Waiters' <=> Active(d)' /\ answer'[d] = Waiting
    BY <1>0, <1>2, Kinds DEF IInv, TypeOK, WaitersExact, Active
  <2> DEFINE Expects(d) == IF step'[d] = "status" THEN "status" ELSE goal'
  <2>2. \A d \in Callers : Expected(d)' = Expects(d)
    BY DEF Expected
  <2>3. ASSUME NEW i \in DOMAIN pending
        PROVE  pending[i].expect = Expects(pending[i].who)
    <3>1. PICK d \in Callers : d = pending[i].who
      BY Queues DEF Waiters
    <3>2. d \in Waiters
      BY <3>1 DEF Waiters
    <3>3. Active(d) /\ pending[i].expect = Expected(d) /\ d # c
      BY <3>1, <3>2, <1>2 DEF IInv, WaitersExact
    <3>4. Expected(d)' = Expected(d)
      BY <3>3
    <3> QED BY <3>1, <3>3, <3>4, <2>2
  <2>4. (\A i \in DOMAIN pending : pending[i].expect = Expected(pending[i].who))'
    BY <2>3 DEF Expected
  <2> QED BY <2>1, <2>4 DEF IInv, WaitersExact
<1>6. ClosedIsSettled'
  BY DEF IInv, ClosedIsSettled
<1>7. ResumedOnce'
  BY <1>0, <1>1, <1>2 DEF IInv, TypeOK, ResumedOnce, Active
<1> QED
  BY <1>3, <1>4, <1>5, <1>6, <1>7 DEF IInv

(* The lock reads, answers and moves on its own account.                    *)
LEMMA LockKeeps ==
    ASSUME IInv, UNCHANGED <<conversation, command, known, unhandled, misblamed>>,
           wire' \in Seq(Frames), Len(wire) <= Len(wire'), Len(wire') <= MaxWire,
           inbox' \in Seq([who : Callers, command : {"status"} \cup Goals]),
           ~open => wire' = wire /\ inbox' = inbox,
           bolt' \in States, motor' \in Goals \cup {None}, {ours', seen'} \subseteq BOOLEAN,
           runs' \in Nat
    PROVE  IInv'
<1> USE DEF conversation, command
<1>1. TypeOK'
  <2>1. chunk \in 0..2 /\ chunk <= Len(wire) /\ Len(wire) \in Nat /\ Len(wire') \in Nat
    BY DEF IInv, TypeOK
  <2>2. chunk' \in 0..2 /\ chunk' <= Len(wire')
    BY <2>1
  <2> QED BY <2>2 DEF IInv, TypeOK
<1>2. Requests' /\ WaitersExact' /\ ClosedIsSettled' /\ ResumedOnce'
  BY DEF IInv, Requests, WaitersExact, ClosedIsSettled, ResumedOnce, Waiters, Active, Expected
<1> QED
  BY <1>1, <1>2 DEF IInv

(* The types a step that leaves a variable alone needs again.               *)
LEMMA Types ==
    ASSUME IInv
    PROVE  /\ open \in BOOLEAN /\ {heard, known, deferred} \subseteq States \cup {None}
           /\ goal \in Goals \cup {None} /\ seen \in BOOLEAN /\ runs \in Nat
           /\ outcome \in [asked : Goals \cup {None}, state : States \cup {None}, confirmed : BOOLEAN]
BY DEF IInv, TypeOK

(* A session is published and its first status asked for.                   *)
LEMMA OpenSessionKeeps ==
    ASSUME IInv, OpenSession
    PROVE  IInv'
<1> USE DEF OpenSession
<1>0. /\ \A c \in Callers : ~Active(c)
      /\ open' = TRUE /\ heard' = None /\ Request("setup", "status", "status")
      /\ UNCHANGED <<due, chunk, goal, deferred, outcome, known, wire, bolt, motor, ours, seen,
                     runs, unhandled, misblamed>>
  BY DEF Idle, Active, command, history
<1>1. "setup" \in Callers /\ "setup" \notin Waiters /\ "setup" \notin ToSet(due)
  BY <1>0 DEF Callers, IInv, WaitersExact, ResumedOnce
<1>2. "status" = Expected("setup")'
  BY <1>0, <1>1 DEF Request, Expected, IInv, TypeOK
<1>3. due' \in Seq(Callers) /\ IsInjective(due') /\ ToSet(due') = ToSet(due) \ {"setup"}
  BY <1>0, <1>1, Queues
<1>4. step["job"] = "idle" /\ goal = None
  BY <1>0 DEF Callers, IInv, Requests, Active
<1>5. \A d \in Callers \ {"setup"} : Active(d) => Expected(d)' = Expected(d)
  BY <1>0
<1> QED
  BY <1>0, <1>1, <1>2, <1>3, <1>4, <1>5, Types, RequestKeeps

(* read() begins, ...                                                       *)
LEMMA ReadKeeps ==
    ASSUME IInv, Read
    PROVE  IInv'
<1> USE DEF Read, JobMayBegin
<1>0. /\ ~Active("job") /\ open /\ open' = open /\ Request("job", "status", "status")
      /\ UNCHANGED <<heard, due, chunk, goal, deferred, outcome, known, wire, bolt, motor, ours,
                     seen, runs, unhandled, misblamed>>
  BY DEF Idle, Active, command, history
<1>1. "job" \in Callers /\ "job" \notin Waiters /\ "job" \notin ToSet(due)
  BY <1>0 DEF Callers, IInv, WaitersExact, ResumedOnce
<1>2. step' = [step EXCEPT !["job"] = "status"]
  BY <1>0 DEF Request
<1>3. due' \in Seq(Callers) /\ IsInjective(due') /\ ToSet(due') = ToSet(due) \ {"job"}
  BY <1>0, <1>1, Queues
<1>4. "status" = Expected("job")'
  BY <1>1, <1>2 DEF Expected, IInv, TypeOK
<1>5. \A d \in Callers \ {"job"} : Active(d) => Expected(d)' = Expected(d)
  BY <1>0, <1>2 DEF Expected, IInv, TypeOK
<1>7. /\ open' /\ open' \in BOOLEAN
      /\ {heard', known', deferred'} \subseteq States \cup {None}
      /\ goal' \in Goals \cup {None} /\ seen' \in BOOLEAN /\ runs' \in Nat
      /\ outcome' \in [asked : Goals \cup {None}, state : States \cup {None}, confirmed : BOOLEAN]
  BY <1>0, Types
<1> QED
  BY <1>0, <1>1, <1>3, <1>4, <1>5, <1>7, RequestKeeps

(* ... and set().                                                           *)
LEMMA SetKeeps ==
    ASSUME IInv, NEW g \in Goals, Set(g)
    PROVE  IInv'
<1> USE DEF Set, JobMayBegin
<1>0. /\ ~Active("job") /\ open /\ open' = open /\ Request("job", "bolt", g)
      /\ goal' = g /\ outcome' = NoOutcome /\ seen' = (bolt = g) /\ runs' = 0
      /\ UNCHANGED <<heard, due, chunk, deferred, known, wire, bolt, motor, ours, unhandled, misblamed>>
  BY DEF Idle, Active
<1>1. "job" \in Callers /\ "job" \notin Waiters /\ "job" \notin ToSet(due)
  BY <1>0 DEF Callers, IInv, WaitersExact, ResumedOnce
<1>2. step' = [step EXCEPT !["job"] = "bolt"]
  BY <1>0 DEF Request
<1>3. due' \in Seq(Callers) /\ IsInjective(due') /\ ToSet(due') = ToSet(due) \ {"job"}
  BY <1>0, <1>1, Queues
<1>4. g = Expected("job")'
  BY <1>0, <1>1, <1>2 DEF Expected, IInv, TypeOK
<1>5. \A d \in Callers \ {"job"} : Active(d) => Expected(d)' = Expected(d)
  <2>1. step["setup"] \in {"idle", "status"}
    BY DEF IInv, Requests
  <2> QED BY <1>2, <2>1 DEF Expected, IInv, TypeOK, Callers, Active
<1>6. outcome' \in [asked : Goals \cup {None}, state : States \cup {None}, confirmed : BOOLEAN]
  BY <1>0 DEF NoOutcome
<1>7. goal' # None
  BY <1>0, Kinds
<1>8. /\ open' /\ open' \in BOOLEAN
      /\ {heard', known', deferred'} \subseteq States \cup {None}
      /\ goal' \in Goals \cup {None} /\ seen' \in BOOLEAN /\ runs' \in Nat
  BY <1>0, Types
<1> QED
  BY <1>0, <1>1, <1>3, <1>4, <1>5, <1>6, <1>7, <1>8, RequestKeeps

(* A caller that is resumed is at the head of the queue, and waits for      *)
(* nothing.                                                                 *)
LEMMA ResumedCaller ==
    ASSUME IInv, NEW c \in Callers, Returned(c)
    PROVE  /\ due # <<>> /\ Head(due) = c
           /\ c \in ToSet(due) /\ c \notin Waiters /\ ~writing[c] /\ Active(c) /\ answer[c] # Waiting
           /\ Tail(due) \in Seq(Callers) /\ IsInjective(Tail(due)) /\ ToSet(Tail(due)) = ToSet(due) \ {c}
<1>1. due # <<>> /\ Head(due) = c /\ due \in Seq(Callers)
  BY Queues DEF Returned
<1>2. due[1] = c /\ 1 \in DOMAIN due
  BY <1>1
<1>3. c \in ToSet(due)
  BY <1>2 DEF ToSet
<1>4. Tail(due) \in Seq(Callers) /\ IsInjective(Tail(due)) /\ ToSet(Tail(due)) = ToSet(due) \ {c}
  BY <1>1, Queues, TailSet
<1> QED
  BY <1>1, <1>3, <1>4, Queues DEF IInv, ResumedOnce

(* read() ends, ...                                                         *)
LEMMA ReadReturnsKeeps ==
    ASSUME IInv, ReadReturns
    PROVE  IInv'
<1> USE DEF ReadReturns
<1>0. /\ Returned("job") /\ step["job"] = "status" /\ goal = None /\ Leaves("job")
      /\ UNCHANGED <<open, pending, heard, writing, chunk, goal, deferred, outcome, wire, inbox,
                     bolt, motor, ours, seen, runs, unhandled, misblamed>>
  BY DEF Commanding, command, lock, history
<1>1. "job" \in Callers
  BY DEF Callers
<1>2. known' \in States \cup {None}
  <2>1. answer["job"] # Failed => answer["job"] \in Frames
    BY <1>0, <1>1, ResumedCaller DEF IInv, TypeOK
  <2>2. answer["job"] # Failed => answer["job"].code = "status"
    BY <1>0, <1>1, <2>1 DEF IInv, Requests, Expected
  <2>3. answer["job"] # Failed => answer["job"].state \in States
    BY <2>1, <2>2 DEF Frames, Goals
  <2> QED BY <2>3 DEF IInv, TypeOK
<1>3. \A d \in Callers \ {"job"} : Active(d) => Expected(d)' = Expected(d)
  BY <1>0 DEF Leaves, Expected, IInv, TypeOK
<1> QED
  BY <1>0, <1>1, <1>2, <1>3, Types, LeaveKeeps

(* ... set() throws, ...                                                    *)
LEMMA SetThrowsKeeps ==
    ASSUME IInv, SetThrows
    PROVE  IInv'
<1> USE DEF SetThrows
<1>0. /\ Returned("job") /\ Leaves("job") /\ goal' = None
      /\ UNCHANGED <<open, pending, heard, writing, chunk, deferred, outcome, known, wire, inbox,
                     bolt, motor, ours, seen, runs, unhandled, misblamed>>
  BY DEF lock, history
<1>1. "job" \in Callers
  BY DEF Callers
<1>3. \A d \in Callers \ {"job"} : Active(d) => Expected(d)' = Expected(d)
  BY <1>0 DEF Leaves, Expected, IInv, TypeOK, Requests, Callers, Active
<1> QED
  BY <1>0, <1>1, <1>3, Types, LeaveKeeps

(* ... asks in the other mode, ...                                          *)
LEMMA SetRetriesKeeps ==
    ASSUME IInv, SetRetries
    PROVE  IInv'
<1> USE DEF SetRetries
<1>0. /\ Returned("job") /\ open /\ open' = open /\ Request("job", "again", goal)
      /\ step["job"] = "bolt" /\ due' = Tail(due)
      /\ UNCHANGED <<heard, chunk, goal, deferred, outcome, known, wire, bolt, motor, ours,
                     seen, runs, unhandled, misblamed>>
  BY DEF command, history
<1>1. "job" \in Callers
  BY DEF Callers
<1>2. goal # None /\ goal \in Goals
  BY <1>0 DEF IInv, TypeOK, Requests
<1>3. step' = [step EXCEPT !["job"] = "again"]
  BY <1>0 DEF Request
<1>4. /\ "job" \notin Waiters
      /\ due' \in Seq(Callers) /\ IsInjective(due') /\ ToSet(due') = ToSet(due) \ {"job"}
  BY <1>0, <1>1, ResumedCaller
<1>5. goal = Expected("job")'
  BY <1>0, <1>1, <1>3 DEF Expected, IInv, TypeOK
<1>6. \A d \in Callers \ {"job"} : Active(d) => Expected(d)' = Expected(d)
  BY <1>0, <1>3 DEF Expected, IInv, TypeOK
<1>7. /\ open' /\ open' \in BOOLEAN
      /\ {heard', known', deferred'} \subseteq States \cup {None}
      /\ goal' \in Goals \cup {None} /\ seen' \in BOOLEAN /\ runs' \in Nat
      /\ outcome' \in [asked : Goals \cup {None}, state : States \cup {None}, confirmed : BOOLEAN]
  BY <1>0, Types
<1> QED
  BY <1>0, <1>1, <1>2, <1>4, <1>5, <1>6, <1>7, RequestKeeps

(* ... reads the state back, ...                                            *)
LEMMA BoltReturnsKeeps ==
    ASSUME IInv, BoltReturns
    PROVE  IInv'
<1> USE DEF BoltReturns
<1>0. /\ Returned("job") /\ step["job"] \in {"bolt", "again"} /\ open' = open
      /\ UNCHANGED <<heard, chunk, wire, bolt, motor, ours, seen, runs, unhandled, misblamed>>
  BY DEF history
<1>1. "job" \in Callers
  BY DEF Callers
<1>2. goal # None /\ goal \in Goals
  BY <1>0 DEF IInv, TypeOK, Requests
<1>3. CASE open
  <2>0. /\ due' = Tail(due) /\ deferred' = heard /\ Request("job", "status", "status")
        /\ UNCHANGED <<goal, outcome, known>>
    BY <1>3
  <2>1. step' = [step EXCEPT !["job"] = "status"]
    BY <2>0 DEF Request
  <2>2. /\ "job" \notin Waiters
        /\ due' \in Seq(Callers) /\ IsInjective(due') /\ ToSet(due') = ToSet(due) \ {"job"}
    BY <1>0, <1>1, <2>0, ResumedCaller
  <2>3. "status" = Expected("job")'
    BY <1>1, <2>1 DEF Expected, IInv, TypeOK
  <2>4. \A d \in Callers \ {"job"} : Active(d) => Expected(d)' = Expected(d)
    BY <2>0, <2>1 DEF Expected, IInv, TypeOK
  <2> QED BY <1>0, <1>1, <1>2, <1>3, <2>0, <2>2, <2>3, <2>4, Types, RequestKeeps
<1>4. CASE ~open
  <2>0. EndSet(heard, FALSE) /\ UNCHANGED <<pending, writing, inbox>>
    BY <1>4
  <2>1. \A d \in Callers \ {"job"} : Active(d) => Expected(d)' = Expected(d)
    BY <2>0 DEF EndSet, Leaves, Expected, IInv, TypeOK, Requests, Callers, Active
  <2>2. /\ {known', deferred'} \subseteq States \cup {None}
        /\ outcome' \in [asked : Goals \cup {None}, state : States \cup {None}, confirmed : BOOLEAN]
    BY <2>0 DEF EndSet, IInv, TypeOK
  <2>3. goal' = None /\ Leaves("job")
    BY <2>0 DEF EndSet
  <2> QED BY <1>0, <1>1, <2>0, <2>1, <2>2, <2>3, LeaveKeeps
<1> QED
  BY <1>3, <1>4

(* ... and reports.                                                         *)
LEMMA SetReturnsKeeps ==
    ASSUME IInv, SetReturns
    PROVE  IInv'
<1> USE DEF SetReturns
<1>0. /\ Returned("job") /\ step["job"] = "status"
      /\ UNCHANGED <<open, pending, heard, writing, chunk, wire, inbox, bolt, motor, ours,
                     seen, runs, unhandled, misblamed>>
  BY DEF lock, history
<1>1. "job" \in Callers
  BY DEF Callers
<1>2. PICK state \in States \cup {None}, isConfirmed \in BOOLEAN : EndSet(state, isConfirmed)
  <2>1. answer["job"] # Failed => answer["job"] \in Frames
    BY <1>0, <1>1, ResumedCaller DEF IInv, TypeOK
  <2>2. answer["job"] # Failed => answer["job"].code = "status"
    BY <1>0, <1>1, <2>1 DEF IInv, Requests, Expected
  <2>3. answer["job"] # Failed => answer["job"].state \in States
    BY <2>1, <2>2 DEF Frames, Goals
  <2>4. deferred \in States \cup {None}
    BY DEF IInv, TypeOK
  <2> QED BY <2>3, <2>4
<1>3. \A d \in Callers \ {"job"} : Active(d) => Expected(d)' = Expected(d)
  BY <1>2 DEF EndSet, Leaves, Expected, IInv, TypeOK, Requests, Callers, Active
<1>4. /\ {known', deferred'} \subseteq States \cup {None}
      /\ outcome' \in [asked : Goals \cup {None}, state : States \cup {None}, confirmed : BOOLEAN]
  BY <1>2 DEF EndSet, IInv, TypeOK
<1>5. goal' = None /\ Leaves("job")
  BY <1>2 DEF EndSet
<1> QED
  BY <1>0, <1>1, <1>3, <1>4, <1>5, LeaveKeeps

(* A frame that answers anyone answers a waiter that expects its code.      *)
LEMMA ClaimantProperties ==
    ASSUME IInv, NEW frame
    PROVE  /\ Claimant(frame) # 0 =>
                Claimant(frame) \in DOMAIN pending /\ pending[Claimant(frame)].expect = frame.code
           /\ Claimant(frame) = 0 => \A i \in DOMAIN pending : pending[i].expect # frame.code
<1> DEFINE I == {i \in 1..Len(pending) : pending[i].expect = frame.code}
<1>1. Len(pending) \in Nat /\ Len(pending) <= 2 /\ DOMAIN pending = 1..Len(pending)
  BY Queues, AtMostTwo
<1>2. Claimant(frame) = IF I # {} THEN Min(I) ELSE 0
  BY DEF Claimant, SelectInSeq
<1>3. I \subseteq {1, 2} /\ 0 \notin I
  BY <1>1
<1>4. I # {} => Min(I) \in I
  <2> HIDE DEF I
  <2> SUFFICES ASSUME I # {} PROVE Min(I) \in I
    OBVIOUS
  <2>1. CASE 1 \in I
    <3>1. \A y \in I : 1 <= y
      BY <1>3
    <3> QED BY <2>1, <3>1 DEF Min
  <2>2. CASE I = {2}
    <3>1. \A y \in I : 2 <= y
      BY <2>2
    <3> QED BY <2>2, <3>1 DEF Min
  <2> QED BY <1>3, <2>1, <2>2
<1>5. CASE I # {}
  <2>1. Claimant(frame) \in I /\ Claimant(frame) # 0
    BY <1>2, <1>3, <1>4, <1>5
  <2> QED BY <1>1, <2>1
<1>6. CASE I = {}
  BY <1>1, <1>2, <1>6
<1> QED
  BY <1>5, <1>6

(* A frame is dispatched.                                                   *)
LEMMA DispatchKeeps ==
    ASSUME IInv, Dispatch
    PROVE  IInv'
<1> USE DEF Dispatch
<1> DEFINE frame == Head(wire)
           k == Claimant(frame)
           c == pending[k].who
<1>0. /\ chunk > 0 /\ chunk' = chunk - 1 /\ wire' = Tail(wire) /\ Hear(frame)
      /\ k = 0 => UNCHANGED <<pending, answer, due>>
      /\ k # 0 => /\ pending' = RemoveAt(pending, k)
                  /\ answer' = [answer EXCEPT ![c] = frame]
                  /\ due' = due \o Returns(<<c>>)
      /\ UNCHANGED <<open, step, writing, goal, deferred, outcome, inbox, bolt, motor, ours,
                     seen, runs, unhandled>>
  BY DEF command, lock
<1>1. /\ wire # <<>> /\ open /\ frame \in Frames /\ wire' \in Seq(Frames) /\ Len(wire') <= MaxWire
      /\ chunk' \in 0..2 /\ chunk' <= Len(wire')
  <2>1. wire \in Seq(Frames) /\ Len(wire) <= MaxWire /\ chunk \in 0..2 /\ chunk <= Len(wire)
    BY DEF IInv, TypeOK
  <2>2. wire # <<>> /\ Len(wire) \in Nat
    BY <1>0, <2>1
  <2>3. frame \in Frames /\ Tail(wire) \in Seq(Frames) /\ Len(Tail(wire)) = Len(wire) - 1
    BY <2>1, <2>2
  <2>4. open
    BY <2>2 DEF IInv, Requests
  <2>5. MaxWire \in Nat
    BY SessionAssumption
  <2> HIDE DEF frame
  <2> QED BY <1>0, <2>1, <2>2, <2>3, <2>4, <2>5
<1>2. {heard', known'} \subseteq States \cup {None} /\ misblamed' \in BOOLEAN
  <2>1. frame.code = "status" => frame.state \in States
    BY <1>1 DEF Frames, Goals
  <2> HIDE DEF frame
  <2>2. misblamed \in BOOLEAN /\ {heard, known} \subseteq States \cup {None}
    BY DEF IInv, TypeOK
  <2>3. CASE frame.code = "status" /\ heard # frame.state
    <3>1. heard' = frame.state /\ known' = frame.state
      BY <1>0, <2>3 DEF Hear
    <3>2. misblamed' \in BOOLEAN
      BY <1>0, <2>3 DEF Hear
    <3> QED BY <2>1, <2>3, <3>1, <3>2
  <2>4. CASE frame.code = "status" /\ heard = frame.state
    BY <1>0, <2>1, <2>2, <2>4 DEF Hear
  <2>5. CASE frame.code # "status"
    BY <1>0, <2>2, <2>5 DEF Hear
  <2> QED BY <2>3, <2>4, <2>5
<1>3. CASE k = 0
  <2>1. UNCHANGED <<pending, answer, due, open, step, writing, goal, deferred, outcome, inbox,
                    bolt, motor, ours, seen, runs, unhandled>>
    BY <1>0, <1>3
  <2>2. TypeOK'
    BY <1>1, <1>2, <2>1 DEF IInv, TypeOK
  <2>3. Requests' /\ WaitersExact' /\ ClosedIsSettled' /\ ResumedOnce'
    BY <1>1, <2>1 DEF IInv, Requests, WaitersExact, ClosedIsSettled, ResumedOnce, Waiters, Active,
                      Expected
  <2> QED BY <2>2, <2>3 DEF IInv
<1>4. CASE k # 0
  <2>0. k \in DOMAIN pending /\ pending[k].expect = frame.code
    BY <1>4, ClaimantProperties
  <2>1. PICK d \in Callers : d = c
    BY <2>0, Queues DEF Waiters
  <2>2. /\ d \in Waiters /\ Active(d) /\ answer[d] = Waiting /\ frame.code = Expected(d)
        /\ d \notin ToSet(due)
    <3>1. d \in Waiters
      BY <2>0, <2>1 DEF Waiters
    <3> QED BY <2>0, <2>1, <3>1, Queues DEF IInv, WaitersExact
  <2>3. /\ pending' \in Seq(Waiter) /\ Single(pending') /\ Waiters' = Waiters \ {d}
        /\ \A i \in DOMAIN pending' : \E j \in DOMAIN pending : pending'[i] = pending[j]
    <3> DEFINE q == RemoveAt(pending, k)
    <3>1. /\ q \in Seq(Waiter) /\ Single(q) /\ Who(q) = Who(pending) \ {d}
          /\ \A i \in DOMAIN q : \E j \in DOMAIN pending : q[i] = pending[j]
      BY <2>0, <2>1, Queues, RemovedWaiter
    <3>2. pending' = q
      BY <1>0, <1>4
    <3> HIDE DEF q
    <3> QED BY <3>1, <3>2, Queues DEF Waiters, Who
  <2>4. /\ due' \in Seq(Callers) /\ IsInjective(due')
        /\ ToSet(due') = ToSet(due) \cup {e \in {d} : ~writing[e]}
    <3> DEFINE r == Returns(<<d>>)
    <3>1. TypeOK
      BY DEF IInv
    <3>2. r \in Seq(Callers) /\ IsInjective(r) /\ ToSet(r) = {e \in {d} : ~writing[e]}
      BY <3>1, ReturnsOne
    <3>3. due' = due \o r
      BY <1>0, <1>4, <2>1
    <3> HIDE DEF r
    <3>4. ToSet(due) \cap ToSet(r) = {}
      BY <3>2, <2>2
    <3>5. due \in Seq(Callers) /\ IsInjective(due)
      BY Queues
    <3>6. /\ due \o r \in Seq(Callers) /\ IsInjective(due \o r)
          /\ ToSet(due \o r) = ToSet(due) \cup ToSet(r)
      BY <3>2, <3>4, <3>5, ConcatSet
    <3> QED BY <3>2, <3>3, <3>6
  <2>5. answer' = [answer EXCEPT ![d] = frame]
    BY <1>0, <1>4, <2>1
  <2> HIDE DEF frame, k, c
  <2>6. TypeOK'
    BY <1>0, <1>1, <1>2, <2>3, <2>4, <2>5 DEF IInv, TypeOK, Waiter
  <2>7. Requests'
    <3>1. \A e \in Callers : writing'[e] \/ answer'[e] # Failed => Active(e)'
      BY <1>0, <2>2, <2>5 DEF IInv, TypeOK, Requests, Active
    <3>2. \A e \in Callers : answer'[e] \in Frames => answer'[e].code = Expected(e)'
      BY <1>0, <2>2, <2>5 DEF IInv, TypeOK, Requests, Expected
    <3>3. /\ step'["setup"] \in {"idle", "status"}
          /\ goal' # None => Active("job")'
          /\ step'["job"] \in {"bolt", "again"} => goal' # None
          /\ open'
      BY <1>0, <1>1 DEF IInv, Requests, Active
    <3> QED BY <3>1, <3>2, <3>3 DEF Requests
  <2>8. WaitersExact'
    <3>1. \A e \in Callers : e \in Waiters' <=> Active(e)' /\ answer'[e] = Waiting
      BY <1>0, <1>1, <2>3, <2>5, Kinds DEF IInv, TypeOK, WaitersExact, Active
    <3>2. \A i \in DOMAIN pending' : (pending[i].expect = Expected(pending[i].who))'
      BY <1>0, <2>3 DEF IInv, WaitersExact, Expected
    <3> QED BY <2>3, <3>1, <3>2 DEF WaitersExact, Single
  <2>9. ClosedIsSettled'
    BY <1>0, <1>1 DEF ClosedIsSettled
  <2>10. ResumedOnce'
    BY <1>0, <1>1, <2>2, <2>4, <2>5, Kinds DEF IInv, TypeOK, ResumedOnce, Active
  <2> QED BY <2>6, <2>7, <2>8, <2>9, <2>10 DEF IInv
<1> QED
  BY <1>3, <1>4

(* The first status is there, or the session is closed.                     *)
LEMMA SetupReturnsKeeps ==
    ASSUME IInv, SetupReturns
    PROVE  IInv'
<1> USE DEF SetupReturns
<1>0. /\ Returned("setup") /\ chunk = 0
      /\ UNCHANGED <<heard, writing, chunk, goal, deferred, outcome, bolt, motor, ours, seen, runs,
                     misblamed>>
  BY DEF Returned, command
<1>1. "setup" \in Callers
  BY DEF Callers
<1>2. /\ "setup" \notin Waiters /\ ~writing["setup"] /\ Active("setup")
      /\ Tail(due) \in Seq(Callers) /\ IsInjective(Tail(due))
      /\ ToSet(Tail(due)) = ToSet(due) \ {"setup"} /\ answer["setup"] # Waiting
  BY <1>0, <1>1, ResumedCaller
<1>3. CASE answer["setup"] = Failed
  <2>0. EndSession(Tail(due)) /\ step' = [step EXCEPT !["setup"] = "idle"] /\ UNCHANGED known
    BY <1>3
  <2>1. /\ pending' = <<>> /\ Waiters' = {} /\ ~open' /\ wire' = <<>> /\ inbox' = <<>>
        /\ due' \in Seq(Callers) /\ IsInjective(due')
        /\ ToSet(due') = (ToSet(due) \ {"setup"}) \cup {d \in Waiters : ~writing[d]}
        /\ answer' = [d \in Callers |-> IF d \in Waiters THEN Failed ELSE answer[d]]
        /\ unhandled' \in BOOLEAN
    <3>1. ToSet(Tail(due)) \subseteq ToSet(due)
      BY <1>2
    <3> QED BY <1>2, <2>0, <3>1, Ends
  <2>2. open' \in BOOLEAN
    BY <2>0 DEF EndSession
  <2>3. TypeOK'
    <3>1. answer' \in [Callers -> {Waiting, Failed} \cup Frames]
      BY <2>1 DEF IInv, TypeOK
    <3>2. /\ pending' \in Seq(Waiter) /\ wire' \in Seq(Frames) /\ Len(wire') = 0
          /\ inbox' \in Seq([who : Callers, command : {"status"} \cup Goals])
      BY <2>1
    <3>3. chunk' \in 0..2 /\ chunk' <= Len(wire') /\ Len(wire') <= MaxWire
      BY <1>0, <3>2, SessionAssumption
    <3>4. step' \in [Callers -> {"idle", "status", "bolt", "again"}]
      BY <2>0 DEF IInv, TypeOK
    <3>5. /\ {heard', known', deferred'} \subseteq States \cup {None}
          /\ goal' \in Goals \cup {None} /\ writing' \in [Callers -> BOOLEAN]
          /\ outcome' \in [asked : Goals \cup {None}, state : States \cup {None}, confirmed : BOOLEAN]
          /\ bolt' \in States /\ motor' \in Goals \cup {None}
          /\ {ours', seen', misblamed'} \subseteq BOOLEAN /\ runs' \in Nat
      BY <1>0, <2>0 DEF IInv, TypeOK
    <3> QED BY <2>1, <2>2, <3>1, <3>2, <3>3, <3>4, <3>5 DEF TypeOK, Waiter
  <2>4. Requests'
    <3>1. \A d \in Callers : writing'[d] \/ answer'[d] # Failed => Active(d)'
      BY <1>0, <1>2, <1>3, <2>0, <2>1 DEF IInv, TypeOK, Requests, Active
    <3>2. \A d \in Callers : answer'[d] \in Frames => answer'[d].code = Expected(d)'
      BY <1>0, <1>3, <2>0, <2>1, Kinds DEF IInv, TypeOK, Requests, Expected
    <3>3. /\ step'["setup"] \in {"idle", "status"}
          /\ goal' # None => Active("job")'
          /\ step'["job"] \in {"bolt", "again"} => goal' # None
      BY <1>0, <2>0 DEF IInv, TypeOK, Requests, Active, Callers
    <3> QED BY <2>1, <3>1, <3>2, <3>3 DEF Requests
  <2>5. WaitersExact'
    BY <1>0, <1>3, <2>0, <2>1, Kinds DEF IInv, TypeOK, WaitersExact, Active
  <2>6. ClosedIsSettled'
    BY <2>1 DEF ClosedIsSettled
  <2>7. ResumedOnce'
    <3>1. \A d \in Callers : d \in ToSet(due') <=> Active(d)' /\ ~writing'[d] /\ answer'[d] # Waiting
      BY <1>0, <1>3, <2>0, <2>1, Kinds DEF IInv, TypeOK, WaitersExact, ResumedOnce, Active
    <3> QED BY <2>1, <3>1 DEF ResumedOnce
  <2> QED BY <2>3, <2>4, <2>5, <2>6, <2>7 DEF IInv
<1>4. CASE answer["setup"] # Failed
  <2>0. /\ Leaves("setup") /\ known' = answer["setup"].state
        /\ UNCHANGED <<open, pending, wire, inbox, unhandled>>
    BY <1>4
  <2>1. known' \in States
    <3>1. answer["setup"] \in Frames
      BY <1>1, <1>2, <1>4 DEF IInv, TypeOK
    <3>2. answer["setup"].code = "status"
      BY <1>1, <1>2, <3>1 DEF IInv, Requests, Expected, Active
    <3> QED BY <2>0, <3>1, <3>2 DEF Frames, Goals
  <2>2. \A d \in Callers \ {"setup"} : Active(d) => Expected(d)' = Expected(d)
    BY <1>0, <2>0 DEF Leaves, Expected, IInv, TypeOK
  <2>3. /\ {known', deferred'} \subseteq States \cup {None}
        /\ outcome' \in [asked : Goals \cup {None}, state : States \cup {None}, confirmed : BOOLEAN]
    BY <1>0, <2>1, Types
  <2>4. UNCHANGED <<open, pending, heard, writing, chunk, wire, inbox, bolt, motor, ours, seen,
                    runs, unhandled, misblamed>>
    BY <1>0, <2>0
  <2>5. goal' = goal /\ ("setup" = "setup" \/ goal = None)
    BY <1>0
  <2>6. PICK c \in Callers : c = "setup"
    BY <1>1
  <2>7. /\ Returned(c) /\ Leaves(c)
        /\ (goal' = goal /\ (c = "setup" \/ goal = None)) \/ (goal' = None /\ c = "job")
        /\ \A d \in Callers \ {c} : Active(d) => Expected(d)' = Expected(d)
    BY <1>0, <2>0, <2>2, <2>5, <2>6
  <2> HIDE DEF SetupReturns
  <2> QED BY <2>3, <2>4, <2>7, LeaveKeeps
<1> QED
  BY <1>3, <1>4

(* The lock answers, ...                                                    *)
LEMMA LockAnswersKeeps ==
    ASSUME IInv, LockAnswers
    PROVE  IInv'
<1> USE DEF LockAnswers
<1>0. inbox # <<>> /\ Len(wire) < MaxWire /\ inbox' = Tail(inbox) /\ UNCHANGED <<bolt, ours, seen>>
  BY DEF Roomy
<1>1. /\ inbox \in Seq([who : Callers, command : {"status"} \cup Goals]) /\ wire \in Seq(Frames)
      /\ bolt \in States /\ motor \in Goals \cup {None} /\ {ours, seen} \subseteq BOOLEAN /\ runs \in Nat
  BY DEF IInv, TypeOK
<1>2. /\ Head(inbox).command \in {"status"} \cup Goals
      /\ inbox' \in Seq([who : Callers, command : {"status"} \cup Goals])
  <2>1. Head(inbox) \in [who : Callers, command : {"status"} \cup Goals]
    BY <1>0, <1>1, TailSet
  <2>2. inbox' \in Seq([who : Callers, command : {"status"} \cup Goals])
    BY <1>0, <1>1, TailSet
  <2> QED BY <2>1, <2>2
<1>3. PICK f \in Frames : wire' = Append(wire, f)
  <2>1. Status(bolt, ours) \in Frames
    BY <1>1 DEF Status, Frames
  <2>2. \A g \in Goals, ok \in BOOLEAN : Ack(g, ok) \in Frames
    BY DEF Ack, Frames
  <2> QED BY <1>2, <2>1, <2>2
<1>4. wire' \in Seq(Frames) /\ Len(wire') = Len(wire) + 1 /\ Len(wire) \in Nat
  BY <1>1, <1>3
<1>5. Len(wire) <= Len(wire') /\ Len(wire') <= MaxWire
  BY <1>0, <1>4, SessionAssumption
<1>6. motor' \in Goals \cup {None} /\ runs' \in Nat
  <2>1. Head(inbox).command # "status" => Head(inbox).command \in Goals
    BY <1>2
  <2>2. runs + 1 \in Nat
    BY <1>1
  <2> QED BY <1>1, <2>1, <2>2
<1>7. open
  BY <1>0 DEF IInv, Requests
<1>8. UNCHANGED <<conversation, command, known, unhandled, misblamed>>
  OBVIOUS
<1> QED
  BY <1>0, <1>1, <1>2, <1>4, <1>5, <1>6, <1>7, <1>8, LockKeeps

(* ... loses a request, ...                                                 *)
LEMMA LockIgnoresKeeps ==
    ASSUME IInv, LockIgnores
    PROVE  IInv'
<1> USE DEF LockIgnores
<1>1. /\ inbox \in Seq([who : Callers, command : {"status"} \cup Goals]) /\ wire \in Seq(Frames)
      /\ bolt \in States /\ motor \in Goals \cup {None} /\ {ours, seen} \subseteq BOOLEAN /\ runs \in Nat
      /\ Len(wire) <= MaxWire /\ Len(wire) \in Nat
  BY DEF IInv, TypeOK
<1>2. inbox' \in Seq([who : Callers, command : {"status"} \cup Goals])
  BY <1>1
<1>3. open
  BY DEF IInv, Requests
<1>4. UNCHANGED <<conversation, command, known, wire, bolt, motor, ours, seen, runs, unhandled, misblamed>>
  BY DEF history
<1> QED
  BY <1>1, <1>2, <1>3, <1>4, LockKeeps

(* The bolt moves, and the lock pushes a status or does not.                *)
LEMMA MovesKeeps ==
    ASSUME IInv, NEW state \in States, NEW byCommand \in BOOLEAN, Moves(state, byCommand),
           motor' \in Goals \cup {None}
    PROVE  IInv'
<1> USE DEF Moves
<1>1. /\ inbox \in Seq([who : Callers, command : {"status"} \cup Goals]) /\ wire \in Seq(Frames)
      /\ seen \in BOOLEAN /\ runs \in Nat /\ Len(wire) <= MaxWire /\ Len(wire) \in Nat
  BY DEF IInv, TypeOK
<1>2. Status(state, byCommand) \in Frames
  BY DEF Status, Frames
<1>3. wire' \in Seq(Frames) /\ Len(wire) <= Len(wire') /\ Len(wire') <= MaxWire
  <2>1. CASE wire' = wire
    BY <2>1, <1>1
  <2>2. CASE wire' = Append(wire, Status(state, byCommand)) /\ Len(wire) < MaxWire
    <3> DEFINE f == Status(state, byCommand)
    <3> HIDE DEF f
    <3>1. wire' \in Seq(Frames) /\ Len(wire') = Len(wire) + 1
      BY <2>2, <1>1, <1>2 DEF f
    <3> QED BY <3>1, <2>2, <1>1, SessionAssumption
  <2> QED BY <2>1, <2>2 DEF Roomy
<1>4. ~open => wire' = wire
  OBVIOUS
<1>5. /\ UNCHANGED <<conversation, command, known, inbox, runs, unhandled, misblamed>>
      /\ bolt' \in States /\ {ours', seen'} \subseteq BOOLEAN
  BY <1>1
<1> QED
  BY <1>1, <1>3, <1>4, <1>5, LockKeeps

(* ... or moves.                                                            *)
LEMMA LockMovesKeeps ==
    ASSUME IInv, MotorRuns \/ JamSettles \/ Keypad
    PROVE  IInv'
<1>1. motor \in Goals \cup {None} /\ ours \in BOOLEAN /\ Goals \subseteq States /\ "Jammed" \in States
  BY DEF IInv, TypeOK, States
<1>2. PICK state \in States, byCommand \in BOOLEAN : Moves(state, byCommand)
  BY <1>1 DEF MotorRuns, JamSettles, Keypad
<1>3. motor' \in Goals \cup {None}
  BY <1>1 DEF MotorRuns, JamSettles, Keypad
<1> QED
  BY <1>2, <1>3, MovesKeeps

(* Nothing happens.                                                         *)
LEMMA StutterKeeps ==
    ASSUME IInv, UNCHANGED vars
    PROVE  IInv'
<1> USE DEF vars, conversation, command, lock, history
<1>1. TypeOK'
  BY DEF IInv, TypeOK
<1>2. Requests' /\ WaitersExact' /\ ClosedIsSettled' /\ ResumedOnce'
  BY DEF IInv, Requests, WaitersExact, ClosedIsSettled, ResumedOnce, Waiters, Active, Expected
<1> QED
  BY <1>1, <1>2 DEF IInv

(* No step breaks the invariant: one case per action.                       *)
LEMMA Step == IInv /\ [Next]_vars => IInv'
<1> SUFFICES ASSUME IInv, [Next]_vars PROVE IInv'
  OBVIOUS
<1>1. CASE Link
  BY <1>1, WriteDoneKeeps, WriteFailsKeeps, TimeoutKeeps, HangupKeeps, NotifyKeeps,
     OpenSessionKeeps DEF Link
<1>2. CASE Reaction
  BY <1>2, DispatchKeeps, SetupReturnsKeeps, ReadReturnsKeeps, SetThrowsKeeps, SetRetriesKeeps,
     BoltReturnsKeeps, SetReturnsKeeps DEF Reaction
<1>3. CASE Command
  BY <1>3, ReadKeeps, SetKeeps DEF Command
<1>4. CASE Lock
  BY <1>4, LockAnswersKeeps, LockIgnoresKeeps, LockMovesKeeps DEF Lock
<1> QED
  BY <1>1, <1>2, <1>3, <1>4, StutterKeeps DEF Next

(* The inductive invariant holds throughout.                                *)
LEMMA Invariance == Spec => []IInv
  BY Start, Step, PTL DEF Spec

-----------------------------------------------------------------------------
(* The order of what is under way, action by action.                        *)

(* Nothing is sent, and the job's answer is lost at most.                   *)
LEMMA QuietKeeps ==
    ASSUME OInv, UNCHANGED <<goal, seen, runs, outcome, bolt>>, step'["job"] = step["job"],
           \/ UNCHANGED <<wire, inbox>> /\ answer'["job"] = answer["job"]
           \/ UNCHANGED <<wire, inbox>> /\ answer'["job"] = Failed /\ ~Asking
           \/ wire' = <<>> /\ inbox' = <<>> /\ answer'["job"] \in {answer["job"], Failed}
    PROVE  OneCommand' /\ OneRun' /\ Fresh'
<1>1. CASE UNCHANGED <<wire, inbox>> /\ answer'["job"] = answer["job"]
  BY <1>1 DEF OInv, OneCommand, OneRun, Fresh, ConfirmedIsReal, MovesOnce, Asking, BoltRequests, Acks,
              Reports
<1>2. CASE wire' = <<>> /\ inbox' = <<>> /\ answer'["job"] \in {answer["job"], Failed}
  <2>1. BoltRequests' = {} /\ Acks' = {}
    BY <1>2 DEF BoltRequests, Acks
  <2>2. DOMAIN wire' = {} /\ DOMAIN inbox' = {}
    BY <1>2
  <2>3. OneCommand'
    BY <2>1, <2>2 DEF OneCommand
  <2>4. OneRun'
    BY <1>2, <2>1, Kinds DEF OInv, OneRun, MovesOnce
  <2>5. ~Reports(Failed, goal)
    BY DEF Reports, Failed
  <2>6. Fresh'
    <3>1. goal' # None /\ bolt' = goal' => seen'
      BY DEF OInv, Fresh
    <3>2. goal' # None /\ (step'["job"] = "status" \/ answer'["job"] \in Frames) =>
              (Reports(answer["job"], goal) => seen)'
      BY <1>2, <2>5, Kinds DEF OInv, Fresh, Reports
    <3>3. ConfirmedIsReal'
      BY DEF OInv, Fresh, ConfirmedIsReal
    <3> QED BY <2>1, <2>2, <3>1, <3>2, <3>3 DEF Fresh
  <2> QED BY <2>3, <2>4, <2>6
<1>3. CASE UNCHANGED <<wire, inbox>> /\ answer'["job"] = Failed /\ ~Asking
  <2>1. Acks' = {} /\ BoltRequests' = {} /\ ~Asking'
    BY <1>3, Kinds DEF OInv, OneCommand, Asking, BoltRequests, Acks
  <2>2. OneCommand'
    BY <2>1 DEF OneCommand
  <2>3. OneRun'
    BY <1>3, <2>1, Kinds DEF OInv, OneRun, MovesOnce
  <2>4. ~Reports(Failed, goal)
    BY DEF Reports, Failed
  <2>5. Fresh'
    BY <1>3, <2>1, <2>4, Kinds DEF OInv, Fresh, Reports, ConfirmedIsReal
  <2> QED BY <2>2, <2>3, <2>5
<1> QED
  BY <1>1, <1>2, <1>3

(* The job is over, and asks for nothing.                                   *)
LEMMA JobLeavesKeeps ==
    ASSUME OInv, UNCHANGED <<seen, runs, bolt, wire, inbox>>, ~Asking,
           step'["job"] = "idle", goal' = None, ConfirmedIsReal'
    PROVE  OneCommand' /\ OneRun' /\ Fresh'
<1>1. BoltRequests = {} /\ Acks = {} /\ BoltRequests' = {} /\ Acks' = {} /\ ~Asking'
  BY DEF OInv, OneCommand, BoltRequests, Acks, Asking
<1>2. OneCommand'
  BY <1>1 DEF OneCommand
<1>3. OneRun'
  BY <1>1 DEF OInv, OneRun, MovesOnce
<1>4. Fresh'
  BY <1>1 DEF Fresh
<1> QED
  BY <1>2, <1>3, <1>4

(* A status is asked for.                                                   *)
LEMMA StatusRequestKeeps ==
    ASSUME OInv, NEW c \in Callers, Request(c, "status", "status"), ~Asking,
           UNCHANGED <<seen, runs, bolt, wire, outcome, goal>>,
           c = "setup" => step["job"] = "idle",
           c = "job" /\ goal # None => answer["job"] \in Frames
    PROVE  OneCommand' /\ OneRun' /\ Fresh'
<1>0. step \in [Callers -> {"idle", "status", "bolt", "again"}] /\ "job" \in Callers
      /\ answer \in [Callers -> {Waiting, Failed} \cup Frames]
      /\ inbox \in Seq([who : Callers, command : {"status"} \cup Goals])
  BY DEF OInv, IInv, TypeOK, Callers
<1>1. BoltRequests = {} /\ Acks = {} /\ Acks' = {} /\ ~Asking'
  <2>1. step'["job"] \in {"idle", "status"}
    BY <1>0 DEF Request, Callers
  <2> QED BY <2>1 DEF OInv, OneCommand, BoltRequests, Acks, Asking
<1>2. BoltRequests' = {}
  <2> DEFINE r == [who |-> c, command |-> "status"]
  <2>1. inbox' = Append(inbox, r) /\ r.command = "status"
    BY DEF Request
  <2> HIDE DEF r
  <2>2. \A i \in DOMAIN inbox' : inbox'[i] = r \/ (i \in DOMAIN inbox /\ inbox'[i] = inbox[i])
    BY <1>0, <2>1
  <2> QED BY <1>1, <2>1, <2>2 DEF BoltRequests
<1>3. OneCommand'
  BY <1>1, <1>2 DEF OneCommand
<1>4. step'["job"] # "bolt"
  BY <1>0 DEF Request, Callers
<1>5. OneRun'
  BY <1>1, <1>2, <1>4 DEF OInv, OneRun, MovesOnce
<1>6. Fresh'
  <2>1. answer'["job"] = IF c = "job" THEN Waiting ELSE answer["job"]
    BY <1>0 DEF Request
  <2>2. ~Reports(Waiting, goal)
    BY DEF Reports, Waiting
  <2>3. goal # None => c = "job"
    BY DEF OInv, IInv, Requests, Active, Callers
  <2> QED BY <1>1, <2>1, <2>2, <2>3 DEF OInv, Fresh, Reports, ConfirmedIsReal
<1> QED
  BY <1>3, <1>5, <1>6

(* A bolt command goes out, when the motor has not run for this set().      *)
LEMMA BoltRequestKeeps ==
    ASSUME OInv, NEW what \in {"bolt", "again"}, NEW g \in Goals, Request("job", what, g), ~Asking,
           UNCHANGED <<bolt, wire>>, runs' = 0, goal' = g, bolt' = g => seen', ConfirmedIsReal'
    PROVE  OneCommand' /\ OneRun' /\ Fresh'
<1>0. step \in [Callers -> {"idle", "status", "bolt", "again"}] /\ "job" \in Callers
      /\ answer \in [Callers -> {Waiting, Failed} \cup Frames]
      /\ inbox \in Seq([who : Callers, command : {"status"} \cup Goals])
  BY DEF OInv, IInv, TypeOK, Callers
<1>1. BoltRequests = {} /\ Acks' = {}
  BY DEF OInv, OneCommand, BoltRequests, Acks, Asking
<1>2. step'["job"] = what /\ answer'["job"] = Waiting
  BY <1>0 DEF Request
<1> DEFINE r == [who |-> "job", command |-> g]
           n == Len(inbox)
<1>3. inbox' = Append(inbox, r) /\ r.who = "job" /\ r.command = g /\ g # "status"
  BY DEF Request, Goals
<1>4. n \in Nat /\ DOMAIN inbox = 1..n
  BY <1>0
<1> HIDE DEF r, n
<1>5. /\ DOMAIN inbox' = 1..(n + 1) /\ inbox'[n + 1] = r
      /\ \A i \in 1..n : inbox'[i] = inbox[i]
  BY <1>0, <1>3, <1>4 DEF n
<1>6. \A i \in 1..(n + 1) : i = n + 1 \/ i \in 1..n
  BY <1>4
<1>7. \A i \in BoltRequests' : i = n + 1
  BY <1>1, <1>4, <1>5, <1>6 DEF BoltRequests
<1>8. n + 1 \in BoltRequests' /\ Asking'
  BY <1>2, <1>3, <1>4, <1>5 DEF BoltRequests, Asking
<1>9. OneCommand'
  <2>1. \A i \in BoltRequests' : \A j \in DOMAIN inbox' : j <= i
    BY <1>4, <1>5, <1>7
  <2>2. \A i \in BoltRequests' : inbox'[i].who = "job"
    BY <1>3, <1>5, <1>7
  <2> QED BY <1>1, <1>8, <2>1, <2>2 DEF OneCommand
<1>10. OneRun'
  BY <1>1, <1>2, Kinds DEF OneRun, MovesOnce
<1>11. Fresh'
  BY <1>1, <1>2, Kinds DEF Fresh
<1> QED
  BY <1>9, <1>10, <1>11

(* A write that fails takes back the request, which the lock has not read.  *)
LEMMA WriteFailsOrdered ==
    ASSUME OInv, NEW c \in Callers, WriteFails(c)
    PROVE  OneCommand' /\ OneRun' /\ Fresh'
<1> USE DEF WriteFails
<1>0. /\ UNCHANGED <<goal, seen, runs, outcome, bolt, step, wire>>
      /\ answer' = [answer EXCEPT ![c] = Failed]
      /\ answer \in [Callers -> {Waiting, Failed} \cup Frames]
      /\ inbox \in Seq([who : Callers, command : {"status"} \cup Goals])
      /\ "job" \in Callers
  BY DEF command, history, OInv, IInv, TypeOK, Callers
<1>1. CASE ~open
  <2>1. wire' = <<>> /\ inbox' = <<>>
    BY <1>1, <1>0 DEF OInv, IInv, Requests
  <2>2. answer'["job"] \in {answer["job"], Failed}
    BY <1>0
  <2> QED BY <1>0, <2>1, <2>2, QuietKeeps
<1>2. CASE open
  <2>1. PICK k \in DOMAIN inbox :
            /\ answer[c] = Waiting /\ inbox[k].who = c
            /\ \A j \in DOMAIN inbox : inbox[j].who = c => j <= k
            /\ inbox' = RemoveAt(inbox, k)
    BY <1>2
  <2> DEFINE n == Len(inbox)
             At(i) == IF i < k THEN i ELSE i + 1
  <2>2. n \in Nat /\ DOMAIN inbox = 1..n /\ k \in 1..n
    BY <1>0, <2>1
  <2>k. k \in 1..Len(inbox)
    BY <2>2
  <2>3. DOMAIN inbox' = 1..(n - 1) /\ \A i \in 1..(n - 1) : inbox'[i] = inbox[At(i)]
    <3>1. /\ Len(RemoveAt(inbox, k)) = Len(inbox) - 1 /\ DOMAIN RemoveAt(inbox, k) = 1..(Len(inbox) - 1)
          /\ \A j \in 1..(Len(inbox) - 1) : RemoveAt(inbox, k)[j] = IF j < k THEN inbox[j] ELSE inbox[j + 1]
      <4> DEFINE R == [who : Callers, command : {"status"} \cup Goals]
                 q == RemoveAt(inbox, k)
      <4>1. inbox \in Seq(R)
        BY <1>0
      <4> HIDE DEF R
      <4>2. /\ q \in Seq(R) /\ Len(q) = Len(inbox) - 1
            /\ \A j \in 1..(Len(inbox) - 1) : q[j] = IF j < k THEN inbox[j] ELSE inbox[j + 1]
        BY <2>k, <4>1, RemoveAtProperties
      <4> HIDE DEF q
      <4>3. DOMAIN q = 1..(Len(inbox) - 1)
        BY <4>2
      <4> QED BY <4>2, <4>3 DEF q
    <3>2. n - 1 \in Nat
      BY <2>2
    <3> QED BY <2>1, <3>1, <3>2
  <2> HIDE DEF n
  <2>4. \A i \in 1..(n - 1) : At(i) \in 1..n /\ At(i) # k
    BY <2>2
  <2>5. \A i, j \in 1..(n - 1) : At(i) <= At(j) => i <= j
    BY <2>2
  <2> HIDE DEF At
  <2>6. \A i \in BoltRequests' : At(i) \in BoltRequests
    BY <2>2, <2>3, <2>4 DEF BoltRequests
  <2>7. CASE c = "job"
    <3>1. BoltRequests \subseteq {k}
      <4> SUFFICES ASSUME NEW b \in BoltRequests PROVE b = k
        OBVIOUS
      <4>1. inbox[b].who = "job" /\ b \in 1..n
        BY <2>2 DEF OInv, OneCommand, BoltRequests
      <4>2. b <= k
        BY <2>1, <2>2, <2>7, <4>1
      <4>3. k <= b
        BY <2>1, <2>7 DEF OInv, OneCommand
      <4> QED BY <2>2, <4>1, <4>2, <4>3
    <3>2. BoltRequests' = {}
      <4>1. \A i \in BoltRequests' : i \in 1..(n - 1)
        BY <2>3 DEF BoltRequests
      <4> QED BY <2>4, <2>6, <3>1, <4>1
    <3>3. Acks = {} /\ Acks' = {}
      <4>1. Asking => BoltRequests # {}
        BY <2>1, <2>7 DEF OInv, OneCommand
      <4>2. Acks = {}
        BY <4>1 DEF OInv, OneCommand
      <4> QED BY <1>0, <4>2 DEF Acks
    <3>4. answer'["job"] = Failed /\ ~Asking'
      BY <1>0, <2>7, Kinds DEF Asking
    <3>5. OneCommand'
      BY <3>2, <3>3, <3>4 DEF OneCommand
    <3>6. OneRun'
      BY <1>0, <3>2, <3>3, <3>4, Kinds DEF OInv, OneRun, MovesOnce
    <3>7. ~Reports(Failed, goal)
      BY DEF Reports, Failed
    <3>8. Fresh'
      BY <1>0, <3>3, <3>4, <3>7, Kinds DEF OInv, Fresh, Reports, ConfirmedIsReal
    <3> QED BY <3>5, <3>6, <3>8
  <2>8. CASE c # "job"
    <3>1. answer'["job"] = answer["job"] /\ (Asking' <=> Asking) /\ Acks' = Acks
      BY <1>0, <2>8 DEF Asking, Acks
    <3>2. \A i \in BoltRequests : i # k /\ i \in 1..n
      BY <2>1, <2>2, <2>8 DEF OInv, OneCommand, BoltRequests
    <3>3. BoltRequests' = {} => BoltRequests = {}
      <4> SUFFICES ASSUME NEW i \in BoltRequests PROVE BoltRequests' # {}
        OBVIOUS
      <4>1. PICK j \in 1..(n - 1) : At(j) = i
        <5>1. CASE i < k
          <6>1. i \in 1..(n - 1) /\ At(i) = i
            BY <5>1, <2>2, <3>2 DEF At
          <6> QED BY <6>1
        <5>2. CASE i > k
          <6>1. i - 1 \in 1..(n - 1) /\ At(i - 1) = i
            BY <5>2, <2>2, <3>2 DEF At
          <6> QED BY <6>1
        <5> QED BY <2>2, <3>2, <5>1, <5>2
      <4>2. j \in BoltRequests'
        BY <2>3, <4>1 DEF BoltRequests
      <4> QED BY <4>2
    <3>4. OneCommand'
      <4>1. BoltRequests' # {} => BoltRequests # {}
        BY <2>6
      <4>2. \A i \in BoltRequests' : i \in 1..(n - 1) /\ inbox'[i].who = "job"
        BY <2>3, <2>6 DEF OInv, OneCommand, BoltRequests
      <4>3. \A i \in BoltRequests' : \A j \in DOMAIN inbox' : inbox'[j].who = "job" => j <= i
        <5> SUFFICES ASSUME NEW i \in BoltRequests', NEW j \in 1..(n - 1), inbox[At(j)].who = "job"
                     PROVE  j <= i
          BY <2>3
        <5>1. At(j) <= At(i)
          BY <2>2, <2>4, <2>6 DEF OInv, OneCommand
        <5> QED BY <2>5, <4>2, <5>1
      <4>4. Asking' /\ BoltRequests' = {} => \A j \in DOMAIN inbox' : inbox'[j].who # "job"
        BY <2>2, <2>3, <2>4, <3>1, <3>3 DEF OInv, OneCommand
      <4> QED BY <3>1, <4>1, <4>2, <4>3, <4>4 DEF OInv, OneCommand
    <3>5. OneRun'
      BY <1>0, <2>6, <3>1 DEF OInv, OneRun, MovesOnce
    <3>6. Fresh'
      BY <1>0, <3>1 DEF OInv, Fresh, Reports, ConfirmedIsReal
    <3> QED BY <3>4, <3>5, <3>6
  <2> QED BY <2>7, <2>8
<1> QED
  BY <1>1, <1>2

(* The frame at the head of the wire is dispatched.                         *)
LEMMA DispatchOrdered ==
    ASSUME OInv, Dispatch
    PROVE  OneCommand' /\ OneRun' /\ Fresh'
<1> USE DEF Dispatch
<1> DEFINE frame == Head(wire)
           k == Claimant(frame)
           n == Len(wire)
<1>0. /\ UNCHANGED <<goal, seen, runs, outcome, bolt, step, inbox>> /\ wire' = Tail(wire)
      /\ k = 0 => answer' = answer
      /\ k # 0 => answer' = [answer EXCEPT ![pending[k].who] = frame]
  BY DEF command, lock
<1>1. /\ wire \in Seq(Frames) /\ n \in Nat /\ n > 0 /\ DOMAIN wire = 1..n
      /\ answer \in [Callers -> {Waiting, Failed} \cup Frames] /\ "job" \in Callers
  BY DEF OInv, IInv, TypeOK, Callers
<1>2. /\ DOMAIN wire' = 1..(n - 1) /\ \A j \in 1..(n - 1) : wire'[j] = wire[j + 1]
      /\ frame = wire[1] /\ frame \in Frames
  BY <1>0, <1>1
<1> HIDE DEF n, frame
<1>3. \A j \in 1..(n - 1) : j + 1 \in 1..n /\ j + 1 # 1
  BY <1>1
<1>4. \A i \in Acks' : i \in 1..(n - 1) /\ i + 1 \in Acks
  BY <1>1, <1>2, <1>3 DEF Acks
<1>5. BoltRequests' = BoltRequests /\ DOMAIN inbox' = DOMAIN inbox /\ 1 \in 1..n
  BY <1>0, <1>1 DEF BoltRequests
<1>6. CASE answer'["job"] = answer["job"]
  <2>1. Asking' <=> Asking
    BY <1>0, <1>6 DEF Asking
  <2>2. OneCommand'
    <3>1. Acks' # {} => Acks # {}
      BY <1>4
    <3>2. \A i, j \in Acks' : i = j
      <4> SUFFICES ASSUME NEW i \in Acks', NEW j \in Acks' PROVE i = j
        OBVIOUS
      <4>1. i + 1 = j + 1
        BY <1>4 DEF OInv, OneCommand
      <4> QED BY <1>4, <4>1
    <3> QED BY <1>0, <1>5, <2>1, <3>1, <3>2 DEF OInv, OneCommand
  <2>3. OneRun'
    BY <1>0, <1>2, <1>4, <1>5, <1>6 DEF OInv, OneRun, MovesOnce
  <2>4. Fresh'
    <3>1. \A i \in Acks', j \in DOMAIN wire' : i < j /\ Reports(wire'[j], goal) => seen
      <4> SUFFICES ASSUME NEW i \in Acks', NEW j \in 1..(n - 1), i < j, Reports(wire[j + 1], goal)
                   PROVE  seen
        BY <1>2
      <4>1. i + 1 \in Acks /\ j + 1 \in DOMAIN wire /\ i + 1 < j + 1
        BY <1>1, <1>3, <1>4
      <4> QED BY <4>1 DEF OInv, Fresh
    <3>2. goal # None /\ (step["job"] = "status" \/ answer["job"] \in Frames) =>
              /\ \A j \in DOMAIN wire' : Reports(wire'[j], goal) => seen
              /\ Reports(answer["job"], goal) => seen
      BY <1>1, <1>2, <1>3 DEF OInv, Fresh
    <3> QED BY <1>0, <1>6, <3>1, <3>2 DEF OInv, Fresh, Reports, ConfirmedIsReal
  <2> QED BY <2>2, <2>3, <2>4
<1>7. CASE answer'["job"] # answer["job"]
  <2>1. k # 0 /\ k \in DOMAIN pending /\ pending[k].who = "job" /\ pending[k].expect = frame.code
    <3>1. k # 0
      BY <1>0, <1>7
    <3> QED BY <1>0, <1>1, <1>7, <3>1, ClaimantProperties DEF OInv
  <2>2. answer'["job"] = frame /\ answer["job"] = Waiting /\ frame.code = Expected("job")
    <3>1. "job" \in Waiters
      BY <2>1 DEF Waiters
    <3> QED BY <1>0, <1>1, <2>1, <3>1 DEF OInv, IInv, WaitersExact
  <2>3. step["job"] \in {"bolt", "again"} => frame.code # "status" /\ 1 \in Acks /\ Asking
    <3>1. step["job"] \in {"bolt", "again"} => frame.code \in Goals
      BY <2>2 DEF OInv, IInv, TypeOK, Requests, Expected
    <3>2. frame.code \in Goals => frame.code # "status"
      BY DEF Goals
    <3> QED BY <1>1, <1>2, <1>5, <2>2, <3>1, <3>2 DEF Acks, Asking
  <2>4. step["job"] \notin {"bolt", "again"} => step["job"] = "status"
    BY <1>1, <2>2, Kinds DEF OInv, IInv, TypeOK, Requests, Active
  <2>5. Acks' = {} /\ BoltRequests' = {} /\ ~Asking'
    <3>1. Acks' = {}
      <4> SUFFICES ASSUME NEW i \in Acks' PROVE FALSE
        OBVIOUS
      <4>1. i + 1 \in Acks /\ i \in 1..(n - 1)
        BY <1>4
      <4>2. 1 \in Acks
        BY <4>1, <2>3 DEF OInv, OneCommand, Asking
      <4>3. i + 1 = 1
        BY <4>1, <4>2 DEF OInv, OneCommand
      <4> QED BY <4>1, <4>3
    <3>2. BoltRequests = {}
      BY <2>3 DEF OInv, OneCommand, Asking
    <3>3. ~Asking'
      BY <1>2, <2>2, Kinds DEF Asking
    <3> QED BY <1>5, <3>1, <3>2, <3>3
  <2>6. OneCommand'
    BY <2>5 DEF OneCommand
  <2>7. OneRun'
    <3>1. step["job"] = "bolt" /\ ~frame.ok => runs = 0
      BY <1>2, <2>3 DEF OInv, OneRun
    <3> QED BY <1>0, <2>2, <2>5, <3>1 DEF OInv, OneRun, MovesOnce
  <2>8. Fresh'
    <3>1. \A j \in DOMAIN wire' : goal # None /\ Reports(wire'[j], goal) => seen
      <4> SUFFICES ASSUME NEW j \in 1..(n - 1), goal # None, Reports(wire[j + 1], goal) PROVE seen
        BY <1>2
      <4>1. j + 1 \in DOMAIN wire /\ 1 < j + 1
        BY <1>1, <1>3
      <4>2. CASE step["job"] \in {"bolt", "again"}
        BY <4>1, <4>2, <2>3 DEF OInv, Fresh
      <4>3. CASE step["job"] = "status"
        BY <4>1, <4>3 DEF OInv, Fresh
      <4> QED BY <2>4, <4>2, <4>3
    <3>2. goal # None /\ Reports(frame, goal) => seen
      <4> SUFFICES ASSUME goal # None, Reports(frame, goal) PROVE seen
        OBVIOUS
      <4>1. frame.code = "status" /\ 1 \in DOMAIN wire
        BY <1>1, <1>5 DEF Reports
      <4>2. step["job"] = "status"
        BY <2>3, <2>4, <4>1
      <4> QED BY <1>2, <4>1, <4>2 DEF OInv, Fresh
    <3> QED BY <1>0, <2>2, <2>5, <3>1, <3>2 DEF OInv, Fresh, Reports, ConfirmedIsReal
  <2> QED BY <2>6, <2>7, <2>8
<1> QED
  BY <1>6, <1>7

(* The lock takes the next request: a bolt command is the last of the job's. *)
LEMMA NextRequest ==
    ASSUME OInv, inbox # <<>>, inbox' = Tail(inbox), answer' = answer, step' = step
    PROVE  /\ Head(inbox).command \in {"status"} \cup Goals
           /\ Head(inbox).command # "status" => BoltRequests # {} /\ BoltRequests' = {}
           /\ BoltRequests' # {} => BoltRequests # {}
           /\ \A i \in BoltRequests' :
                 /\ inbox'[i].who = "job"
                 /\ \A j \in DOMAIN inbox' : inbox'[j].who = "job" => j <= i
           /\ Asking /\ BoltRequests' = {} => \A j \in DOMAIN inbox' : inbox'[j].who # "job"
<1> DEFINE m == Len(inbox)
           r == inbox[1]
<1>1. inbox \in Seq([who : Callers, command : {"status"} \cup Goals])
  BY DEF OInv, IInv, TypeOK
<1>2. m \in Nat /\ m > 0 /\ DOMAIN inbox = 1..m /\ Head(inbox) = r
  BY <1>1
<1>3. Head(inbox).command \in {"status"} \cup Goals
  <2>1. Head(inbox) \in [who : Callers, command : {"status"} \cup Goals]
    BY <1>1, TailSet
  <2> QED BY <2>1
<1>4. DOMAIN inbox' = 1..(m - 1) /\ \A i \in 1..(m - 1) : inbox'[i] = inbox[i + 1]
  BY <1>1, <1>2
<1> HIDE DEF m, r
<1>5. \A i \in 1..(m - 1) : i + 1 \in 1..m /\ i + 1 > 1
  BY <1>2
<1>6. \A i \in BoltRequests' : i \in 1..(m - 1) /\ i + 1 \in BoltRequests
  BY <1>2, <1>4, <1>5 DEF BoltRequests
<1>7. \A i \in BoltRequests' :
         /\ inbox'[i].who = "job"
         /\ \A j \in DOMAIN inbox' : inbox'[j].who = "job" => j <= i
  <2> SUFFICES ASSUME NEW i \in BoltRequests'
               PROVE  /\ inbox[i + 1].who = "job"
                      /\ \A j \in 1..(m - 1) : inbox[j + 1].who = "job" => j <= i
    BY <1>4, <1>6
  <2>1. ASSUME NEW j \in 1..(m - 1), inbox[j + 1].who = "job"
        PROVE  j <= i
    <3>1. j + 1 <= i + 1
      BY <1>2, <1>5, <1>6, <2>1 DEF OInv, OneCommand
    <3> QED BY <1>6, <3>1
  <2> QED BY <1>6, <2>1 DEF OInv, OneCommand
<1>8. ASSUME r.command # "status"
      PROVE  BoltRequests # {} /\ BoltRequests' = {} /\ \A j \in DOMAIN inbox' : inbox'[j].who # "job"
  <2>1. 1 \in BoltRequests
    BY <1>2, <1>8 DEF BoltRequests, r
  <2>2. \A j \in DOMAIN inbox' : inbox'[j].who # "job"
    <3> SUFFICES ASSUME NEW j \in 1..(m - 1), inbox[j + 1].who = "job" PROVE FALSE
      BY <1>4
    <3>1. j + 1 <= 1
      BY <1>2, <1>5, <2>1 DEF OInv, OneCommand
    <3> QED BY <1>5, <3>1
  <2> QED BY <1>4, <1>6, <1>7, <2>1, <2>2
<1>9. ASSUME r.command = "status", Asking, BoltRequests' = {}
      PROVE  \A j \in DOMAIN inbox' : inbox'[j].who # "job"
  <2>1. BoltRequests = {}
    <3> SUFFICES ASSUME NEW i \in BoltRequests PROVE FALSE
      OBVIOUS
    <3>1. i \in 1..m /\ i # 1
      BY <1>2, <1>9 DEF BoltRequests, r
    <3>2. i - 1 \in 1..(m - 1) /\ (i - 1) + 1 = i
      BY <1>2, <3>1
    <3>3. i - 1 \in BoltRequests'
      BY <1>4, <3>2 DEF BoltRequests
    <3> QED BY <1>9, <3>3
  <2> QED BY <1>2, <1>4, <1>5, <1>9, <2>1 DEF OInv, OneCommand
<1> QED
  BY <1>2, <1>3, <1>6, <1>7, <1>8, <1>9

(* The lock loses a request.                                                *)
LEMMA LockIgnoresOrdered ==
    ASSUME OInv, LockIgnores
    PROVE  OneCommand' /\ OneRun' /\ Fresh'
<1> USE DEF LockIgnores
<1>1. /\ UNCHANGED <<goal, seen, runs, outcome, bolt, step, answer, wire>>
      /\ inbox # <<>> /\ inbox' = Tail(inbox)
  BY DEF command, conversation, history
<1>2. Acks' = Acks /\ (Asking' <=> Asking)
  BY <1>1 DEF Acks, Asking
<1>3. /\ BoltRequests' # {} => BoltRequests # {}
      /\ \A i \in BoltRequests' :
            /\ inbox'[i].who = "job"
            /\ \A j \in DOMAIN inbox' : inbox'[j].who = "job" => j <= i
      /\ Asking /\ BoltRequests' = {} => \A j \in DOMAIN inbox' : inbox'[j].who # "job"
  BY <1>1, NextRequest
<1>4. OneCommand'
  BY <1>1, <1>2, <1>3 DEF OInv, OneCommand
<1>5. OneRun'
  BY <1>1, <1>2, <1>3 DEF OInv, OneRun, MovesOnce
<1>6. Fresh'
  BY <1>1, <1>2 DEF OInv, Fresh, Reports, ConfirmedIsReal
<1> QED
  BY <1>4, <1>5, <1>6

(* The lock answers a request.                                              *)
LEMMA LockAnswersOrdered ==
    ASSUME OInv, LockAnswers
    PROVE  OneCommand' /\ OneRun' /\ Fresh'
<1> USE DEF LockAnswers
<1> DEFINE n == Len(wire)
           command1 == Head(inbox).command
<1>0. /\ UNCHANGED <<goal, seen, outcome, bolt, step, answer>> /\ inbox # <<>> /\ inbox' = Tail(inbox)
  BY DEF command, conversation
<1>1. /\ wire \in Seq(Frames) /\ n \in Nat /\ DOMAIN wire = 1..n
      /\ runs \in Nat /\ bolt \in States /\ ours \in BOOLEAN
  BY DEF OInv, IInv, TypeOK
<1>2. /\ command1 \in {"status"} \cup Goals
      /\ command1 # "status" => BoltRequests # {} /\ BoltRequests' = {}
      /\ BoltRequests' # {} => BoltRequests # {}
      /\ \A i \in BoltRequests' :
            /\ inbox'[i].who = "job"
            /\ \A j \in DOMAIN inbox' : inbox'[j].who = "job" => j <= i
      /\ Asking /\ BoltRequests' = {} => \A j \in DOMAIN inbox' : inbox'[j].who # "job"
  BY <1>0, NextRequest
<1>3. Asking' <=> Asking
  BY <1>0 DEF Asking
<1>4. PICK f \in Frames :
         /\ wire' = Append(wire, f)
         /\ \/ command1 = "status" /\ f = Status(bolt, ours) /\ runs' = runs
            \/ command1 # "status" /\ f = Ack(command1, TRUE) /\ runs' = runs + 1
            \/ command1 # "status" /\ f = Ack(command1, FALSE) /\ runs' = runs
  <2>1. Status(bolt, ours) \in Frames
    BY <1>1 DEF Status, Frames
  <2>2. \A g \in Goals, ok \in BOOLEAN : Ack(g, ok) \in Frames
    BY DEF Ack, Frames
  <2>3. CASE command1 = "status"
    BY <2>1, <2>3
  <2>4. CASE command1 # "status"
    <3>1. command1 \in Goals
      BY <1>2, <2>4
    <3> QED BY <2>2, <2>4, <3>1
  <2> QED BY <2>3, <2>4
<1>5. /\ DOMAIN wire' = 1..(n + 1) /\ wire'[n + 1] = f /\ \A j \in 1..n : wire'[j] = wire[j]
  BY <1>1, <1>4
<1> HIDE DEF n, command1, LockAnswers
<1>6. \A j \in 1..(n + 1) : j = n + 1 \/ j \in 1..n
  BY <1>1
<1>7. CASE command1 = "status"
  <2>1. f.code = "status" /\ f.state = bolt /\ runs' = runs
    BY <1>4, <1>7 DEF Status
  <2>2. Acks' = Acks
    BY <1>1, <1>5, <1>6, <2>1 DEF Acks
  <2>3. OneCommand'
    BY <1>2, <1>3, <2>2 DEF OInv, OneCommand
  <2>4. OneRun'
    <3>1. \A i \in Acks' : wire'[i] = wire[i]
      BY <1>1, <1>5, <2>2 DEF Acks
    <3> QED BY <1>0, <1>2, <2>1, <2>2, <3>1 DEF OInv, OneRun, MovesOnce
  <2>5. Fresh'
    <3>1. goal # None /\ Reports(f, goal) => seen
      BY <2>1 DEF OInv, Fresh, Reports
    <3>2. Acks # {} => goal # None
      BY DEF OInv, IInv, OneCommand, Asking, Requests
    <3>3. \A i \in Acks', j \in DOMAIN wire' : i < j /\ Reports(wire'[j], goal) => seen
      BY <1>1, <1>5, <1>6, <2>2, <3>1, <3>2 DEF OInv, Fresh
    <3>4. goal # None /\ (step["job"] = "status" \/ answer["job"] \in Frames) =>
              \A j \in DOMAIN wire' : Reports(wire'[j], goal) => seen
      BY <1>1, <1>5, <1>6, <3>1 DEF OInv, Fresh
    <3> QED BY <1>0, <3>3, <3>4 DEF OInv, Fresh, Reports, ConfirmedIsReal
  <2> QED BY <2>3, <2>4, <2>5
<1>8. CASE command1 # "status"
  <2>1. BoltRequests # {} /\ Asking /\ runs = 0 /\ Acks = {}
    BY <1>2, <1>8 DEF OInv, OneCommand, OneRun
  <2>2. \A i \in Acks' : i = n + 1
    BY <1>1, <1>5, <1>6, <2>1 DEF Acks
  <2>3. OneCommand'
    BY <1>2, <1>3, <1>8, <2>1, <2>2 DEF OneCommand
  <2>4. OneRun'
    <3>1. runs' <= 1 /\ (~f.ok => runs' = 0)
      BY <1>4, <1>8, <2>1 DEF Ack
    <3>2. answer'["job"] \notin Frames
      BY <1>0, <2>1, Kinds DEF Asking
    <3> QED BY <1>2, <1>5, <1>8, <2>2, <3>1, <3>2 DEF OneRun, MovesOnce
  <2>5. Fresh'
    <3>1. \A i \in Acks', j \in DOMAIN wire' : ~(i < j)
      BY <1>1, <1>5, <2>2
    <3>2. ~(step["job"] = "status" \/ answer["job"] \in Frames)
      BY <2>1, Kinds DEF Asking
    <3> QED BY <1>0, <3>1, <3>2 DEF OInv, Fresh, ConfirmedIsReal
  <2> QED BY <2>3, <2>4, <2>5
<1> QED
  BY <1>7, <1>8

(* The bolt moves.                                                          *)
LEMMA MovesOrdered ==
    ASSUME OInv, NEW state \in States, NEW byCommand \in BOOLEAN, Moves(state, byCommand)
    PROVE  OneCommand' /\ OneRun' /\ Fresh'
<1> USE DEF Moves
<1> DEFINE n == Len(wire)
<1>2. PICK f \in Frames : f = Status(state, byCommand) /\ f.code = "status" /\ f.state = state
  BY DEF Status, Frames
<1>0. /\ UNCHANGED <<goal, runs, outcome, step, answer, inbox>>
      /\ bolt' = state /\ seen' = (seen \/ state = goal)
      /\ wire' = wire \/ wire' = Append(wire, f)
  BY <1>2 DEF command, conversation
<1>1. wire \in Seq(Frames) /\ n \in Nat /\ DOMAIN wire = 1..n
  BY DEF OInv, IInv, TypeOK
<1> DEFINE w == Append(wire, f)
<1>3. DOMAIN w = 1..(n + 1) /\ w[n + 1] = f /\ \A j \in 1..n : w[j] = wire[j]
  BY <1>1, AppendAt
<1>w. wire' = wire \/ wire' = w
  BY <1>0
<1> HIDE DEF n, w, Moves
<1>4. \A j \in DOMAIN wire' : (j \in DOMAIN wire /\ wire'[j] = wire[j]) \/ wire'[j] = f
  <2>1. CASE wire' = wire
    BY <2>1
  <2>2. CASE wire' = w
    <3>1. \A j \in 1..(n + 1) : j = n + 1 \/ j \in 1..n
      BY <1>1
    <3> QED BY <2>2, <1>1, <1>3, <3>1
  <2> QED BY <1>w, <2>1, <2>2
<1>5. DOMAIN wire \subseteq DOMAIN wire' /\ \A j \in DOMAIN wire : wire'[j] = wire[j]
  <2>1. 1..n \subseteq 1..(n + 1)
    BY <1>1
  <2> QED BY <1>w, <1>1, <1>3, <2>1
<1>6. Acks' = Acks /\ BoltRequests' = BoltRequests /\ (Asking' <=> Asking)
  <2>1. Acks' \subseteq Acks
    BY <1>2, <1>4 DEF Acks
  <2>2. Acks \subseteq Acks'
    BY <1>5 DEF Acks
  <2> QED BY <1>0, <2>1, <2>2 DEF BoltRequests, Asking
<1>7. OneCommand'
  BY <1>0, <1>6 DEF OInv, OneCommand
<1>8. OneRun'
  <2>1. \A i \in Acks : wire'[i] = wire[i]
    BY <1>5 DEF Acks
  <2> QED BY <1>0, <1>6, <2>1 DEF OInv, OneRun, MovesOnce
<1>9. Fresh'
  <2>1. \A j \in DOMAIN wire' : Reports(wire'[j], goal) =>
            seen' \/ (j \in DOMAIN wire /\ Reports(wire[j], goal))
    BY <1>0, <1>2, <1>4 DEF Reports
  <2>2. seen => seen'
    BY <1>0
  <2>3. goal' # None /\ bolt' = goal' => seen'
    BY <1>0
  <2>4. \A i \in Acks', j \in DOMAIN wire' : i < j /\ Reports(wire'[j], goal) => seen'
    BY <1>6, <2>1, <2>2 DEF OInv, Fresh
  <2>5. goal # None /\ (step["job"] = "status" \/ answer["job"] \in Frames) =>
            /\ \A j \in DOMAIN wire' : Reports(wire'[j], goal) => seen'
            /\ Reports(answer["job"], goal) => seen'
    BY <2>1, <2>2 DEF OInv, Fresh
  <2>6. ConfirmedIsReal'
    BY <1>0, <2>2 DEF OInv, Fresh, ConfirmedIsReal
  <2> QED BY <1>0, <2>3, <2>4, <2>5, <2>6 DEF Fresh, Reports
<1> QED
  BY <1>7, <1>8, <1>9

(* The steps of the job.                                                    *)
LEMMA JobOrdered ==
    ASSUME OInv, Read \/ (\E g \in Goals : Set(g)) \/ ReadReturns \/ SetThrows \/ SetRetries
                 \/ BoltReturns \/ SetReturns
    PROVE  OneCommand' /\ OneRun' /\ Fresh'
<1>0. "job" \in Callers /\ "setup" \in Callers /\ "job" # "setup" /\ IInv
  BY DEF Callers, OInv
<1>1. CASE Read
  <2>1. Request("job", "status", "status") /\ step["job"] = "idle"
        /\ UNCHANGED <<seen, runs, bolt, wire, outcome, goal>>
    BY <1>1 DEF Read, JobMayBegin, Idle, command, history
  <2>2. ~Asking /\ goal = None
    BY <2>1 DEF Asking, OInv, IInv, Requests, Active
  <2> QED BY <1>0, <2>1, <2>2, StatusRequestKeeps
<1>2. ASSUME NEW g \in Goals, Set(g)
      PROVE  OneCommand' /\ OneRun' /\ Fresh'
  <2>1. /\ Request("job", "bolt", g) /\ step["job"] = "idle" /\ UNCHANGED <<bolt, wire>>
        /\ runs' = 0 /\ goal' = g /\ seen' = (bolt = g) /\ outcome' = NoOutcome
    BY <1>2 DEF Set, JobMayBegin, Idle
  <2>2. ~Asking
    BY <2>1 DEF Asking
  <2>3. ConfirmedIsReal' /\ (bolt' = g => seen')
    BY <2>1 DEF ConfirmedIsReal, NoOutcome
  <2> QED BY <2>1, <2>2, <2>3, BoltRequestKeeps
<1>3. ASSUME Returned("job") PROVE answer["job"] # Waiting /\ ~Asking
  BY <1>0, <1>3, ResumedCaller DEF Asking
<1>4. CASE ReadReturns
  <2>1. /\ UNCHANGED <<seen, runs, bolt, wire, inbox, outcome, goal>> /\ goal = None
        /\ Returned("job") /\ step' = [step EXCEPT !["job"] = "idle"]
    BY <1>4 DEF ReadReturns, Leaves, Commanding, command, lock, history
  <2>2. step'["job"] = "idle"
    BY <1>0, <2>1 DEF OInv, IInv, TypeOK
  <2>3. ConfirmedIsReal'
    BY <2>1 DEF ConfirmedIsReal, OInv, Fresh
  <2> QED BY <1>3, <2>1, <2>2, <2>3, JobLeavesKeeps
<1>5. CASE SetThrows
  <2>1. /\ UNCHANGED <<seen, runs, bolt, wire, inbox, outcome>> /\ goal' = None
        /\ Returned("job") /\ step' = [step EXCEPT !["job"] = "idle"]
    BY <1>5 DEF SetThrows, Leaves, lock, history
  <2>2. step'["job"] = "idle"
    BY <1>0, <2>1 DEF OInv, IInv, TypeOK
  <2>3. ConfirmedIsReal'
    BY <2>1 DEF ConfirmedIsReal, OInv, Fresh
  <2> QED BY <1>3, <2>1, <2>2, <2>3, JobLeavesKeeps
<1>6. CASE SetRetries
  <2>1. /\ Returned("job") /\ step["job"] = "bolt" /\ Refused /\ Request("job", "again", goal)
        /\ UNCHANGED <<bolt, wire, runs, goal, seen, outcome>>
    BY <1>6 DEF SetRetries, command, history
  <2>2. goal \in Goals /\ goal # None
    BY <2>1 DEF OInv, IInv, TypeOK, Requests
  <2>3. answer["job"] \in Frames
    BY <1>0, <1>3, <2>1 DEF OInv, IInv, TypeOK, Refused
  <2>4. runs = 0 /\ (bolt = goal => seen)
    BY <2>1, <2>2, <2>3 DEF OInv, OneRun, Fresh, Refused
  <2>5. ConfirmedIsReal'
    BY <2>1 DEF ConfirmedIsReal, OInv, Fresh
  <2> QED BY <1>3, <2>1, <2>2, <2>4, <2>5, BoltRequestKeeps
<1>7. CASE BoltReturns
  <2>1. Returned("job") /\ answer["job"] # Failed /\ UNCHANGED <<wire, bolt, seen, runs>>
    BY <1>7 DEF BoltReturns, history
  <2>2. CASE open
    <3>1. Request("job", "status", "status") /\ UNCHANGED <<goal, outcome>>
      BY <1>7, <2>2 DEF BoltReturns
    <3>2. answer["job"] \in Frames
      BY <1>0, <1>3, <2>1 DEF OInv, IInv, TypeOK
    <3> QED BY <1>0, <1>3, <2>1, <3>1, <3>2, StatusRequestKeeps
  <2>3. CASE ~open
    <3>1. EndSet(heard, FALSE) /\ UNCHANGED inbox
      BY <1>7, <2>3 DEF BoltReturns
    <3>2. goal' = None /\ step'["job"] = "idle" /\ ConfirmedIsReal'
      BY <1>0, <3>1 DEF EndSet, Leaves, ConfirmedIsReal, OInv, IInv, TypeOK
    <3> QED BY <1>3, <2>1, <3>1, <3>2, JobLeavesKeeps
  <2> QED BY <2>2, <2>3
<1>8. CASE SetReturns
  <2>1. /\ Returned("job") /\ step["job"] = "status" /\ goal # None
        /\ UNCHANGED <<wire, inbox, bolt, seen, runs>>
    BY <1>8 DEF SetReturns, Commanding, lock, history
  <2>2. CASE answer["job"] = Failed
    <3>1. EndSet(deferred, FALSE)
      BY <1>8, <2>2 DEF SetReturns
    <3>2. goal' = None /\ step'["job"] = "idle" /\ ConfirmedIsReal'
      BY <1>0, <3>1 DEF EndSet, Leaves, ConfirmedIsReal, OInv, IInv, TypeOK
    <3> QED BY <1>3, <2>1, <3>2, JobLeavesKeeps
  <2>3. CASE answer["job"] # Failed
    <3>1. EndSet(answer["job"].state, TRUE)
      BY <1>8, <2>3 DEF SetReturns
    <3>2. answer["job"] \in Frames /\ answer["job"].code = "status"
      BY <1>0, <1>3, <2>1, <2>3 DEF OInv, IInv, TypeOK, Requests, Expected
    <3>3. answer["job"].state = goal => seen
      BY <2>1, <3>2 DEF OInv, Fresh, Reports
    <3>4. goal' = None /\ step'["job"] = "idle"
      BY <1>0, <3>1 DEF EndSet, Leaves, OInv, IInv, TypeOK
    <3>5. ConfirmedIsReal'
      BY <2>1, <3>1, <3>3 DEF EndSet, ConfirmedIsReal
    <3> QED BY <1>3, <2>1, <3>4, <3>5, JobLeavesKeeps
  <2> QED BY <2>2, <2>3
<1> QED
  BY <1>1, <1>2, <1>4, <1>5, <1>6, <1>7, <1>8

(* A session begins with a job that is idle.                                *)
LEMMA OpenOrdered ==
    ASSUME OInv, OpenSession
    PROVE  OneCommand' /\ OneRun' /\ Fresh'
<1>1. /\ Request("setup", "status", "status") /\ \A c \in Callers : step[c] = "idle"
      /\ UNCHANGED <<seen, runs, bolt, wire, outcome, goal>>
  BY DEF OpenSession, Idle, command, history
<1>2. "setup" \in Callers /\ "job" \in Callers
  BY DEF Callers
<1>3. step["job"] = "idle" /\ ~Asking
  BY <1>1, <1>2 DEF Asking
<1> QED
  BY <1>1, <1>2, <1>3, StatusRequestKeeps

(* The steps that send nothing.                                             *)
LEMMA QuietSteps ==
    ASSUME OInv, NEW c \in Callers,
           WriteDone(c) \/ Hangup \/ (\E n \in 1..2 : Notify(n)) \/ SetupReturns \/ UNCHANGED vars
    PROVE  OneCommand' /\ OneRun' /\ Fresh'
<1>0. "job" \in Callers /\ answer \in [Callers -> {Waiting, Failed} \cup Frames]
      /\ step \in [Callers -> {"idle", "status", "bolt", "again"}]
  BY DEF Callers, OInv, IInv, TypeOK
<1>1. UNCHANGED <<goal, seen, runs, outcome, bolt>> /\ step'["job"] = step["job"]
  BY <1>0 DEF WriteDone, Hangup, Notify, SetupReturns, Leaves, vars, conversation, command, lock, history
<1>2. ASSUME NEW d, EndSession(d)
      PROVE  wire' = <<>> /\ inbox' = <<>> /\ answer'["job"] \in {answer["job"], Failed}
  BY <1>0, <1>2 DEF EndSession, FailPending
<1>3. ASSUME Leaves("setup") PROVE answer'["job"] = answer["job"]
  BY <1>0, <1>3 DEF Leaves
<1>4. \/ UNCHANGED <<wire, inbox>> /\ answer'["job"] = answer["job"]
      \/ wire' = <<>> /\ inbox' = <<>> /\ answer'["job"] \in {answer["job"], Failed}
  BY <1>2, <1>3 DEF WriteDone, Hangup, Notify, SetupReturns, vars, conversation, lock
<1> QED
  BY <1>1, <1>4, QuietKeeps

(* The timer of a status request fires: nothing under way depends on it.    *)
LEMMA TimeoutOrdered ==
    ASSUME OInv, NEW c \in Callers, Timeout(c), ~BoltTimesOut
    PROVE  OneCommand' /\ OneRun' /\ Fresh'
<1>1. /\ UNCHANGED <<goal, seen, runs, outcome, bolt, step, wire, inbox>>
      /\ answer' = [answer EXCEPT ![c] = Failed]
      /\ answer \in [Callers -> {Waiting, Failed} \cup Frames] /\ "job" \in Callers
  BY DEF Timeout, command, lock, OInv, IInv, TypeOK, Callers
<1>2. CASE c = "job"
  <2>1. answer'["job"] = Failed /\ ~Asking
    BY <1>1, <1>2 DEF BoltTimesOut
  <2> QED BY <1>1, <2>1, QuietKeeps
<1>3. CASE c # "job"
  <2>1. answer'["job"] = answer["job"]
    BY <1>1, <1>3
  <2> QED BY <1>1, <2>1, QuietKeeps
<1> QED
  BY <1>2, <1>3

(* The order of requests and answers is kept.                               *)
LEMMA OStep == OInv /\ [Next]_vars /\ [~BoltTimesOut]_vars => OInv'
<1> SUFFICES ASSUME OInv, [Next]_vars, ~BoltTimesOut \/ UNCHANGED vars PROVE OInv'
  OBVIOUS
<1>0. IInv' /\ "job" \in Callers
  BY Step DEF OInv, Callers
<1>1. CASE Link
  <2>1. ASSUME NEW c \in Callers, Timeout(c) PROVE OneCommand' /\ OneRun' /\ Fresh'
    BY <1>0, <2>1, TimeoutOrdered, QuietSteps
  <2> QED BY <1>0, <1>1, <2>1, QuietSteps, WriteFailsOrdered, OpenOrdered DEF Link, OInv
<1>2. CASE Reaction
  BY <1>0, <1>2, DispatchOrdered, QuietSteps, JobOrdered DEF Reaction, OInv
<1>3. CASE Command
  BY <1>0, <1>3, JobOrdered DEF Command, OInv
<1>4. CASE Lock
  <2>1. ours \in BOOLEAN /\ motor \in Goals \cup {None} /\ Goals \subseteq States /\ "Jammed" \in States
    BY DEF OInv, IInv, TypeOK, States
  <2>2. CASE LockAnswers
    BY <1>0, <2>2, LockAnswersOrdered DEF OInv
  <2>3. CASE LockIgnores
    BY <1>0, <2>3, LockIgnoresOrdered DEF OInv
  <2>4. CASE MotorRuns \/ JamSettles \/ Keypad
    <3>1. PICK state \in States, byCommand \in BOOLEAN : Moves(state, byCommand)
      BY <2>1, <2>4 DEF MotorRuns, JamSettles, Keypad
    <3> QED BY <1>0, <3>1, MovesOrdered DEF OInv
  <2> QED BY <1>4, <2>2, <2>3, <2>4 DEF Lock
<1>5. CASE UNCHANGED vars
  BY <1>0, <1>5, QuietSteps DEF OInv
<1> QED
  BY <1>1, <1>2, <1>3, <1>4, <1>5 DEF Next

(* The order holds at first.                                                *)
LEMMA OStart == Init => OInv
<1> SUFFICES ASSUME Init PROVE OInv
  OBVIOUS
<1>1. IInv
  BY Start
<1>2. wire = <<>> /\ inbox = <<>> /\ goal = None /\ runs = 0 /\ outcome = NoOutcome
      /\ step["job"] = "idle"
  BY DEF Init, Callers
<1>3. Acks = {} /\ BoltRequests = {} /\ ~Asking
  BY <1>2 DEF Acks, BoltRequests, Asking
<1>4. OneCommand /\ OneRun
  BY <1>2, <1>3 DEF OneCommand, OneRun, MovesOnce
<1>5. Fresh
  BY <1>2, <1>3 DEF Fresh, ConfirmedIsReal, NoOutcome
<1> QED
  BY <1>1, <1>4, <1>5 DEF OInv

(* What is under way of a bolt command, and what the motor has done for it. *)
LEMMA Order == Spec /\ [][~BoltTimesOut]_vars => []OInv
  BY OStart, OStep, PTL DEF Spec

-----------------------------------------------------------------------------
(* The theorems.                                                            *)

(* The state has its types: the answers the callers wait for are answers of *)
(* the code they asked for, so nothing that is read of a frame is missing.  *)
THEOREM Typing == Spec => []TypeOK
<1>1. IInv => TypeOK
  BY DEF IInv
<1> QED
  BY <1>1, Invariance, PTL

(* request(), _discard(), _dispatch() and _failPending() agree: exactly the *)
(* unsettled requests have a waiter (lock.js 150-206).                      *)
THEOREM OneWaiterEach == Spec => []WaitersExact
<1>1. IInv => WaitersExact
  BY DEF IInv
<1> QED
  BY <1>1, Invariance, PTL

(* No waiter survives the end of its session, or is registered after it     *)
(* (lock.js 57-61, 212-214).                                                *)
THEOREM NobodyWaitsOnTheDead == Spec => []ClosedIsSettled
<1>1. IInv => ClosedIsSettled
  BY DEF IInv
<1> QED
  BY <1>1, Invariance, PTL

(* Whichever of answer, timer, failed write and end of the session comes    *)
(* first, a request() returns once (lock.js 181-206).                       *)
THEOREM ResumedExactlyOnce == Spec => []ResumedOnce
<1>1. IInv => ResumedOnce
  BY DEF IInv
<1> QED
  BY <1>1, Invariance, PTL

(* Unless a bolt command times out, set() reports a goal as confirmed only  *)
(* if the bolt was there after it began, whatever else is late, lost or     *)
(* refused (lock.js 244-266).                                               *)
THEOREM ConfirmationIsReal == Spec /\ [][~BoltTimesOut]_vars => []ConfirmedIsReal
<1>1. OInv => ConfirmedIsReal
  BY DEF OInv, Fresh
<1> QED
  BY <1>1, Order, PTL

(* Unless a bolt command times out, the retry in the other mode never moves *)
(* the bolt a second time (lock.js 244-249).                                *)
THEOREM OneMoveEach == Spec /\ [][~BoltTimesOut]_vars => []MovesOnce
<1>1. OInv => MovesOnce
  BY DEF OInv, OneRun
<1> QED
  BY <1>1, Order, PTL

=============================================================================
