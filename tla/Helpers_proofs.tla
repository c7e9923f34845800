--------------------------- MODULE Helpers_proofs ---------------------------
(***************************************************************************)
(* What ResourceNames and Pacing promise, for every name and every time.   *)
(***************************************************************************)
EXTENDS MCHelpers, SequenceTheorems, WellFoundedInduction, TLAPS

-----------------------------------------------------------------------------
(* Names *)

\* The length of a name, and where its parts are.
LEMMA NameLength ==
    ASSUME NEW namespace \in Seq(Characters), NEW service \in Seq(Characters),
           NEW hash \in Hash
    PROVE  /\ nameOf(namespace, service, hash) \in Seq(Characters)
           /\ Len(nameOf(namespace, service, hash))
                = Len(namespace) + Len(service) + HashLength + 2
<1>1. hash \in Seq(Characters) /\ Len(hash) = HashLength
  BY DEF Hash
<1>2. <<"-">> \in Seq(Characters) /\ Len(<<"-">>) = 1
  BY CharactersAssumption
<1>3. QED
  BY <1>1, <1>2 DEF nameOf

\* A service's name that is cut has the length it was cut to.
LEMMA CutLength ==
    ASSUME NEW service \in Seq(Characters), NEW room \in Nat, Len(service) > room
    PROVE  /\ SubSeq(service, 1, room) \in Seq(Characters)
           /\ Len(SubSeq(service, 1, room)) = room
OBVIOUS

(***************************************************************************)
(* GenerateLoadBalancerResourceName either returns nothing, for a          *)
(* namespace of more than 34 characters only, or the two names and the     *)
(* hash, with a service's name that may have been cut, within the limit.   *)
(***************************************************************************)
THEOREM NamesFit ==
    ASSUME NEW namespace \in Seq(Characters), NEW service \in Seq(Characters),
           NEW hash \in Hash
    PROVE  LET name == GenerateLoadBalancerResourceName(namespace, service, hash)
           IN  \/ name = NoName /\ Len(namespace) > 34
               \/ /\ Len(name) < NameLimit
                  /\ \E part \in Seq(Characters) : name = nameOf(namespace, part, hash)
<1> DEFINE whole == nameOf(namespace, service, hash)
<1>1. Len(namespace) \in Nat /\ Len(service) \in Nat
  OBVIOUS
<1>2. Len(whole) = Len(namespace) + Len(service) + 10
  BY NameLength DEF HashLength
<1>3. roomForService(namespace) = 39 - Len(namespace)
  BY <1>1 DEF roomForService, NameLimit, HashLength
<1> HIDE DEF whole
<1>4. CASE Len(whole) < NameLimit
  <2>1. GenerateLoadBalancerResourceName(namespace, service, hash) = whole
    BY <1>1, <1>2, <1>4 DEF GenerateLoadBalancerResourceName, whole, NameLimit
  <2>2. QED
    BY <1>4, <2>1 DEF whole
<1>5. CASE Len(whole) >= NameLimit /\ roomForService(namespace) < MinServicePart
  <2>1. GenerateLoadBalancerResourceName(namespace, service, hash) = NoName
    BY <1>1, <1>2, <1>5 DEF GenerateLoadBalancerResourceName, whole, NameLimit
  <2>2. Len(namespace) > 34
    BY <1>1, <1>3, <1>5 DEF MinServicePart
  <2>3. QED
    BY <2>1, <2>2
<1>6. CASE Len(whole) >= NameLimit /\ roomForService(namespace) >= MinServicePart
  <2>1. GenerateLoadBalancerResourceName(namespace, service, hash)
          = truncated(namespace, service, hash)
    BY <1>1, <1>2, <1>3, <1>6
    DEF GenerateLoadBalancerResourceName, whole, NameLimit, MinServicePart
  <2>2. Len(service) > roomForService(namespace) /\ roomForService(namespace) \in Nat
    BY <1>1, <1>2, <1>3, <1>6 DEF NameLimit, MinServicePart
  <2> DEFINE part == SubSeq(service, 1, roomForService(namespace))
  <2>3. part \in Seq(Characters) /\ Len(part) = roomForService(namespace)
    BY <2>2, CutLength
  <2>4. truncated(namespace, service, hash) = nameOf(namespace, part, hash)
    BY <2>2 DEF truncated
  <2> HIDE DEF part
  <2>5. Len(nameOf(namespace, part, hash)) = 49
    <3>1. Len(nameOf(namespace, part, hash)) = Len(namespace) + Len(part) + HashLength + 2
      BY <2>3, NameLength
    <3>2. QED
      BY <1>1, <1>3, <2>3, <3>1 DEF HashLength
  <2>6. QED
    BY <2>1, <2>3, <2>4, <2>5 DEF NameLimit
<1>7. Len(whole) < NameLimit \/ Len(whole) >= NameLimit
  BY <1>1, <1>2 DEF NameLimit
<1>8. roomForService(namespace) < MinServicePart \/ roomForService(namespace) >= MinServicePart
  BY <1>1, <1>3 DEF MinServicePart
<1>9. QED
  BY <1>4, <1>5, <1>6, <1>7, <1>8

\* The last characters of a name are the hash.
LEMMA NameEndsWithHash ==
    ASSUME NEW namespace \in Seq(Characters), NEW part \in Seq(Characters),
           NEW hash \in Hash, NEW i \in 1..HashLength
    PROVE  nameOf(namespace, part, hash)
             [Len(nameOf(namespace, part, hash)) - HashLength + i] = hash[i]
<1> DEFINE front == namespace \o <<"-">> \o part \o <<"-">>
<1>1. hash \in Seq(Characters) /\ Len(hash) = HashLength
  BY DEF Hash
<1>2. front \in Seq(Characters)
  BY CharactersAssumption
<1>3. nameOf(namespace, part, hash) = front \o hash
  BY DEF nameOf
<1> HIDE DEF front
<1>4. i \in 1..Len(hash) /\ i \in Nat /\ Len(front) \in Nat /\ HashLength \in Nat
  BY <1>1, <1>2 DEF HashLength
<1>5. Len(front \o hash) = Len(front) + HashLength
  <2>1. hash \in Seq(Characters)
    BY <1>1
  <2>2. Len(front \o hash) = Len(front) + Len(hash)
    BY <1>2, <2>1, ConcatProperties
  <2>3. QED
    BY <1>1, <2>2
<1>6. Len(front \o hash) - HashLength + i = Len(front) + i
  BY <1>4, <1>5
<1>7. (front \o hash)[Len(front) + i] = hash[i]
  <2>1. Len(front) + i \in 1..(Len(front) + Len(hash))
    BY <1>1, <1>4
  <2>2. ~(Len(front) + i <= Len(front)) /\ Len(front) + i - Len(front) = i
    BY <1>4
  <2>3. QED
    BY <1>1, <1>2, <2>1, <2>2
<1>8. QED
  BY <1>3, <1>6, <1>7

(***************************************************************************)
(* Two Services whose UIDs have different hashes never share a name,       *)
(* whatever they and their namespaces are called.                          *)
(***************************************************************************)
THEOREM NamesAreOwn ==
    ASSUME NEW namespace1 \in Seq(Characters), NEW service1 \in Seq(Characters),
           NEW hash1 \in Hash,
           NEW namespace2 \in Seq(Characters), NEW service2 \in Seq(Characters),
           NEW hash2 \in Hash,
           GenerateLoadBalancerResourceName(namespace1, service1, hash1) # NoName,
           GenerateLoadBalancerResourceName(namespace1, service1, hash1)
             = GenerateLoadBalancerResourceName(namespace2, service2, hash2)
    PROVE  hash1 = hash2
<1>1. PICK part1 \in Seq(Characters) :
          GenerateLoadBalancerResourceName(namespace1, service1, hash1)
            = nameOf(namespace1, part1, hash1)
  BY NamesFit
<1>2. PICK part2 \in Seq(Characters) :
          GenerateLoadBalancerResourceName(namespace2, service2, hash2)
            = nameOf(namespace2, part2, hash2)
  BY NamesFit
<1>3. ASSUME NEW i \in 1..HashLength PROVE hash1[i] = hash2[i]
  <2>1. nameOf(namespace1, part1, hash1) = nameOf(namespace2, part2, hash2)
    BY <1>1, <1>2
  <2>2. nameOf(namespace1, part1, hash1)
          [Len(nameOf(namespace1, part1, hash1)) - HashLength + i] = hash1[i]
    BY NameEndsWithHash
  <2>3. nameOf(namespace2, part2, hash2)
          [Len(nameOf(namespace2, part2, hash2)) - HashLength + i] = hash2[i]
    BY NameEndsWithHash
  <2>4. QED
    BY <2>1, <2>2, <2>3
<1>4. /\ hash1 \in Seq(Characters) /\ Len(hash1) = HashLength
      /\ hash2 \in Seq(Characters) /\ Len(hash2) = HashLength
  BY DEF Hash
<1>5. QED
  BY <1>3, <1>4

(***************************************************************************)
(* NameFits holds of every name GenerateLoadBalancerResourceName is asked  *)
(* for, not only of those around the limit.                                *)
(***************************************************************************)
THEOREM EveryNameFits ==
    ASSUME input \in [of: {"Name"}, namespace: Seq(Characters), service: Seq(Characters),
                      hash: Hash]
    PROVE  NameFits
<1> DEFINE name == GenerateLoadBalancerResourceName(input.namespace, input.service, input.hash)
<1>1. input.namespace \in Seq(Characters) /\ input.service \in Seq(Characters)
        /\ input.hash \in Hash
  OBVIOUS
<1>2. \/ name = NoName /\ Len(input.namespace) > 34
      \/ /\ Len(name) < NameLimit
         /\ \E part \in Seq(Characters) : name = nameOf(input.namespace, part, input.hash)
  BY <1>1, NamesFit
<1>3. ASSUME NEW part \in Seq(Characters)
      PROVE  nameOf(input.namespace, part, input.hash) # NoName
  <2>1. Len(nameOf(input.namespace, part, input.hash))
          = Len(input.namespace) + Len(part) + HashLength + 2
    BY <1>1, NameLength
  <2>2. Len(input.namespace) \in Nat /\ Len(part) \in Nat
    BY <1>1
  <2>3. Len(nameOf(input.namespace, part, input.hash)) # 0
    BY <2>1, <2>2 DEF HashLength
  <2>4. QED
    BY <2>3 DEF NoName
<1> HIDE DEF name
<1>4. Len(NoName) < NameLimit
  BY DEF NoName, NameLimit
<1>5. Len(name) < NameLimit /\ (name = NoName => Len(input.namespace) > 34)
  BY <1>2, <1>3, <1>4
<1>6. QED
  BY <1>5 DEF NameFits, name

(***************************************************************************)
(* NamesDiffer holds of every name, against each of the names it is        *)
(* compared with.                                                          *)
(***************************************************************************)
THEOREM NamesAlwaysDiffer ==
    ASSUME {"a", "0", "1"} \subseteq Characters,
           input \in [of: {"Name"}, namespace: Seq(Characters), service: Seq(Characters),
                      hash: Hash]
    PROVE  NamesDiffer
<1>1. input.namespace \in Seq(Characters) /\ input.service \in Seq(Characters)
        /\ input.hash \in Hash
  OBVIOUS
<1>2. \A n \in NamespaceLengths \cup ServiceLengths : Text1(n) \in Seq(Characters)
  <2>1. ASSUME NEW n \in Nat
        PROVE  Text1(n) \in Seq(Characters)
    BY DEF Text1
  <2>2. NamespaceLengths \cup ServiceLengths \subseteq Nat
    BY DEF NamespaceLengths, ServiceLengths
  <2>3. QED
    BY <2>1, <2>2
<1>3. Hashes \subseteq Hash
  <2>1. ASSUME NEW last \in {"0", "1"}
        PROVE  [i \in 1..HashLength |-> IF i = HashLength THEN last ELSE "0"] \in Hash
    <3>1. HashLength \in Nat
      BY DEF HashLength
    <3> DEFINE hash == [i \in 1..HashLength |-> IF i = HashLength THEN last ELSE "0"]
    <3>2. hash \in [1..HashLength -> Characters]
      OBVIOUS
    <3>3. hash \in Seq(Characters) /\ Len(hash) = HashLength
      BY <3>1, <3>2
    <3>4. QED
      BY <3>3 DEF Hash
  <2>2. QED
    BY <2>1 DEF Hashes
<1>4. ASSUME NEW n \in NamespaceLengths, NEW s \in ServiceLengths,
             NEW hash \in Hashes \ {input.hash},
             GenerateLoadBalancerResourceName(input.namespace, input.service, input.hash) # NoName
      PROVE  GenerateLoadBalancerResourceName(input.namespace, input.service, input.hash)
               # GenerateLoadBalancerResourceName(Text1(n), Text1(s), hash)
  <2>1. Text1(n) \in Seq(Characters) /\ Text1(s) \in Seq(Characters) /\ hash \in Hash
    BY <1>2, <1>3
  <2>2. QED
    BY <1>1, <1>4, <2>1, NamesAreOwn
<1>5. QED
  BY <1>4 DEF NamesDiffer

-----------------------------------------------------------------------------
(* Waits *)

(***************************************************************************)
(* firewallRuleRetryWait never asks for more than the delay, is over       *)
(* exactly when the delay has passed since the operation settled, by the   *)
(* time the operation carries, and never sends the next pass past that     *)
(* moment.  An operation without a time is not waited for.                 *)
(***************************************************************************)
THEOREM RetryWaitIsExact ==
    ASSUME NEW op \in Operation, NEW now \in Int
    PROVE  LET wait == firewallRuleRetryWait(op, now)
               due == settledAt(op) + firewallRuleCreateRetryDelay
           IN  /\ wait \in 0..firewallRuleCreateRetryDelay
               /\ ~hasTimestamp(op) => wait = 0
               /\ hasTimestamp(op) /\ firewallRuleCreateRetryDelay > 0
                    => (wait = 0 <=> now >= due)
               /\ hasTimestamp(op) /\ now < due => now + wait <= due
<1>1. settledAt(op) \in Int
  BY DEF settledAt, Operation, Timestamp
<1>2. firewallRuleCreateRetryDelay \in Nat
  BY PacingAssumption
<1> DEFINE left == settledAt(op) + firewallRuleCreateRetryDelay - now
           capped == Smaller(firewallRuleCreateRetryDelay, Larger(0, left))
<1>3. left \in Int
  BY <1>1, <1>2
<1>4. /\ capped \in 0..firewallRuleCreateRetryDelay
      /\ firewallRuleCreateRetryDelay > 0 => (capped = 0 <=> left <= 0)
      /\ left > 0 => capped <= left
  <2> HIDE DEF left
  <2>1. QED
    BY <1>2, <1>3 DEF Smaller, Larger
<1>5. CASE hasTimestamp(op)
  <2>1. firewallRuleRetryWait(op, now) = capped
    BY <1>5 DEF firewallRuleRetryWait
  <2> HIDE DEF capped
  <2>2. QED
    BY <1>1, <1>2, <1>4, <1>5, <2>1
<1>6. CASE ~hasTimestamp(op)
  <2>1. firewallRuleRetryWait(op, now) = 0
    BY <1>6 DEF firewallRuleRetryWait
  <2>2. QED
    BY <1>2, <1>6, <2>1
<1>7. QED
  BY <1>5, <1>6

-----------------------------------------------------------------------------
(* Induction, by sets of numbers *)

LessThan == {pair \in Nat \X Nat : pair[1] < pair[2]}

LEMMA LeastNumber ==
    ASSUME NEW T \in SUBSET Nat, T # {}
    PROVE  \E least \in T : \A n \in T : least <= n
<1>1. IsWellFoundedOn(LessThan, Nat)
  BY NatLessThanWellFounded DEF OpToRel, LessThan
<1>2. PICK least \in T : \A n \in T : <<n, least>> \notin LessThan
  BY <1>1, WFMin
<1>3. \A n \in T : ~(n < least)
  BY <1>2 DEF LessThan
<1>4. QED
  BY <1>3

LEMMA Induction ==
    ASSUME NEW S \in SUBSET Nat, 0 \in S, \A n \in S : n + 1 \in S
    PROVE  \A n \in Nat : n \in S
<1> SUFFICES ASSUME Nat \ S # {} PROVE FALSE
  OBVIOUS
<1>1. PICK least \in Nat \ S : \A n \in Nat \ S : least <= n
  <2>1. Nat \ S \in SUBSET Nat
    OBVIOUS
  <2>2. QED
    BY <2>1, LeastNumber
<1>2. least # 0 /\ least - 1 \in Nat /\ least - 1 + 1 = least
  OBVIOUS
<1>3. least - 1 \in S
  BY <1>1, <1>2
<1>4. QED
  BY <1>2, <1>3

\* The first values of a function that is defined by recursion.
Begun(g, n, S, start, step) ==
    /\ g \in [0..n -> S]
    /\ g[0] = start
    /\ \A i \in 0..(n - 1) : g[i + 1] = step[i][g[i]]

LEMMA BegunAnywhere ==
    ASSUME NEW S, NEW start \in S, NEW step \in [Nat -> [S -> S]]
    PROVE  \A n \in Nat : \E g : Begun(g, n, S, start, step)
<1> DEFINE T == {n \in Nat : \E g : Begun(g, n, S, start, step)}
<1>1. 0 \in T
  <2>1. Begun([i \in 0..0 |-> start], 0, S, start, step)
    BY DEF Begun
  <2>2. QED
    BY <2>1
<1>2. ASSUME NEW n \in T
      PROVE  n + 1 \in T
  <2>1. n \in Nat /\ n + 1 \in Nat /\ n + 1 - 1 = n
    OBVIOUS
  <2>2. PICK g : Begun(g, n, S, start, step)
    OBVIOUS
  <2> DEFINE h == [i \in 0..(n + 1) |-> IF i = n + 1 THEN step[n][g[n]] ELSE g[i]]
  <2>3. h \in [0..(n + 1) -> S]
    BY <2>1, <2>2 DEF Begun
  <2>4. h[0] = start
    BY <2>1, <2>2 DEF Begun
  <2>5. \A i \in 0..n : h[i + 1] = step[i][h[i]]
    BY <2>1, <2>2 DEF Begun
  <2> HIDE DEF h
  <2>6. Begun(h, n + 1, S, start, step)
    BY <2>1, <2>3, <2>4, <2>5 DEF Begun
  <2>7. QED
    BY <2>1, <2>6
<1>3. T \in SUBSET Nat
  OBVIOUS
<1> HIDE DEF T
<1>4. \A n \in Nat : n \in T
  BY <1>1, <1>2, <1>3, Induction
<1>5. QED
  BY <1>4 DEF T

LEMMA BegunAlike ==
    ASSUME NEW S, NEW start \in S, NEW step \in [Nat -> [S -> S]], NEW n \in Nat,
           NEW g, Begun(g, n, S, start, step), NEW h, Begun(h, n + 1, S, start, step)
    PROVE  g[n] = h[n]
<1> DEFINE T == {i \in Nat : i <= n => g[i] = h[i]}
<1>1. 0 \in T
  BY DEF Begun
<1>2. ASSUME NEW i \in T
      PROVE  i + 1 \in T
  <2> SUFFICES ASSUME i + 1 <= n PROVE g[i + 1] = h[i + 1]
    OBVIOUS
  <2>1. i \in 0..(n - 1) /\ i \in 0..(n + 1 - 1) /\ g[i] = h[i]
    OBVIOUS
  <2>2. QED
    BY <2>1 DEF Begun
<1>3. T \in SUBSET Nat
  OBVIOUS
<1> HIDE DEF T
<1>4. n \in T
  BY <1>1, <1>2, <1>3, Induction
<1>5. QED
  BY <1>4 DEF T

\* A function that is defined by recursion.
Recursive(f, S, start, step) ==
    /\ f \in [Nat -> S]
    /\ f[0] = start
    /\ \A n \in Nat : f[n + 1] = step[n][f[n]]

LEMMA Recursion ==
    ASSUME NEW S, NEW start \in S, NEW step \in [Nat -> [S -> S]]
    PROVE  \E f : Recursive(f, S, start, step)
<1> DEFINE part(n) == CHOOSE g : Begun(g, n, S, start, step)
           f == [n \in Nat |-> part(n)[n]]
<1>1. \A n \in Nat : Begun(part(n), n, S, start, step)
  BY BegunAnywhere
<1> HIDE DEF part
<1>2. f \in [Nat -> S] /\ f[0] = start
  BY <1>1 DEF Begun
<1>3. ASSUME NEW n \in Nat
      PROVE  f[n + 1] = step[n][f[n]]
  <2>1. n + 1 \in Nat /\ n \in 0..(n + 1 - 1)
    OBVIOUS
  <2>2. part(n)[n] = part(n + 1)[n]
    BY <1>1, <2>1, BegunAlike
  <2>3. part(n + 1)[n + 1] = step[n][part(n + 1)[n]]
    BY <1>1, <2>1 DEF Begun
  <2>4. QED
    BY <2>1, <2>2, <2>3
<1> HIDE DEF f
<1>4. Recursive(f, S, start, step)
  BY <1>2, <1>3 DEF Recursive
<1>5. QED
  BY <1>4

-----------------------------------------------------------------------------
(* The passes that wait for the retry delay *)

\* `at' follows the waits from any pass in from..end to the one that submits.
FollowsWaits(at, op, from, end) ==
    at = [now \in from..end |-> IF firewallRuleRetryWait(op, now) = 0
                                THEN now
                                ELSE at[now + firewallRuleRetryWait(op, now)]]

Due(op) == settledAt(op) + firewallRuleCreateRetryDelay

\* What the waits lead to: the moment the delay has passed, and not later.
LEMMA WaitsLeadToDue ==
    ASSUME firewallRuleCreateRetryDelay > 0,
           NEW op \in Operation, hasTimestamp(op), NEW from \in Int,
           NEW at, FollowsWaits(at, op, from, Larger(from, Due(op)))
    PROVE  \A now \in from..Larger(from, Due(op)) : at[now] = Larger(now, Due(op))
<1> DEFINE end == Larger(from, Due(op))
           wait(now) == firewallRuleRetryWait(op, now)
<1>1. Due(op) \in Int /\ end \in Int /\ from <= end /\ Due(op) <= end
  BY PacingAssumption DEF Due, settledAt, Operation, Timestamp, Larger
<1>2. ASSUME NEW now \in Int
      PROVE  /\ wait(now) \in Nat
             /\ wait(now) = 0 <=> now >= Due(op)
             /\ now < Due(op) => now + wait(now) <= Due(op)
  BY <1>2, RetryWaitIsExact, PacingAssumption DEF Due
<1>3. \A now \in from..end :
         at[now] = IF wait(now) = 0 THEN now ELSE at[now + wait(now)]
  BY DEF FollowsWaits
<1> DEFINE S == {k \in Nat : \A now \in from..end : end - now <= k => at[now] = Larger(now, Due(op))}
<1> HIDE DEF end, wait
<1>4. 0 \in S
  <2> SUFFICES ASSUME NEW now \in from..end, end - now <= 0
               PROVE  at[now] = Larger(now, Due(op))
    OBVIOUS
  <2>1. now = end /\ now >= Due(op)
    BY <1>1
  <2>2. at[now] = now
    BY <1>1, <1>2, <1>3, <2>1
  <2>3. QED
    BY <1>1, <2>1, <2>2 DEF Larger
<1>5. ASSUME NEW k \in S
      PROVE  k + 1 \in S
  <2> SUFFICES ASSUME NEW now \in from..end, end - now <= k + 1
               PROVE  at[now] = Larger(now, Due(op))
    OBVIOUS
  <2>1. now \in Int
    BY <1>1
  <2>2. CASE now >= Due(op)
    <3>1. at[now] = now
      BY <1>2, <1>3, <2>1, <2>2
    <3>2. QED
      BY <1>1, <2>1, <2>2, <3>1 DEF Larger
  <2>3. CASE now < Due(op)
    <3>1. wait(now) \in Nat /\ wait(now) # 0 /\ now + wait(now) <= Due(op)
      BY <1>1, <1>2, <2>1, <2>3
    <3>2. now + wait(now) \in from..end /\ end - (now + wait(now)) <= k
      BY <1>1, <2>1, <3>1
    <3>3. at[now + wait(now)] = Due(op)
      <4>1. at[now + wait(now)] = Larger(now + wait(now), Due(op))
        BY <3>2
      <4>2. QED
        BY <1>1, <2>1, <3>1, <4>1 DEF Larger
    <3>4. at[now] = Due(op)
      BY <1>3, <3>1, <3>3
    <3>5. QED
      BY <1>1, <2>1, <2>3, <3>4 DEF Larger
  <2>4. QED
    BY <1>1, <2>1, <2>2, <2>3
<1>6. S \in SUBSET Nat
  OBVIOUS
<1> HIDE DEF S
<1>7. \A k \in Nat : k \in S
  BY <1>4, <1>5, <1>6, Induction
<1>8. ASSUME NEW now \in from..end
      PROVE  at[now] = Larger(now, Due(op))
  <2>1. end - now \in Nat /\ end - now <= end - now
    BY <1>1
  <2>2. end - now \in S
    BY <1>7, <2>1
  <2>3. QED
    BY <2>1, <2>2 DEF S
<1>9. QED
  BY <1>8 DEF end

\* A function that follows the waits: those of an operation without a time are 0.
LEMMA WaitsCanBeFollowed ==
    ASSUME firewallRuleCreateRetryDelay > 0, NEW op \in Operation, NEW from \in Int
    PROVE  \E at : FollowsWaits(at, op, from, Larger(from, Due(op)))
<1> DEFINE end == Larger(from, Due(op))
           wait(now) == firewallRuleRetryWait(op, now)
           goal(now) == IF hasTimestamp(op) THEN Larger(now, Due(op)) ELSE now
           at == [now \in from..end |-> goal(now)]
<1>1. Due(op) \in Int /\ end \in Int /\ Due(op) <= end
  BY PacingAssumption DEF Due, settledAt, Operation, Timestamp, Larger
<1>2. ASSUME NEW now \in from..end
      PROVE  at[now] = IF wait(now) = 0 THEN now ELSE at[now + wait(now)]
  <2>1. now \in Int
    BY <1>1
  <2>2. /\ wait(now) \in Nat
        /\ ~hasTimestamp(op) => wait(now) = 0
        /\ hasTimestamp(op) => (wait(now) = 0 <=> now >= Due(op))
        /\ hasTimestamp(op) /\ now < Due(op) => now + wait(now) <= Due(op)
    BY <2>1, RetryWaitIsExact, PacingAssumption DEF Due
  <2> HIDE DEF wait
  <2>3. CASE wait(now) = 0
    <3>1. goal(now) = now
      BY <1>1, <2>1, <2>2, <2>3 DEF Larger
    <3>2. QED
      BY <2>3, <3>1
  <2>4. CASE wait(now) # 0
    <3>1. hasTimestamp(op) /\ now < Due(op) /\ now + wait(now) <= Due(op)
      BY <1>1, <2>1, <2>2, <2>4
    <3>2. now + wait(now) \in from..end
      BY <1>1, <2>1, <2>2, <3>1
    <3>3. goal(now) = Due(op) /\ goal(now + wait(now)) = Due(op)
      BY <1>1, <2>1, <2>2, <3>1 DEF Larger
    <3> HIDE DEF end, goal
    <3>4. QED
      BY <2>4, <3>2, <3>3
  <2>5. QED
    BY <2>3, <2>4
<1> HIDE DEF goal, wait
<1>3. at = [now \in from..end |-> at[now]]
  OBVIOUS
<1>4. at = [now \in from..end |-> IF wait(now) = 0 THEN now ELSE at[now + wait(now)]]
  <2> HIDE DEF at, end
  <2>1. QED
    BY <1>2, <1>3
<1>5. QED
  BY <1>4 DEF FollowsWaits, wait

\* Resubmission follows the waits from its first pass.
LEMMA ResubmissionFollowsWaits ==
    ASSUME firewallRuleCreateRetryDelay > 0, NEW op \in Operation, NEW from \in Int
    PROVE  \E at : /\ FollowsWaits(at, op, from, Larger(from, Due(op)))
                   /\ Resubmission(op, from) = at[from]
<1> DEFINE at == CHOOSE f : f = [now \in from..Larger(from, Due(op)) |->
                                    IF firewallRuleRetryWait(op, now) = 0
                                    THEN now
                                    ELSE f[now + firewallRuleRetryWait(op, now)]]
<1>1. FollowsWaits(at, op, from, Larger(from, Due(op)))
  BY WaitsCanBeFollowed DEF FollowsWaits
<1>2. Resubmission(op, from) = at[from]
  BY DEF Resubmission, Due
<1> HIDE DEF at
<1>3. QED
  BY <1>1, <1>2

(***************************************************************************)
(* A failed firewall rule creation is submitted again when the delay has   *)
(* passed since it settled, in the first pass if that is later, however    *)
(* many passes firewallRuleRetryWait sends back to the queue until then.   *)
(* Without a time it is submitted in the first pass.                       *)
(***************************************************************************)
LEMMA ResubmissionIsDue ==
    ASSUME firewallRuleCreateRetryDelay > 0, NEW op \in Operation, NEW from \in Int
    PROVE  Resubmission(op, from) = IF hasTimestamp(op) THEN Larger(from, Due(op)) ELSE from
<1> DEFINE end == Larger(from, Due(op))
<1>1. Due(op) \in Int /\ end \in Int /\ from <= end
  BY PacingAssumption DEF Due, settledAt, Operation, Timestamp, Larger
<1>2. PICK at : FollowsWaits(at, op, from, end) /\ Resubmission(op, from) = at[from]
  BY ResubmissionFollowsWaits
<1> HIDE DEF end
<1>3. from \in from..end
  BY <1>1
<1>4. CASE hasTimestamp(op)
  BY <1>2, <1>3, <1>4, WaitsLeadToDue DEF end
<1>5. CASE ~hasTimestamp(op)
  <2>1. firewallRuleRetryWait(op, from) = 0
    BY <1>5, RetryWaitIsExact
  <2>2. at[from] = from
    BY <1>2, <1>3, <2>1 DEF FollowsWaits
  <2>3. QED
    BY <1>2, <1>5, <2>2
<1>6. QED
  BY <1>4, <1>5

(***************************************************************************)
(* RetryIsPaced holds of any operation, whatever its times are and         *)
(* whenever the controller begins to look.                                 *)
(***************************************************************************)
THEOREM RetriesArePaced ==
    ASSUME firewallRuleCreateRetryDelay > 0,
           input \in [of: {"Retry"}, recorded: {"both", "started", "none"},
                      lead: Int, ran: Int, from: Int]
    PROVE  RetryIsPaced
<1> DEFINE op == Reported(input.recorded, input.lead, input.ran)
           again == Resubmission(op, input.from)
<1>1. input.recorded \in {"both", "started", "none"} /\ input.lead \in Int /\ input.ran \in Int
        /\ input.from \in Int
  OBVIOUS
<1>2. op \in Operation
  BY <1>1 DEF Reported, Operation, Timestamp
<1>3. /\ firewallRuleRetryWait(op, input.from) \in 0..firewallRuleCreateRetryDelay
      /\ again = IF hasTimestamp(op) THEN Larger(input.from, Due(op)) ELSE input.from
  <2> HIDE DEF op
  <2>1. QED
    BY <1>1, <1>2, ResubmissionIsDue, RetryWaitIsExact
<1>4. /\ hasTimestamp(op) <=> input.recorded # "none"
      /\ input.recorded = "both" => Due(op) = input.lead + firewallRuleCreateRetryDelay
      /\ input.recorded = "started" => Due(op) = input.lead - input.ran + firewallRuleCreateRetryDelay
  BY <1>1 DEF Reported, hasTimestamp, settledAt, Due
<1> HIDE DEF op
<1>5. firewallRuleCreateRetryDelay \in Nat
  BY PacingAssumption
<1>6. CASE input.recorded = "both"
  BY <1>1, <1>3, <1>4, <1>5, <1>6 DEF RetryIsPaced, Larger, op
<1>7. CASE input.recorded = "started"
  BY <1>1, <1>3, <1>4, <1>5, <1>7 DEF RetryIsPaced, Larger, op
<1>8. CASE input.recorded = "none"
  BY <1>1, <1>3, <1>4, <1>5, <1>8 DEF RetryIsPaced, Larger, op
<1>9. QED
  BY <1>1, <1>6, <1>7, <1>8

-----------------------------------------------------------------------------
(* The polls of an operation *)

Pauses == Fraction..(Fraction * maxBackOffSeconds)

LEMMA NextBackoffIsPause ==
    \A pause \in Pauses : nextBackoff(pause) \in Pauses
<1>1. maxBackOffSeconds \in Nat /\ maxBackOffSeconds > 0
  BY PacingAssumption
<1>2. QED
  BY <1>1 DEF Pauses, nextBackoff, Smaller, Fraction

\* The pauses start at a second and never exceed the longest one.
LEMMA BackoffIsPause ==
    backoff \in [Nat -> Pauses]
<1> DEFINE step == [poll \in Nat |-> [pause \in Pauses |-> nextBackoff(pause)]]
<1>1. Fraction \in Pauses
  BY PacingAssumption DEF Pauses, Fraction
<1>2. step \in [Nat -> [Pauses -> Pauses]]
  BY NextBackoffIsPause
<1>3. PICK f : Recursive(f, Pauses, Fraction, step)
  <2> HIDE DEF step
  <2>1. QED
    BY <1>1, <1>2, Recursion
<1>4. f = [poll \in Nat |-> IF poll = 0 THEN Fraction ELSE nextBackoff(f[poll - 1])]
  <2>1. ASSUME NEW poll \in Nat
        PROVE  f[poll] = IF poll = 0 THEN Fraction ELSE nextBackoff(f[poll - 1])
    <3>1. CASE poll = 0
      BY <1>3, <3>1 DEF Recursive
    <3>2. CASE poll # 0
      <4>1. poll - 1 \in Nat /\ poll - 1 + 1 = poll
        BY <3>2
      <4>2. f[poll - 1] \in Pauses /\ f[poll] = step[poll - 1][f[poll - 1]]
        BY <1>3, <4>1 DEF Recursive
      <4>3. QED
        BY <3>2, <4>1, <4>2
    <3>3. QED
      BY <3>1, <3>2
  <2>2. f = [poll \in Nat |-> f[poll]]
    BY <1>3 DEF Recursive
  <2> HIDE DEF step
  <2>3. QED
    BY <2>1, <2>2
<1>5. backoff = [poll \in Nat |-> IF poll = 0 THEN Fraction ELSE nextBackoff(backoff[poll - 1])]
  BY <1>4 DEF backoff
<1> DEFINE S == {poll \in Nat : backoff[poll] \in Pauses}
<1>6. 0 \in S
  BY <1>1, <1>5
<1>7. ASSUME NEW poll \in S
      PROVE  poll + 1 \in S
  <2>1. poll + 1 \in Nat /\ poll + 1 # 0 /\ poll + 1 - 1 = poll
    OBVIOUS
  <2>2. backoff[poll + 1] = nextBackoff(backoff[poll])
    BY <1>5, <2>1
  <2>3. QED
    BY <2>1, <2>2, NextBackoffIsPause
<1>8. S \in SUBSET Nat
  OBVIOUS
<1>9. \A poll \in Nat : backoff[poll] \in Pauses
  <2> HIDE DEF S
  <2>1. \A poll \in Nat : poll \in S
    BY <1>6, <1>7, <1>8, Induction
  <2>2. QED
    BY <2>1 DEF S
<1> HIDE DEF step
<1>10. QED
  BY <1>5, <1>9

LongestPause(jitter) == 1000 * maxBackOffSeconds + jitter

\* Between two polls at least a second passes, and at most the longest pause.
LEMMA SleepIsBounded ==
    ASSUME NEW jitter \in Nat, NEW poll \in Nat
    PROVE  sleepAfter(poll, jitter) \in 1000..LongestPause(jitter)
<1>1. backoff[poll] \in Pauses
  BY BackoffIsPause
<1>2. maxBackOffSeconds \in Nat
  BY PacingAssumption
<1>3. backoff[poll] \div Fraction \in 1..maxBackOffSeconds
  BY <1>1, <1>2 DEF Pauses, Fraction
<1>4. QED
  BY <1>2, <1>3 DEF sleepAfter, LongestPause

\* When the polls are.
LEMMA PollTimes ==
    ASSUME NEW jitter \in Nat
    PROVE  LET at == pollTime(jitter)
           IN  /\ at \in [Nat -> Nat]
               /\ at[0] = 0
               /\ \A poll \in Nat : at[poll + 1] = at[poll] + sleepAfter(poll, jitter)
<1> DEFINE step == [poll \in Nat |-> [now \in Nat |-> now + sleepAfter(poll, jitter)]]
           isTime(f) == f = [poll \in Nat |-> IF poll = 0
                                              THEN 0
                                              ELSE f[poll - 1] + sleepAfter(poll - 1, jitter)]
           at == CHOOSE f : f = [poll \in Nat |-> IF poll = 0
                                                  THEN 0
                                                  ELSE f[poll - 1] + sleepAfter(poll - 1, jitter)]
<1>1. \A poll \in Nat : sleepAfter(poll, jitter) \in Nat
  BY SleepIsBounded, PacingAssumption
<1>2. step \in [Nat -> [Nat -> Nat]]
  <2>1. \A poll \in Nat, now \in Nat : now + sleepAfter(poll, jitter) \in Nat
    BY <1>1
  <2>2. QED
    BY <2>1
<1>3. PICK f : Recursive(f, Nat, 0, step)
  <2> HIDE DEF step
  <2>1. QED
    BY <1>2, Recursion
<1>4. isTime(f)
  <2>1. ASSUME NEW poll \in Nat
        PROVE  f[poll] = IF poll = 0 THEN 0 ELSE f[poll - 1] + sleepAfter(poll - 1, jitter)
    <3>1. CASE poll = 0
      BY <1>3, <3>1 DEF Recursive
    <3>2. CASE poll # 0
      <4>1. poll - 1 \in Nat /\ poll - 1 + 1 = poll
        BY <3>2
      <4>2. f[poll - 1] \in Nat /\ f[poll] = step[poll - 1][f[poll - 1]]
        BY <1>3, <4>1 DEF Recursive
      <4>3. QED
        BY <3>2, <4>1, <4>2
    <3>3. QED
      BY <3>1, <3>2
  <2>2. f = [poll \in Nat |-> f[poll]]
    BY <1>3 DEF Recursive
  <2> HIDE DEF step
  <2>3. QED
    BY <2>1, <2>2
<1>5. isTime(at)
  BY <1>4
<1>6. pollTime(jitter) = at
  BY DEF pollTime
<1> HIDE DEF at
<1>7. at[0] = 0
  BY <1>5
<1>8. ASSUME NEW poll \in Nat
      PROVE  at[poll + 1] = at[poll] + sleepAfter(poll, jitter)
  <2>1. poll + 1 \in Nat /\ poll + 1 # 0 /\ poll + 1 - 1 = poll
    OBVIOUS
  <2>2. QED
    BY <1>5, <2>1
<1> DEFINE S == {poll \in Nat : at[poll] \in Nat}
<1>9. S \in SUBSET Nat /\ 0 \in S /\ \A poll \in S : poll + 1 \in S
  BY <1>1, <1>7, <1>8
<1>10. \A poll \in Nat : at[poll] \in Nat
  <2> HIDE DEF S
  <2>1. \A poll \in Nat : poll \in S
    BY <1>9, Induction
  <2>2. QED
    BY <2>1 DEF S
<1>11. at \in [Nat -> Nat]
  BY <1>5, <1>10
<1>12. QED
  BY <1>6, <1>7, <1>8, <1>11

\* A second passes between two polls, so that many have passed at the least.
LEMMA PollsTakeTime ==
    ASSUME NEW jitter \in Nat
    PROVE  \A poll \in Nat : pollTime(jitter)[poll] >= poll
<1> DEFINE at == pollTime(jitter)
           S == {poll \in Nat : at[poll] >= poll}
<1>1. /\ at \in [Nat -> Nat] /\ at[0] = 0
      /\ \A poll \in Nat : at[poll + 1] = at[poll] + sleepAfter(poll, jitter)
  BY PollTimes
<1>2. \A poll \in Nat : sleepAfter(poll, jitter) \in Nat /\ sleepAfter(poll, jitter) >= 1000
  BY SleepIsBounded, PacingAssumption
<1> HIDE DEF at
<1>3. 0 \in S
  BY <1>1
<1>4. ASSUME NEW poll \in S
      PROVE  poll + 1 \in S
  <2>1. at[poll] \in Nat /\ at[poll] >= poll /\ poll + 1 \in Nat
    BY <1>1
  <2>2. at[poll + 1] >= poll + 1
    BY <1>1, <1>2, <2>1
  <2>3. QED
    BY <2>1, <2>2
<1>5. S \in SUBSET Nat
  OBVIOUS
<1> HIDE DEF S
<1>6. \A poll \in Nat : poll \in S
  BY <1>3, <1>4, <1>5, Induction
<1>7. QED
  BY <1>6 DEF S, at

\* There is a first poll after any moment.
LEMMA FirstPollAfter ==
    ASSUME NEW jitter \in Nat, NEW settles \in Nat
    PROVE  \E poll \in 0..settles :
               /\ pollTime(jitter)[poll] >= settles
               /\ \A before \in 0..(poll - 1) : pollTime(jitter)[before] < settles
<1> DEFINE at == pollTime(jitter)
           T == {poll \in Nat : at[poll] >= settles}
<1>1. settles \in T
  BY PollsTakeTime
<1>2. \A poll \in Nat : at[poll] \in Nat
  BY PollTimes
<1> HIDE DEF at
<1>3. PICK last \in T : \A poll \in T : last <= poll
  <2>1. T \in SUBSET Nat /\ T # {}
    BY <1>1
  <2> HIDE DEF T
  <2>2. QED
    BY <2>1, LeastNumber
<1>4. last \in 0..settles /\ at[last] >= settles
  BY <1>1, <1>3
<1>5. ASSUME NEW before \in 0..(last - 1)
      PROVE  at[before] < settles
  <2>1. before \in Nat /\ ~(last <= before)
    BY <1>3
  <2>2. ~(at[before] >= settles)
    BY <1>3, <2>1
  <2>3. QED
    BY <1>2, <2>1, <2>2
<1>6. QED
  BY <1>4, <1>5 DEF at

\* WaitForOperation returns after the first poll that finds the operation settled, and a pause.
LEMMA WaitIsBounded ==
    ASSUME NEW settles \in Nat, NEW jitter \in Nat
    PROVE  WaitForOperation(settles, jitter) - settles \in 0..(2 * LongestPause(jitter))
<1> DEFINE pause == LongestPause(jitter)
           at == pollTime(jitter)
           first(poll) == /\ at[poll] >= settles
                          /\ \A before \in 0..(poll - 1) : at[before] < settles
           last == CHOOSE poll \in 0..settles : first(poll)
<1>1. pause \in Nat
  BY PacingAssumption DEF LongestPause
<1>2. /\ at \in [Nat -> Nat] /\ at[0] = 0
      /\ \A poll \in Nat : at[poll + 1] = at[poll] + sleepAfter(poll, jitter)
  BY PollTimes
<1>3. \A poll \in Nat : sleepAfter(poll, jitter) \in 1000..pause
  BY SleepIsBounded
<1>4. WaitForOperation(settles, jitter)
        = IF settles = 0 THEN 0 ELSE at[last] + sleepAfter(last, jitter)
  BY DEF WaitForOperation
<1>5. last \in 0..settles /\ first(last)
  BY FirstPollAfter
<1> HIDE DEF last, at, pause
<1>6. ASSUME settles = 0
      PROVE  WaitForOperation(settles, jitter) - settles \in 0..(2 * pause)
  BY <1>1, <1>4, <1>6
<1>7. ASSUME settles # 0
      PROVE  WaitForOperation(settles, jitter) - settles \in 0..(2 * pause)
  <2>1. last \in Nat /\ last # 0
    BY <1>2, <1>5, <1>7
  <2>2. last - 1 \in 0..(last - 1) /\ last - 1 \in Nat /\ last - 1 + 1 = last
    BY <2>1
  <2>3. at[last - 1] < settles
    BY <1>5, <2>2
  <2>4. at[last] = at[last - 1] + sleepAfter(last - 1, jitter)
    BY <1>2, <2>2
  <2>5. sleepAfter(last - 1, jitter) \in 1000..pause /\ sleepAfter(last, jitter) \in 1000..pause
    BY <1>3, <2>1, <2>2
  <2>6. at[last - 1] \in Nat /\ at[last] >= settles
    BY <1>2, <1>5, <2>2
  <2> DEFINE answer == at[last] + sleepAfter(last, jitter)
  <2>7. answer - settles \in 0..(2 * pause)
    BY <1>1, <2>3, <2>4, <2>5, <2>6
  <2>8. WaitForOperation(settles, jitter) = answer
    BY <1>4, <1>7
  <2> HIDE DEF answer
  <2>9. QED
    BY <2>7, <2>8
<1>8. QED
  BY <1>6, <1>7 DEF pause

\* A second at the least passes between two polls.
LEMMA PollsAreApart ==
    ASSUME NEW jitter \in Nat, NEW poll \in Nat
    PROVE  pollTime(jitter)[poll + 1] - pollTime(jitter)[poll] >= 1000
<1> DEFINE at == pollTime(jitter)
<1>1. at[poll] \in Nat /\ at[poll + 1] = at[poll] + sleepAfter(poll, jitter)
  BY PollTimes
<1>2. sleepAfter(poll, jitter) \in Nat /\ sleepAfter(poll, jitter) >= 1000
  BY SleepIsBounded, PacingAssumption
<1> HIDE DEF at
<1>3. at[poll + 1] - at[poll] >= 1000
  BY <1>1, <1>2
<1>4. QED
  BY <1>3 DEF at

(***************************************************************************)
(* AnswerIsPrompt holds however long the operation takes: WaitForOperation *)
(* returns within two of the longest pauses after it has settled, and at   *)
(* least a second passes between two polls.                                *)
(***************************************************************************)
THEOREM AnswersArePrompt ==
    ASSUME input \in [of: {"WaitForOperation"}, settles: Nat, jitter: Nat]
    PROVE  AnswerIsPrompt
<1>1. input.settles \in Nat /\ input.jitter \in Nat
  OBVIOUS
<1>2. WaitForOperation(input.settles, input.jitter) - input.settles
        \in 0..(2 * LongestPause(input.jitter))
  BY <1>1, WaitIsBounded
<1>3. \A poll \in 0..8 : pollTime(input.jitter)[poll + 1] - pollTime(input.jitter)[poll] >= 1000
  BY <1>1, PollsAreApart
<1>4. QED
  BY <1>2, <1>3 DEF AnswerIsPrompt, LongestPause
=============================================================================
