------------------------------ MODULE MCHelpers ------------------------------
(***************************************************************************)
(* The controller's pure functions against what is expected of them, over  *)
(* bounded inputs: `input' is the name of a function and its arguments.    *)
(***************************************************************************)
EXTENDS Signing, ResourceNames, Pacing

VARIABLE input

-----------------------------------------------------------------------------
(* Queries of up to three segments *)

Texts == {<<1, "escaped">>, <<1, "other">>, <<2, "escaped">>, <<1, "broken">>}

Segments ==
    [kind: {"empty", "semicolon"}] \cup [kind: {"pair"}, key: Texts, value: Texts \ {<<1, "other">>}]

Queries == UNION {[1..n -> Segments] : n \in 0..3}

Request(query, keyDecodes) ==
    [path |-> "path", query |-> query, method |-> "GET", timestamp |-> 0,
     keyDecodes |-> keyDecodes]

\* The same parameter, however it is written.
Reads(segment, original) ==
    /\ QueryUnescape(segment.key) = QueryUnescape(original.key)
    /\ QueryUnescape(segment.value) = QueryUnescape(original.value)

(***************************************************************************)
(* What is sent has all of its query under the signature: the canonical    *)
(* query has every parameter in a place of its own, and nothing else, and  *)
(* no value overtakes another of its key.  A query that cannot be read     *)
(* completely is not sent.                                                 *)
(***************************************************************************)
SentIsSigned ==
    input.of = "RoundTrip" =>
        LET result == RoundTrip(Request(input.query, input.keyDecodes))
            given == {i \in DOMAIN input.query : input.query[i].kind # "empty"}
            signed == result.signed.query
        IN  result.sent =>
                \E to \in [given -> DOMAIN signed] :
                    /\ \A k \in DOMAIN signed : \E i \in given : to[i] = k
                    /\ \A i \in given : Reads(signed[to[i]], input.query[i])
                    /\ \A i, j \in given :
                          /\ i # j => to[i] # to[j]
                          /\ i < j /\ keyAt(input.query, i) = keyAt(input.query, j)
                                => to[i] < to[j]

(***************************************************************************)
(* The signature does not depend on how the query was put together: not on *)
(* the way its texts were escaped, nor on the order of its keys.  Signing  *)
(* the canonical query gives the same message again, which is what a       *)
(* server does that reads the parameters first.                            *)
(***************************************************************************)
SignatureIsCanonical ==
    input.of = "RoundTrip" =>
        LET canonical == canonicalizeQuery(input.query)
            swapped(i) == [input.query EXCEPT ![i] = input.query[i + 1], ![i + 1] = input.query[i]]
        IN  /\ canonicalizeQuery(canonical) = canonical
            /\ \A i \in 1..(Len(input.query) - 1) :
                  LET a == input.query[i]
                      b == input.query[i + 1]
                  IN  a.kind = "pair" /\ b.kind = "pair" /\ a.key[1] # b.key[1]
                          => canonicalizeQuery(swapped(i)) = canonical

-----------------------------------------------------------------------------
(* Names around the limit *)

Text1(n) == [i \in 1..n |-> "a"]

Hashes == {[i \in 1..HashLength |-> IF i = HashLength THEN last ELSE "0"] : last \in {"0", "1"}}

NamespaceLengths == {1, 2, 33, 34, 35, 38, 39, 40, 63}
ServiceLengths == {1, 2, 4, 5, 6, 7, 38, 39, 63}

(***************************************************************************)
(* Every name fits the API's limit, and only a namespace of more than 34   *)
(* characters leaves a Service without one: GetFirewallRuleArgs counts on  *)
(* "a namespace too long to fit the name limit" being the only cause.      *)
(***************************************************************************)
NameFits ==
    input.of = "Name" =>
        LET name == GenerateLoadBalancerResourceName(input.namespace, input.service, input.hash)
        IN  /\ Len(name) < NameLimit
            /\ name = NoName => Len(input.namespace) > 34

(***************************************************************************)
(* Services whose UIDs have different hashes have different names, cut     *)
(* short or not, whatever their namespaces: a load balancer or a rule is   *)
(* adopted and deleted by its name alone.                                  *)
(***************************************************************************)
NamesDiffer ==
    input.of = "Name" =>
        \A n \in NamespaceLengths, s \in ServiceLengths, hash \in Hashes \ {input.hash} :
            LET name == GenerateLoadBalancerResourceName(input.namespace, input.service, input.hash)
            IN  name # NoName =>
                    name # GenerateLoadBalancerResourceName(Text1(n), Text1(s), hash)

-----------------------------------------------------------------------------
(* Waits *)

\* The operation failed at time 0 by the controller's clock, `lead' is what
\* the API's clock is ahead.
Reported(recorded, lead, ran) ==
    [CompletedAt |-> [usable |-> recorded = "both", at |-> lead],
     StartedAt   |-> [usable |-> recorded # "none", at |-> lead - ran]]

(***************************************************************************)
(* A firewall rule whose creation failed is submitted again when the retry *)
(* delay has passed: not before, unless the API's clock is behind, and not *)
(* after, unless it is ahead, however many passes that takes and whenever  *)
(* they begin.  No single wait is longer than the delay.  Without a        *)
(* completion time the delay counts from the start, and without any time   *)
(* nothing is waited for.                                                  *)
(***************************************************************************)
RetryIsPaced ==
    input.of = "Retry" =>
        LET op == Reported(input.recorded, input.lead, input.ran)
            again == Resubmission(op, input.from)
        IN  /\ firewallRuleRetryWait(op, input.from) \in 0..firewallRuleCreateRetryDelay
            /\ input.recorded = "both" /\ input.lead >= 0 => again >= firewallRuleCreateRetryDelay
            /\ input.recorded # "none" /\ input.lead <= 0 /\ input.ran >= 0
                  => again <= Larger(input.from, firewallRuleCreateRetryDelay)
            /\ input.recorded = "started"
                  => again = Larger(input.from,
                                    input.lead - input.ran + firewallRuleCreateRetryDelay)
            /\ input.recorded = "none" => again = input.from

(***************************************************************************)
(* "A server clock running ahead of this one cannot stretch" the wait      *)
(* (util.go:586-587): counted from the first pass that sees the failure,   *)
(* the rule is submitted again within the delay.                           *)
(***************************************************************************)
ServerClockCannotStretch ==
    input.of = "Retry" =>
        Resubmission(Reported(input.recorded, input.lead, input.ran), input.from)
            <= input.from + firewallRuleCreateRetryDelay

(***************************************************************************)
(* However long an operation takes, the controller goes on within two of   *)
(* the longest pauses after it has settled, and it never polls more often  *)
(* than once a second.                                                     *)
(***************************************************************************)
AnswerIsPrompt ==
    input.of = "WaitForOperation" =>
        LET pause == 1000 * maxBackOffSeconds + input.jitter
            at == pollTime(input.jitter)
        IN  /\ WaitForOperation(input.settles, input.jitter) - input.settles \in 0..(2 * pause)
            /\ \A poll \in 0..8 : at[poll + 1] - at[poll] >= 1000

-----------------------------------------------------------------------------
Init ==
    \/ \E query \in Queries, keyDecodes \in BOOLEAN :
          input = [of |-> "RoundTrip", query |-> query, keyDecodes |-> keyDecodes]
    \/ \E n \in NamespaceLengths, s \in ServiceLengths, hash \in Hashes :
          input = [of |-> "Name", namespace |-> Text1(n), service |-> Text1(s), hash |-> hash]
    \/ \E recorded \in {"both", "started", "none"}, lead \in -3..7, ran \in {0, 1, 5}, from \in 0..4 :
          input = [of |-> "Retry", recorded |-> recorded, lead |-> lead, ran |-> ran, from |-> from]
    \/ \E settles \in {0, 1, 999, 1000, 1001, 5000, 18000, 18001, 20000, 60000, 300000},
          jitter \in {0, 500, 999} :
          input = [of |-> "WaitForOperation", settles |-> settles, jitter |-> jitter]

\* A call leaves nothing behind.
Next == UNCHANGED input

Spec == Init /\ [][Next]_input
=============================================================================
