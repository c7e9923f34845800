---------------------------- MODULE Signing_proofs ----------------------------
(***************************************************************************)
(* What Signing promises of every query: the canonical form has each       *)
(* parameter in a place of its own, and does not depend on the order or    *)
(* the escaping the query came with.  The places of the parameters are     *)
(* numbers without gaps because comesBefore orders them totally; a query   *)
(* that is put together differently has the same places.                   *)
(***************************************************************************)
EXTENDS MCHelpers, FiniteSetTheorems, TLAPS

-----------------------------------------------------------------------------
(* The order of the parameters *)

LEMMA Parameters ==
    ASSUME NEW query \in Seq(Segment)
    PROVE  /\ parameters(query) \subseteq DOMAIN query
           /\ DOMAIN query = 1..Len(query) /\ Len(query) \in Nat
           /\ \A i \in parameters(query) : i \in Nat /\ keyAt(query, i) \in Nat
<1>1. DOMAIN query = 1..Len(query) /\ Len(query) \in Nat
  OBVIOUS
<1>2. parameters(query) \subseteq DOMAIN query
  BY DEF parameters
<1>3. ASSUME NEW i \in parameters(query)
      PROVE  i \in Nat /\ keyAt(query, i) \in Nat
  <2>1. i \in 1..Len(query) /\ query[i] \in Segment /\ isParameter(query[i])
    BY <1>1 DEF parameters
  <2>2. query[i].key \in Text
    BY <2>1 DEF Segment, isParameter
  <2>3. QED
    BY <1>1, <2>1, <2>2 DEF keyAt, QueryUnescape, Text
<1>4. QED
  BY <1>1, <1>2, <1>3

LEMMA ParametersAreFinite ==
    ASSUME NEW query \in Seq(Segment), NEW T \in SUBSET parameters(query)
    PROVE  IsFiniteSet(T) /\ Cardinality(T) \in Nat
<1>1. IsFiniteSet(1..Len(query))
  BY Parameters, FS_Interval
<1>2. T \in SUBSET (1..Len(query))
  BY Parameters
<1>3. IsFiniteSet(T)
  BY <1>1, <1>2, FS_Subset
<1>4. QED
  BY <1>3, FS_CardinalityType

LEMMA ComesBeforeIsOrder ==
    ASSUME NEW query \in Seq(Segment)
    PROVE  \A i, j, k \in parameters(query) :
              /\ ~comesBefore(query, i, i)
              /\ comesBefore(query, i, j) /\ comesBefore(query, j, k) => comesBefore(query, i, k)
              /\ i # j => comesBefore(query, i, j) \/ comesBefore(query, j, i)
BY Parameters DEF comesBefore

\* The parameters that come before one.
Earlier(query, i) == {j \in parameters(query) : comesBefore(query, j, i)}

\* Two of them in their order have their places in that order.
LEMMA PlacesGrow ==
    ASSUME NEW query \in Seq(Segment), NEW i \in parameters(query), NEW j \in parameters(query),
           comesBefore(query, i, j)
    PROVE  place(query, i) < place(query, j)
<1>1. Earlier(query, i) \in SUBSET Earlier(query, j)
  BY ComesBeforeIsOrder DEF Earlier
<1>2. i \in Earlier(query, j) /\ i \notin Earlier(query, i)
  BY ComesBeforeIsOrder DEF Earlier
<1>3. IsFiniteSet(Earlier(query, j)) /\ Cardinality(Earlier(query, j)) \in Nat
        /\ Cardinality(Earlier(query, i)) \in Nat
  <2>1. Earlier(query, i) \in SUBSET parameters(query)
        /\ Earlier(query, j) \in SUBSET parameters(query)
    BY DEF Earlier
  <2>2. QED
    BY <2>1, ParametersAreFinite
<1>4. Cardinality(Earlier(query, i)) <= Cardinality(Earlier(query, j))
  BY <1>1, <1>3, FS_Subset
<1>5. Cardinality(Earlier(query, i)) # Cardinality(Earlier(query, j))
  BY <1>1, <1>2, <1>3, FS_Subset
<1>6. place(query, i) = 1 + Cardinality(Earlier(query, i))
      /\ place(query, j) = 1 + Cardinality(Earlier(query, j))
  BY DEF place, Earlier
<1>7. QED
  BY <1>3, <1>4, <1>5, <1>6

\* No two have the same place, and their places are those of the canonical query.
LEMMA PlacesAreOwn ==
    ASSUME NEW query \in Seq(Segment)
    PROVE  /\ \A i \in parameters(query) : place(query, i) \in 1..Cardinality(parameters(query))
           /\ \A i, j \in parameters(query) : place(query, i) = place(query, j) => i = j
<1> DEFINE n == Cardinality(parameters(query))
<1>1. n \in Nat /\ IsFiniteSet(parameters(query))
  BY ParametersAreFinite
<1>2. ASSUME NEW i \in parameters(query)
      PROVE  place(query, i) \in 1..n
  <2>1. Earlier(query, i) \in SUBSET (parameters(query) \ {i})
    BY ComesBeforeIsOrder DEF Earlier
  <2>2. IsFiniteSet(parameters(query) \ {i}) /\ Cardinality(parameters(query) \ {i}) = n - 1
    BY <1>1, FS_RemoveElement
  <2>3. Cardinality(Earlier(query, i)) <= n - 1
    BY <2>1, <2>2, FS_Subset
  <2>4. Cardinality(Earlier(query, i)) \in Nat
    <3>1. Earlier(query, i) \in SUBSET parameters(query)
      BY DEF Earlier
    <3>2. QED
      BY <3>1, ParametersAreFinite
  <2>5. place(query, i) = 1 + Cardinality(Earlier(query, i))
    BY DEF place, Earlier
  <2> HIDE DEF n
  <2>6. QED
    BY <1>1, <2>3, <2>4, <2>5
<1>3. ASSUME NEW i \in parameters(query), NEW j \in parameters(query), i # j
      PROVE  place(query, i) # place(query, j)
  <2>1. comesBefore(query, i, j) \/ comesBefore(query, j, i)
    BY <1>3, ComesBeforeIsOrder
  <2>2. place(query, i) < place(query, j) \/ place(query, j) < place(query, i)
    BY <2>1, PlacesGrow
  <2>3. place(query, i) \in 1..n /\ place(query, j) \in 1..n
    BY <1>2
  <2> HIDE DEF n
  <2>4. QED
    BY <1>1, <2>2, <2>3
<1>4. QED
  BY <1>2, <1>3

\* Every place of the canonical query is taken.
LEMMA PlacesAreTaken ==
    ASSUME NEW query \in Seq(Segment), NEW k \in 1..Cardinality(parameters(query))
    PROVE  parameterAt(query, k) \in parameters(query) /\ place(query, parameterAt(query, k)) = k
<1> DEFINE n == Cardinality(parameters(query))
           f == [i \in parameters(query) |-> place(query, i)]
<1>1. n \in Nat /\ IsFiniteSet(parameters(query))
  BY ParametersAreFinite
<1>2. f \in Injection(parameters(query), 1..n)
  BY PlacesAreOwn DEF Injection, IsInjective
<1>3. IsFiniteSet(1..n) /\ Cardinality(1..n) = n
  BY <1>1, FS_Interval
<1>4. f \in Surjection(parameters(query), 1..n)
  <2> HIDE DEF f
  <2>1. QED
    BY <1>2, <1>3, FS_Injection
<1>5. \E i \in parameters(query) : place(query, i) = k
  BY <1>4 DEF Surjection
<1>6. QED
  BY <1>5 DEF parameterAt

LEMMA PlaceAndBack ==
    ASSUME NEW query \in Seq(Segment), NEW i \in parameters(query)
    PROVE  parameterAt(query, place(query, i)) = i
BY PlacesAreOwn, PlacesAreTaken

-----------------------------------------------------------------------------
(* Queries that say the same *)

\* `to' takes the parameters of one query to those of another, in their order.
Rearranges(to, query, other) ==
    /\ to \in Bijection(parameters(query), parameters(other))
    /\ \A i, j \in parameters(query) :
          comesBefore(other, to[i], to[j]) <=> comesBefore(query, i, j)
    /\ \A i \in parameters(query) : reencoded(other[to[i]]) = reencoded(query[i])

LEMMA SamePlace ==
    ASSUME NEW query \in Seq(Segment), NEW other \in Seq(Segment), NEW to,
           Rearranges(to, query, other), NEW i \in parameters(query)
    PROVE  to[i] \in parameters(other) /\ place(other, to[i]) = place(query, i)
<1> DEFINE part == [j \in Earlier(query, i) |-> to[j]]
<1>1. /\ to \in [parameters(query) -> parameters(other)]
      /\ \A j, k \in parameters(query) : to[j] = to[k] => j = k
      /\ \A k \in parameters(other) : \E j \in parameters(query) : to[j] = k
      /\ \A j, k \in parameters(query) :
            comesBefore(other, to[j], to[k]) <=> comesBefore(query, j, k)
  BY DEF Rearranges, Bijection, Injection, Surjection, IsInjective
<1>2. /\ part \in [Earlier(query, i) -> Earlier(other, to[i])]
      /\ \A j, k \in Earlier(query, i) : part[j] = part[k] => j = k
      /\ \A k \in Earlier(other, to[i]) : \E j \in Earlier(query, i) : part[j] = k
  BY <1>1 DEF Earlier
<1> HIDE DEF part
<1>3. part \in Bijection(Earlier(query, i), Earlier(other, to[i]))
  BY <1>2 DEF Bijection, Injection, Surjection, IsInjective
<1>4. ExistsBijection(Earlier(query, i), Earlier(other, to[i]))
  BY <1>3 DEF ExistsBijection
<1>5. Earlier(query, i) \in SUBSET parameters(query)
  BY DEF Earlier
<1>6. Cardinality(Earlier(other, to[i])) = Cardinality(Earlier(query, i))
  BY <1>4, <1>5, ParametersAreFinite, FS_Bijection
<1>7. QED
  BY <1>1, <1>6 DEF place, Earlier

LEMMA RearrangedIsSame ==
    ASSUME NEW query \in Seq(Segment), NEW other \in Seq(Segment), NEW to,
           Rearranges(to, query, other)
    PROVE  canonicalizeQuery(other) = canonicalizeQuery(query)
<1>1. Cardinality(parameters(other)) = Cardinality(parameters(query))
  <2>1. ExistsBijection(parameters(query), parameters(other))
    BY DEF Rearranges, ExistsBijection
  <2>2. QED
    BY <2>1, ParametersAreFinite, FS_Bijection
<1>2. ASSUME NEW k \in 1..Cardinality(parameters(query))
      PROVE  reencoded(other[parameterAt(other, k)]) = reencoded(query[parameterAt(query, k)])
  <2> DEFINE i == parameterAt(query, k)
  <2>1. i \in parameters(query) /\ place(query, i) = k
    BY PlacesAreTaken
  <2> HIDE DEF i
  <2>2. to[i] \in parameters(other) /\ place(other, to[i]) = k
    BY <2>1, SamePlace
  <2>3. parameterAt(other, k) = to[i]
    BY <2>2, PlaceAndBack
  <2>4. reencoded(other[to[i]]) = reencoded(query[i])
    BY <2>1 DEF Rearranges
  <2>5. QED
    BY <2>3, <2>4 DEF i
<1>3. QED
  BY <1>1, <1>2 DEF canonicalizeQuery

-----------------------------------------------------------------------------
(* The canonical query *)

LEMMA CanonicalSegments ==
    ASSUME NEW query \in Seq(Segment)
    PROVE  LET canonical == canonicalizeQuery(query)
           IN  /\ canonical \in Seq(Segment)
               /\ DOMAIN canonical = 1..Cardinality(parameters(query))
               /\ parameters(canonical) = 1..Cardinality(parameters(query))
               /\ \A i \in parameters(query) :
                     canonical[place(query, i)] = reencoded(query[i])
<1> DEFINE n == Cardinality(parameters(query))
           canonical == canonicalizeQuery(query)
<1>1. n \in Nat
  BY ParametersAreFinite
<1>2. canonical = [k \in 1..n |-> reencoded(query[parameterAt(query, k)])]
  BY DEF canonicalizeQuery
<1> HIDE DEF canonical
<1>3. ASSUME NEW k \in 1..n
      PROVE  canonical[k] \in Segment /\ isParameter(canonical[k])
  <2> DEFINE i == parameterAt(query, k)
  <2>1. i \in 1..Len(query) /\ query[i] \in Segment /\ isParameter(query[i])
    BY PlacesAreTaken, Parameters DEF parameters
  <2>2. canonical[k] = reencoded(query[i])
    BY <1>2
  <2> HIDE DEF i
  <2>3. query[i].key \in Text /\ query[i].value \in Text
    BY <2>1 DEF Segment, isParameter
  <2>4. QED
    BY <2>2, <2>3
    DEF reencoded, Pair, QueryEscape, QueryUnescape, Unescapes, isParameter, Segment, Text
<1>4. canonical \in Seq(Segment) /\ DOMAIN canonical = 1..n
  <2>1. canonical \in [1..n -> Segment]
    BY <1>2, <1>3
  <2> HIDE DEF n
  <2>2. QED
    BY <1>1, <2>1
<1>5. parameters(canonical) = 1..n
  BY <1>3, <1>4 DEF parameters
<1>6. ASSUME NEW i \in parameters(query)
      PROVE  canonical[place(query, i)] = reencoded(query[i])
  BY <1>2, PlacesAreOwn, PlaceAndBack
<1>7. QED
  BY <1>4, <1>5, <1>6 DEF canonical

\* What a parameter unescapes to stays what it was.
LEMMA CanonicalReads ==
    ASSUME NEW query \in Seq(Segment), NEW i \in parameters(query)
    PROVE  LET canonical == canonicalizeQuery(query)
           IN  /\ Reads(canonical[place(query, i)], query[i])
               /\ keyAt(canonical, place(query, i)) = keyAt(query, i)
               /\ reencoded(canonical[place(query, i)]) = reencoded(query[i])
<1>1. canonicalizeQuery(query)[place(query, i)] = reencoded(query[i])
  BY CanonicalSegments
<1>2. QED
  BY <1>1 DEF reencoded, Pair, QueryEscape, QueryUnescape, Reads, keyAt

LEMMA CanonicalRearranges ==
    ASSUME NEW query \in Seq(Segment)
    PROVE  Rearranges([i \in parameters(query) |-> place(query, i)], query, canonicalizeQuery(query))
<1> DEFINE canonical == canonicalizeQuery(query)
           to == [i \in parameters(query) |-> place(query, i)]
<1>1. canonical \in Seq(Segment) /\ parameters(canonical) = 1..Cardinality(parameters(query))
  BY CanonicalSegments
<1>2. \A i \in parameters(query) :
         /\ place(query, i) \in parameters(canonical)
         /\ place(query, i) \in Nat
         /\ keyAt(canonical, place(query, i)) = keyAt(query, i)
         /\ reencoded(canonical[place(query, i)]) = reencoded(query[i])
  BY <1>1, PlacesAreOwn, CanonicalReads
<1>3. to \in Bijection(parameters(query), parameters(canonical))
  <2>1. \A k \in parameters(canonical) : \E i \in parameters(query) : place(query, i) = k
    BY <1>1, PlacesAreTaken
  <2> HIDE DEF canonical
  <2>2. QED
    BY <1>2, <2>1, PlacesAreOwn DEF Bijection, Injection, Surjection, IsInjective
<1> HIDE DEF canonical
<1>4. ASSUME NEW i \in parameters(query), NEW j \in parameters(query), comesBefore(query, i, j)
      PROVE  comesBefore(canonical, place(query, i), place(query, j))
  <2>1. place(query, i) < place(query, j)
    BY <1>4, PlacesGrow
  <2>2. QED
    BY <1>2, <1>4, <2>1 DEF comesBefore
<1>5. ASSUME NEW i \in parameters(query), NEW j \in parameters(query), ~comesBefore(query, i, j)
      PROVE  ~comesBefore(canonical, place(query, i), place(query, j))
  <2>1. CASE i = j
    BY <1>1, <1>2, <2>1, ComesBeforeIsOrder
  <2>2. CASE i # j
    <3>1. comesBefore(query, j, i)
      BY <1>5, <2>2, ComesBeforeIsOrder
    <3>2. comesBefore(canonical, place(query, j), place(query, i))
      BY <1>4, <3>1
    <3>3. QED
      BY <1>1, <1>2, <3>2, ComesBeforeIsOrder
  <2>3. QED
    BY <2>1, <2>2
<1>6. QED
  BY <1>2, <1>3, <1>4, <1>5 DEF Rearranges, canonical

-----------------------------------------------------------------------------
(* Two segments of different keys change places *)

Swapped(query, i) == [query EXCEPT ![i] = query[i + 1], ![i + 1] = query[i]]

SwapsTo(i, j) == IF j = i THEN i + 1 ELSE IF j = i + 1 THEN i ELSE j

LEMMA SwappedSegments ==
    ASSUME NEW query \in Seq(Segment), NEW i \in 1..(Len(query) - 1)
    PROVE  /\ Swapped(query, i) \in Seq(Segment)
           /\ DOMAIN Swapped(query, i) = DOMAIN query
           /\ \A j \in DOMAIN query : /\ SwapsTo(i, j) \in DOMAIN query
                                      /\ SwapsTo(i, SwapsTo(i, j)) = j
                                      /\ Swapped(query, i)[SwapsTo(i, j)] = query[j]
<1>1. /\ Len(query) \in Nat /\ i \in DOMAIN query /\ i + 1 \in DOMAIN query
      /\ DOMAIN query = 1..Len(query) /\ query \in [1..Len(query) -> Segment]
  OBVIOUS
<1>2. Swapped(query, i) \in [1..Len(query) -> Segment]
  BY <1>1 DEF Swapped
<1>3. ASSUME NEW j \in 1..Len(query)
      PROVE  /\ SwapsTo(i, j) \in 1..Len(query)
             /\ SwapsTo(i, SwapsTo(i, j)) = j
             /\ Swapped(query, i)[SwapsTo(i, j)] = query[j]
  BY <1>1 DEF Swapped, SwapsTo
<1>4. QED
  BY <1>1, <1>2, <1>3

LEMMA SwappedRearranges ==
    ASSUME NEW query \in Seq(Segment), NEW i \in 1..(Len(query) - 1),
           query[i].kind = "pair", query[i + 1].kind = "pair",
           query[i].key[1] # query[i + 1].key[1]
    PROVE  Rearranges([j \in parameters(query) |-> SwapsTo(i, j)], query, Swapped(query, i))
<1> DEFINE other == Swapped(query, i)
           to == [j \in parameters(query) |-> SwapsTo(i, j)]
<1>1. /\ other \in Seq(Segment)
      /\ DOMAIN other = DOMAIN query
      /\ \A j \in DOMAIN query : /\ SwapsTo(i, j) \in DOMAIN query
                                 /\ SwapsTo(i, SwapsTo(i, j)) = j
                                 /\ other[SwapsTo(i, j)] = query[j]
  BY SwappedSegments
<1> HIDE DEF other
<1>2. \A j \in DOMAIN query : SwapsTo(i, j) \in parameters(other) <=> j \in parameters(query)
  BY <1>1 DEF parameters
<1>3. to \in Bijection(parameters(query), parameters(other))
  <2>1. /\ \A j \in parameters(query) : SwapsTo(i, j) \in parameters(other)
        /\ \A j, k \in parameters(query) : SwapsTo(i, j) = SwapsTo(i, k) => j = k
    BY <1>1, <1>2 DEF parameters
  <2>2. \A k \in parameters(other) : \E j \in parameters(query) : SwapsTo(i, j) = k
    <3>1. ASSUME NEW k \in parameters(other)
          PROVE  SwapsTo(i, k) \in parameters(query) /\ SwapsTo(i, SwapsTo(i, k)) = k
      BY <1>1, <1>2 DEF parameters
    <3>2. QED
      BY <3>1
  <2>3. QED
    BY <2>1, <2>2 DEF Bijection, Injection, Surjection, IsInjective
<1>4. \A j \in parameters(query) : keyAt(other, SwapsTo(i, j)) = keyAt(query, j)
                                   /\ reencoded(other[SwapsTo(i, j)]) = reencoded(query[j])
  BY <1>1 DEF keyAt, parameters
<1>5. keyAt(query, i) # keyAt(query, i + 1)
  BY DEF keyAt, QueryUnescape
<1>6. ASSUME NEW j \in parameters(query), NEW k \in parameters(query)
      PROVE  comesBefore(other, SwapsTo(i, j), SwapsTo(i, k)) <=> comesBefore(query, j, k)
  <2>1. i \in Nat /\ j \in Nat /\ k \in Nat
    BY Parameters
  <2>2. CASE keyAt(query, j) # keyAt(query, k)
    BY <1>4, <2>2 DEF comesBefore
  <2>3. CASE keyAt(query, j) = keyAt(query, k)
    <3>1. ~(j = i /\ k = i + 1) /\ ~(j = i + 1 /\ k = i)
      BY <1>5, <2>3
    <3>2. SwapsTo(i, j) < SwapsTo(i, k) <=> j < k
      BY <2>1, <3>1 DEF SwapsTo
    <3>3. keyAt(query, j) \in Nat
      BY Parameters
    <3>4. QED
      BY <1>4, <2>3, <3>2, <3>3 DEF comesBefore
  <2>4. QED
    BY <2>2, <2>3
<1>7. QED
  BY <1>3, <1>4, <1>6 DEF Rearranges, other

-----------------------------------------------------------------------------
(* What is promised of every request *)

(***************************************************************************)
(* SentIsSigned holds of a query of any length: RoundTrip sends nothing    *)
(* unless canonicalizeQuery has read every segment, and then each          *)
(* parameter is in its place of the canonical query.                       *)
(***************************************************************************)
THEOREM WhatIsSentIsSigned ==
    ASSUME input \in [of: {"RoundTrip"}, query: Seq(Segment), keyDecodes: BOOLEAN]
    PROVE  SentIsSigned
<1> DEFINE query == input.query
           request == Request(query, input.keyDecodes)
           canonical == canonicalizeQuery(query)
           given == {i \in DOMAIN query : query[i].kind # "empty"}
           to == [i \in given |-> place(query, i)]
<1>1. query \in Seq(Segment)
  OBVIOUS
<1> SUFFICES ASSUME RoundTrip(request).sent
             PROVE  \E f \in [given -> DOMAIN canonical] :
                       /\ \A k \in DOMAIN canonical : \E i \in given : f[i] = k
                       /\ \A i \in given : Reads(canonical[f[i]], query[i])
                       /\ \A i, j \in given :
                             /\ i # j => f[i] # f[j]
                             /\ i < j /\ keyAt(query, i) = keyAt(query, j) => f[i] < f[j]
  <2>1. RoundTrip(request).sent => RoundTrip(request).signed.query = canonical
    BY DEF RoundTrip, Request, generateMessage
  <2>2. QED
    BY <2>1 DEF SentIsSigned
<1>2. ~hasError(query)
  BY DEF RoundTrip, Request
<1>3. given = parameters(query)
  BY <1>1, <1>2 DEF hasError, parameters, isParameter
<1> HIDE DEF query
<1>4. DOMAIN canonical = 1..Cardinality(parameters(query))
  BY <1>1, CanonicalSegments
<1>5. \A i \in given : place(query, i) \in DOMAIN canonical
                       /\ Reads(canonical[place(query, i)], query[i])
  BY <1>1, <1>3, <1>4, PlacesAreOwn, CanonicalReads
<1>6. \A k \in DOMAIN canonical : \E i \in given : place(query, i) = k
  BY <1>1, <1>3, <1>4, PlacesAreTaken
<1>7. ASSUME NEW i \in given, NEW j \in given
      PROVE  /\ i # j => place(query, i) # place(query, j)
             /\ i < j /\ keyAt(query, i) = keyAt(query, j) => place(query, i) < place(query, j)
  <2>1. i # j => place(query, i) # place(query, j)
    BY <1>1, <1>3, PlacesAreOwn
  <2>2. ASSUME i < j, keyAt(query, i) = keyAt(query, j)
        PROVE  place(query, i) < place(query, j)
    <3>1. comesBefore(query, i, j)
      BY <2>2 DEF comesBefore
    <3>2. QED
      BY <1>1, <1>3, <3>1, PlacesGrow
  <2>3. QED
    BY <2>1, <2>2
<1> HIDE DEF canonical, given
<1>8. to \in [given -> DOMAIN canonical] /\ \A i \in given : to[i] = place(query, i)
  BY <1>5
<1> HIDE DEF to
<1>9. QED
  BY <1>5, <1>6, <1>7, <1>8

(***************************************************************************)
(* SignatureIsCanonical holds of a query of any length: the canonical      *)
(* query, and the query with two neighbours of different keys swapped, are *)
(* rearrangements of it, and canonicalizeQuery undoes a rearrangement.     *)
(***************************************************************************)
THEOREM SignaturesAreCanonical ==
    ASSUME input \in [of: {"RoundTrip"}, query: Seq(Segment), keyDecodes: BOOLEAN]
    PROVE  SignatureIsCanonical
<1> DEFINE query == input.query
<1>1. query \in Seq(Segment)
  OBVIOUS
<1> HIDE DEF query
<1>2. canonicalizeQuery(canonicalizeQuery(query)) = canonicalizeQuery(query)
  <2>1. canonicalizeQuery(query) \in Seq(Segment)
    BY <1>1, CanonicalSegments
  <2>2. QED
    BY <1>1, <2>1, CanonicalRearranges, RearrangedIsSame
<1>3. ASSUME NEW i \in 1..(Len(query) - 1),
             query[i].kind = "pair", query[i + 1].kind = "pair",
             query[i].key[1] # query[i + 1].key[1]
      PROVE  canonicalizeQuery(Swapped(query, i)) = canonicalizeQuery(query)
  <2>1. Swapped(query, i) \in Seq(Segment)
    BY <1>1, SwappedSegments
  <2>2. Rearranges([j \in parameters(query) |-> SwapsTo(i, j)], query, Swapped(query, i))
    BY <1>1, <1>3, SwappedRearranges
  <2>3. QED
    BY <1>1, <2>1, <2>2, RearrangedIsSame
<1>4. QED
  BY <1>2, <1>3 DEF SignatureIsCanonical, Swapped, query
=============================================================================
