------------------------------ MODULE Signing ------------------------------
(***************************************************************************)
(* How a request to the Crusoe API is signed: the query is brought into a  *)
(* canonical form, which is signed together with the path, the method and  *)
(* the time.  A request that cannot be signed is not sent.                 *)
(*                                                                         *)
(* A text is written <<t, form>>: t stands for the text it unescapes to,   *)
(* ordered as strings are, and form tells the way QueryEscape writes it    *)
(* from any other, and from one that does not unescape.                    *)
(***************************************************************************)
EXTENDS Naturals, Sequences, FiniteSets

Text == Nat \X {"escaped", "other", "broken"}

\* What stands between two ampersands.  A pair without "=" has an empty value.
Segment ==
    [kind: {"empty", "semicolon"}] \cup [kind: {"pair"}, key: Text, value: Text]

Pair(key, value) == [kind |-> "pair", key |-> key, value |-> value]

Unescapes(text) == text[2] # "broken"

QueryUnescape(text) == text[1]

QueryEscape(t) == <<t, "escaped">>

isParameter(segment) ==
    segment.kind = "pair" /\ Unescapes(segment.key) /\ Unescapes(segment.value)

\* Mutant: a segment that cannot be read is passed over.
noError(query) == FALSE

\* A semicolon, or a key or a value that does not unescape.  The other segments
\* are put together all the same, but the caller gets the error.
hasError(query) ==
    \E i \in DOMAIN query : query[i].kind # "empty" /\ ~isParameter(query[i])

parameters(query) == {i \in DOMAIN query : isParameter(query[i])}

keyAt(query, i) == QueryUnescape(query[i].key)

reencoded(segment) ==
    Pair(QueryEscape(QueryUnescape(segment.key)), QueryEscape(QueryUnescape(segment.value)))

\* Mutant: the keys come out as they came in.
asTheyCome(query, i, j) == i < j

\* sort.Strings on the keys of the map, each of which has its values in the
\* order they were appended in.
comesBefore(query, i, j) ==
    \/ keyAt(query, i) < keyAt(query, j)
    \/ keyAt(query, i) = keyAt(query, j) /\ i < j

place(query, i) ==
    1 + Cardinality({j \in parameters(query) : comesBefore(query, j, i)})

parameterAt(query, k) == CHOOSE i \in parameters(query) : place(query, i) = k

canonicalizeQuery(query) ==
    [k \in 1..Cardinality(parameters(query)) |-> reencoded(query[parameterAt(query, k)])]

generateMessage(request) ==
    [path |-> request.path, query |-> canonicalizeQuery(request.query),
     method |-> request.method, timestamp |-> request.timestamp]

\* addSignature fails on a query with an error and on a secret key that is not
\* base64; otherwise the request goes out with its message signed.
RoundTrip(request) ==
    IF hasError(request.query) \/ ~request.keyDecodes
    THEN [sent |-> FALSE]
    ELSE [sent |-> TRUE, signed |-> generateMessage(request)]
=============================================================================
