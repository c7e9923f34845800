----------------------------- MODULE WorkQueue -----------------------------
(***************************************************************************)
(* The controller's work queue of Service keys.  It belongs to client-go   *)
(* and controller-runtime, outside the repository.  A key that is waiting  *)
(* is not added twice; one that is added while it is being processed waits *)
(* until it is done.  A key that asks for another pass, by a RequeueAfter  *)
(* or an error, goes to the back of the queue: how long it is kept from it *)
(* makes no difference here, where the worker may take any time.           *)
(***************************************************************************)
EXTENDS Naturals, SequencesExt

CONSTANT Services   \* keys of Services

ASSUME QueueAssumption == IsFiniteSet(Services)

VARIABLES
    queue,        \* keys ready to be processed
    dirty,        \* keys that need a pass: those in the queue, and those added meanwhile
    processing    \* keys a worker has taken

queueVars == <<queue, dirty, processing>>

QueueTypeOK ==
    /\ queue \in Seq(Services)
    /\ dirty \subseteq Services
    /\ processing \subseteq Services

QueueInit ==
    /\ queue = <<>>
    /\ dirty = {}
    /\ processing = {}

\* A set of keys is added in any order.
Add(keys) ==
    /\ dirty' = dirty \cup keys
    /\ \E order \in SetToSeqs(keys \ (dirty \cup processing)) : queue' = queue \o order
    /\ UNCHANGED processing

Take(key) ==
    /\ queue # <<>>
    /\ key = Head(queue)
    /\ queue' = Tail(queue)
    /\ dirty' = dirty \ {key}
    /\ processing' = processing \cup {key}

Done(key, retry) ==
    /\ processing' = processing \ {key}
    /\ dirty' = IF retry THEN dirty \cup {key} ELSE dirty
    /\ queue' = IF key \in dirty' THEN Append(queue, key) ELSE queue

\* A restart loses the queue; the informer then adds every Service there is.
Restarted(keys) ==
    /\ processing' = {}
    /\ dirty' = keys
    /\ queue' \in SetToSeqs(keys)
=============================================================================
