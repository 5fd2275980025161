------------------------------ MODULE GraphBatch ------------------------------
(***************************************************************************)
(* The queue through which emails are marked, categorized and moved at     *)
(* Microsoft Graph (src/integrations/microsoft/graph_client.py,            *)
(* GraphBatchQueue and the methods that enqueue to it).  A call enqueues a *)
(* request and waits for its future; one worker per process takes up to    *)
(* BatchSize requests, posts those of each token together and gives every  *)
(* future its answer.  The call then decides whether to try again.         *)
(*                                                                         *)
(* The provider may throttle a batch or a request of it, refuse a request, *)
(* leave one without an answer, or apply requests and lose the answer of   *)
(* the whole batch.  Calls are those of one process, and are not           *)
(* cancelled: nothing in the agent's run cancels a tool.                   *)
(***************************************************************************)
EXTENDS Naturals, Sequences, FiniteSets, SequencesExt, FiniteSetsExt

CONSTANTS
    Requests,   \* calls, each of which changes one email
    Bulk,       \* those made for a list of emails: they return a result
    TokenOf,    \* the access token of a call
    BatchSize,  \* requests taken at a time (20)
    Attempts    \* tries of a batch, and of a call (3)

ASSUME BatchAssumption ==
    /\ Bulk \subseteq Requests /\ DOMAIN TokenOf = Requests
    /\ BatchSize \in Nat \ {0} /\ Attempts \in Nat \ {0}

VARIABLES
    waiting,    \* the queue: requests put and not taken
    taken,      \* the requests the worker took
    left,       \* the places of those that are not answered yet
    busy,       \* the worker is running
    throttled,  \* tries of the first batch that were throttled
    doing,      \* what a call does
    attempt,    \* tries of a call that are over
    future,     \* the answer of the request a call waits for
    applied,    \* times the provider applied the change
    unanswered  \* calls a request of which was applied without an answer

batchVars == <<waiting, taken, left, busy, throttled, doing, attempt, future, applied,
               unanswered>>

Statuses == {"applied", "throttled", "refused"}
Doings == {"idle", "waiting", "retrying", "done", "failed"}

BatchInit ==
    /\ waiting = <<>> /\ taken = <<>> /\ left = {} /\ busy = FALSE /\ throttled = 0
    /\ doing = [r \in Requests |-> "idle"]
    /\ attempt = [r \in Requests |-> 0]
    /\ future = [r \in Requests |-> "pending"]
    /\ applied = [r \in Requests |-> 0]
    /\ unanswered = {}

-----------------------------------------------------------------------------
(* A call: enqueue_request, and what the caller does with the answer.      *)

\* The worker is started by the first request, and again if it has ended.
Put(r) ==
    /\ doing[r] \in {"idle", "retrying"}
    /\ waiting' = Append(waiting, r)
    /\ busy' = TRUE
    /\ future' = [future EXCEPT ![r] = "pending"]
    /\ doing' = [doing EXCEPT ![r] = "waiting"]
    /\ UNCHANGED <<taken, left, throttled, attempt, applied, unanswered>>

LastTry(r) == attempt[r] + 1 = Attempts

\* A list's call takes a refusal as its result; a single email's raises in the
\* try block and is tried again like a request without an answer.
TriesAgain(r) ==
    /\ ~LastTry(r)
    /\ future[r] \in {"throttled", "error"} \/ (future[r] = "refused" /\ r \notin Bulk)

\* A single email's call that was throttled to the end leaves the loop without
\* an exception, and its tool reports a success.
Outcome(r) ==
    IF future[r] = "applied" \/ (future[r] = "throttled" /\ r \notin Bulk)
    THEN "done" ELSE "failed"

Resume(r) ==
    /\ doing[r] = "waiting" /\ future[r] # "pending"
    /\ attempt' = [attempt EXCEPT ![r] = @ + 1]
    /\ doing' = [doing EXCEPT ![r] = IF TriesAgain(r) THEN "retrying" ELSE Outcome(r)]
    /\ UNCHANGED <<waiting, taken, left, busy, throttled, future, applied, unanswered>>

-----------------------------------------------------------------------------
(* The worker: _process_queue.                                             *)

\* Mutated Collect: a request takes the place of an earlier one of its token.
CollectLast ==
    /\ busy /\ left = {} /\ waiting # <<>>
    /\ LET n == Min({BatchSize, Len(waiting)})
       IN  /\ taken' = SubSeq(waiting, 1, n)
           /\ left' = {i \in 1 .. n :
                \A j \in i + 1 .. n : TokenOf[waiting[j]] # TokenOf[waiting[i]]}
           /\ waiting' = SubSeq(waiting, n + 1, Len(waiting))
    /\ UNCHANGED <<busy, throttled, doing, attempt, future, applied, unanswered>>

Collect ==
    /\ busy /\ left = {} /\ waiting # <<>>
    /\ LET n == Min({BatchSize, Len(waiting)})
       IN  /\ taken' = SubSeq(waiting, 1, n)
           /\ left' = 1 .. n
           /\ waiting' = SubSeq(waiting, n + 1, Len(waiting))
    /\ UNCHANGED <<busy, throttled, doing, attempt, future, applied, unanswered>>

\* The batch: the places of the requests of a token, in the order in which the
\* tokens come up.
Chunk == {i \in left : TokenOf[taken[i]] = TokenOf[taken[Min(left)]]}
Of(is) == {taken[i] : i \in is}

\* The provider applies the requests at the places in is; silent are those whose
\* call is not told.
Applies(is, silent) ==
    /\ applied' = [r \in Requests |-> IF r \in Of(is) THEN applied[r] + 1 ELSE applied[r]]
    /\ unanswered' = unanswered \union Of(silent)

\* Every future of the batch is set, and the worker turns to the next one.
AnswerAll(answer) ==
    /\ future' = [r \in Requests |->
            IF r \in Of(Chunk) THEN answer[CHOOSE i \in Chunk : taken[i] = r] ELSE future[r]]
    /\ left' = left \ Chunk
    /\ throttled' = 0
    /\ UNCHANGED <<waiting, taken, busy, doing, attempt>>

\* Mutated Numbered: the responses are taken to be in the order of the requests.
NumberedByPlace(responses, i) ==
    LET nth == Cardinality({j \in Chunk : j <= i})
    IN  IF nth \in DOMAIN responses THEN responses[nth].status ELSE "error"

\* Responses carry the number of their request, here its place, and come in any
\* order; a number that is missing is an exception in its future.
Numbered(responses, i) ==
    LET of == {k \in DOMAIN responses : responses[k].id = i}
    IN  IF of = {} THEN "error" ELSE responses[Max(of)].status

Answered(status, order) ==
    LET responses == [k \in DOMAIN order |-> [id |-> order[k], status |-> status[order[k]]]]
        done == {i \in Chunk : status[i] = "applied"}
    IN  /\ Applies(done, done \ ToSet(order))
        /\ AnswerAll([i \in Chunk |-> Numbered(responses, i)])

\* A batch that is throttled is posted again, up to Attempts times.
Throttled ==
    /\ left # {} /\ throttled + 1 < Attempts
    /\ throttled' = throttled + 1
    /\ UNCHANGED <<waiting, taken, left, busy, doing, attempt, future, applied, unanswered>>

\* Throttled to the end, refused as a whole, or the answer is lost.
BatchFails(is) ==
    /\ Applies(is, is)
    /\ AnswerAll([i \in Chunk |-> "error"])

BatchNext ==
    \/ \E r \in Requests : Put(r) \/ Resume(r)
    \/ Collect \/ Throttled
    \/ left # {} /\ \E told \in SUBSET Chunk :
            \E status \in [Chunk -> Statuses], order \in SetToSeqs(told) :
                Answered(status, order)
    \/ left # {} /\ \E is \in SUBSET Chunk : BatchFails(is)

BatchSpec == BatchInit /\ [][BatchNext]_batchVars

-----------------------------------------------------------------------------
(* Properties.                                                             *)

BatchTypeOK ==
    /\ waiting \in Seq(Requests) /\ taken \in Seq(Requests) /\ left \subseteq DOMAIN taken
    /\ busy \in BOOLEAN /\ throttled \in 0 .. Attempts - 1
    /\ doing \in [Requests -> Doings] /\ attempt \in [Requests -> 0 .. Attempts]
    /\ future \in [Requests -> Statuses \union {"pending", "error"}]
    /\ applied \in [Requests -> 0 .. Attempts] /\ unanswered \subseteq Requests

\* No call waits for ever: as long as its future is not set its request is in the
\* queue or with the worker, once, and there is a worker for it; and a batch is
\* of one token, since it is posted with the token of its user.
Held == ({"waiting"} \X DOMAIN waiting) \union ({"taken"} \X left)
RequestAt(p) == IF p[1] = "waiting" THEN waiting[p[2]] ELSE taken[p[2]]
WaitingIsHeld ==
    /\ \A r \in Requests :
            doing[r] = "waiting" /\ future[r] = "pending" <=> \E p \in Held : RequestAt(p) = r
    /\ \A p, q \in Held : RequestAt(p) = RequestAt(q) => p = q
    /\ Held # {} => busy
    /\ Len(taken) <= BatchSize
    /\ \A i, j \in Chunk : TokenOf[taken[i]] = TokenOf[taken[j]]

\* What a call reports is what the provider did with its own email: a success was
\* applied unless a single email's call was throttled to the end, and a failure
\* or a second application follows an application without an answer.
ReportsAreTrue ==
    \A r \in Requests :
        /\ doing[r] = "done" =>
                applied[r] > 0 \/ (r \notin Bulk /\ future[r] = "throttled")
        /\ (doing[r] = "failed" /\ applied[r] > 0) \/ applied[r] > 1 => r \in unanswered
=============================================================================
