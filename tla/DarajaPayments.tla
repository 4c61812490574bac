--------------------------- MODULE DarajaPayments ---------------------------
(***************************************************************************)
(* M-Pesa collections (internal/contribution, daraja*.go): a stored        *)
(* payment request, the STK prompt sent for it, the provider's callbacks,  *)
(* and the two workers that recover what a crash, a lost response or a     *)
(* lost callback left open.                                                *)
(*                                                                         *)
(* Every database transaction locks the request row before it reads it, so *)
(* each one is a step; the provider calls between them are not, and the    *)
(* server may die anywhere in between.  The provider, the member's phone   *)
(* and the staff are external.  Retry delays are left open: whatever is    *)
(* due may run at any later time.                                          *)
(***************************************************************************)
EXTENDS Integers, FiniteSets

CONSTANTS
    Requests,      \* idempotency keys, each naming one payment request
    Checkouts,     \* CheckoutRequestIDs the provider issues
    Clients,       \* InitiateDarajaSTKPayment calls in flight at once
    None,          \* SQL NULL
    MaxAttempts,   \* 8: claims of one callback, and queries of one checkout
    MaxDeaths,     \* bound on calls and workers that die half-way
    UnsignedRoute  \* whether callbacks also reach the route without a key

ASSUME DarajaConstants ==
    /\ None \notin Requests \cup Checkouts
    /\ MaxAttempts \in Nat \ {0}
    /\ MaxDeaths \in Nat
    /\ UnsignedRoute \in BOOLEAN

VARIABLES
    status,    \* request -> contribution_payment_requests.status
    recovery,  \* request -> recovery_status
    checkout,  \* request -> checkout_request_id
    queries,   \* request -> query_attempts
    receipts,  \* receipts created for requests
    callback,  \* payload -> whether daraja_callbacks holds it, and processed_at
    tries,     \* payload -> daraja_callbacks.attempts
    call,      \* client -> its InitiateDarajaSTKPayment call
    worker,    \* the callback RecoverDaraja is working on
    querier,   \* the request QueryPendingDaraja is working on
    prompt,    \* external: checkout -> the STK prompt the member sees
    deaths

rows    == <<status, recovery, checkout, queries, receipts>>
inbox   == <<callback, tries>>
vars    == <<rows, inbox, call, worker, querier, prompt, deaths>>

Statuses   == {"absent", "pending", "completed", "failed"}
Recoveries == {"awaiting_confirmation", "not_sent", "needs_review", "received",
               "received_needs_receipt", "received_needs_review", "provider_failed"}

\* recovery_status LIKE 'received%'
IsReceived(r) == r \in {"received", "received_needs_receipt", "received_needs_review"}

\* What a callback says of a checkout: "verified" is the one staff reconcile
\* with.  The payload hash makes each of them one row.
Payloads == [checkout : Checkouts, kind : {"paid", "mismatch", "failed", "verified"}]

Idle == [request |-> None, phase |-> "idle", checkout |-> None]
Call == [request : Requests \cup {None}, checkout : Checkouts \cup {None},
         phase : {"idle", "created", "accepted", "not_sent", "rejected"}]

NoWork == [payload |-> None, phase |-> "idle"]
Work   == {NoWork} \cup [payload : Payloads, phase : {"claimed", "ok", "error"}]

NoQuery == [request |-> None, checkout |-> None, attempts |-> 0, phase |-> "idle", code |-> ""]
Query   == {NoQuery} \cup [request : Requests, checkout : Checkouts, attempts : Nat,
                           phase : {"claimed", "answered", "marked"},
                           code : {"", "0", "failed", "other", "unavailable"}]

\* A prompt, and everything the provider has said or may still say of it.
Outcomes == {"paid", "mismatch", "failed"}
NoPrompt == [request |-> None, outcomes |-> {}]
Prompt   == [request : Requests \cup {None}, outcomes : SUBSET Outcomes]
IsPaid(p) == prompt[p].outcomes \cap {"paid", "mismatch"} # {}

TypeOK ==
    /\ status \in [Requests -> Statuses]
    /\ recovery \in [Requests -> Recoveries]
    /\ checkout \in [Requests -> Checkouts \cup {None}]
    /\ queries \in [Requests -> 0 .. MaxAttempts]
    /\ receipts \subseteq [request : Requests, checkout : Checkouts]
    /\ callback \in [Payloads -> {"absent", "waiting", "processed"}]
    /\ tries \in [Payloads -> 0 .. MaxAttempts]
    /\ call \in [Clients -> Call]
    /\ worker \in Work
    /\ querier \in Query
    /\ prompt \in [Checkouts -> Prompt]
    /\ deaths \in 0 .. MaxDeaths

Init ==
    /\ status = [k \in Requests |-> "absent"]
    /\ recovery = [k \in Requests |-> "awaiting_confirmation"]
    /\ checkout = [k \in Requests |-> None]
    /\ queries = [k \in Requests |-> 0]
    /\ receipts = {}
    /\ callback = [m \in Payloads |-> "absent"]
    /\ tries = [m \in Payloads |-> 0]
    /\ call = [c \in Clients |-> Idle]
    /\ worker = NoWork
    /\ querier = NoQuery
    /\ prompt = [p \in Checkouts |-> NoPrompt]
    /\ deaths = 0

-----------------------------------------------------------------------------
(* Queries and updates of the request row.                                 *)

RequestsOf(p) == {k \in Requests : checkout[k] = p}

\* SET checkout_request_id, whatever it was, under UNIQUE (checkout_request_id).
UpdateCheckoutID(k, p) ==
    /\ RequestsOf(p) \subseteq {k}
    /\ checkout' = [checkout EXCEPT ![k] = p]

\* SET status = 'failed', whatever it was.
UpdateFailed(k) ==
    /\ status' = [status EXCEPT ![k] = "failed"]
    /\ recovery' = [recovery EXCEPT ![k] = "provider_failed"]

\* A mutant: the result of a query is recorded on any open request.
LateResultWins(k, new) == status[k] # "completed"

\* A late result must not erase what a callback established.
QueryResultApplies(k, new) ==
    /\ status[k] # "completed"
    /\ IsReceived(recovery[k]) => new = "received_needs_review"
    /\ status[k] # "pending" =>
          new \in {"received_needs_review", "received_needs_receipt", "provider_failed"}

RecordDarajaQueryResult(k, new) ==
    recovery' = IF QueryResultApplies(k, new) THEN [recovery EXCEPT ![k] = new] ELSE recovery

\* Whether a failure may be recorded on a request.
MayFail(k) == status[k] # "completed" /\ ~IsReceived(recovery[k])

\* A mutant: the failure is recorded on a completed request too.
FailsAnyRequest(k) == status' = [status EXCEPT ![k] = "failed"] /\ UNCHANGED recovery

\* MarkDarajaSTKPaymentFailed, for the request that has this checkout.
MarkDarajaSTKPaymentFailed(k) ==
    IF MayFail(k) THEN UpdateFailed(k) ELSE UNCHANGED <<status, recovery>>

\* SET attempts = 0 on the exhausted callbacks of a checkout.
RequeueDarajaCallbacks(p) ==
    tries' = [m \in Payloads |->
                IF m.checkout = p /\ callback[m] = "waiting" /\ tries[m] >= MaxAttempts
                THEN 0 ELSE tries[m]]

\* ON CONFLICT (payload_hash) DO NOTHING.
InsertDarajaCallback(m) ==
    callback' = IF callback[m] = "absent" THEN [callback EXCEPT ![m] = "waiting"] ELSE callback

-----------------------------------------------------------------------------
(* InitiateDarajaSTKPayment.                                               *)

CallAt(c, k, phase, p) ==
    call' = [call EXCEPT ![c] = [request |-> k, phase |-> phase, checkout |-> p]]

\* createContributionPaymentRequest on a new key.
InsertContributionPaymentRequest(c, k) ==
    /\ call[c].phase = "idle"
    /\ status[k] = "absent"
    /\ status' = [status EXCEPT ![k] = "pending"]
    /\ CallAt(c, k, "created", None)
    /\ UNCHANGED <<recovery, checkout, queries, receipts, inbox, worker, querier, prompt, deaths>>

\* A mutant: no checkout ID is taken for no prompt.
ResendsWithoutCheckout(k) == status[k] = "pending" /\ checkout[k] = None

MayResend(k) == status[k] = "pending" /\ checkout[k] = None /\ recovery[k] = "not_sent"

\* The same key again: only a request whose prompt was never sent is claimed
\* for another try; every other retry is answered without a prompt.
ClaimUnsentDarajaRequest(c, k) ==
    /\ call[c].phase = "idle"
    /\ MayResend(k)
    /\ recovery' = [recovery EXCEPT ![k] = "awaiting_confirmation"]
    /\ CallAt(c, k, "created", None)
    /\ UNCHANGED <<status, checkout, queries, receipts, inbox, worker, querier, prompt, deaths>>

\* InitiateSTK fails before the prompt is submitted.
PromptNotSent(c) ==
    /\ call[c].phase = "created"
    /\ CallAt(c, call[c].request, "not_sent", None)
    /\ UNCHANGED <<rows, inbox, worker, querier, prompt, deaths>>

\* An answer that is lost, or that is not a clear refusal, decides nothing: the
\* request stays as it is.
LostIsRejected(c) == CallAt(c, call[c].request, "rejected", None)  \* a mutant
AnswerLost(c) == call' = [call EXCEPT ![c] = Idle]

\* InitiateSTK submits: the provider prompts the member and says so, prompts
\* and the answer is lost, refuses, or does nothing that can be known.
InitiateSTK(c) ==
    /\ call[c].phase = "created"
    /\ \/ \E p \in Checkouts :
             /\ prompt[p] = NoPrompt
             /\ prompt' = [prompt EXCEPT ![p] = [request |-> call[c].request, outcomes |-> {}]]
             /\ \/ CallAt(c, call[c].request, "accepted", p)
                \/ AnswerLost(c)
       \/ CallAt(c, call[c].request, "rejected", None) /\ UNCHANGED prompt
       \/ AnswerLost(c) /\ UNCHANGED prompt
    /\ UNCHANGED <<rows, inbox, worker, querier, deaths>>

SaveCheckout(c) ==
    /\ call[c].phase = "accepted"
    /\ UpdateCheckoutID(call[c].request, call[c].checkout)
    /\ call' = [call EXCEPT ![c] = Idle]
    /\ UNCHANGED <<status, recovery, queries, receipts, inbox, worker, querier, prompt, deaths>>

SaveNotSent(c) ==
    /\ call[c].phase = "not_sent"
    /\ RecordDarajaQueryResult(call[c].request, "not_sent")
    /\ call' = [call EXCEPT ![c] = Idle]
    /\ UNCHANGED <<status, checkout, queries, receipts, inbox, worker, querier, prompt, deaths>>

SaveRejected(c) ==
    /\ call[c].phase = "rejected"
    /\ UpdateFailed(call[c].request)
    /\ call' = [call EXCEPT ![c] = Idle]
    /\ UNCHANGED <<checkout, queries, receipts, inbox, worker, querier, prompt, deaths>>

\* The server dies, or the save fails.
CallDies(c) ==
    /\ call[c].phase # "idle"
    /\ deaths < MaxDeaths /\ deaths' = deaths + 1
    /\ call' = [call EXCEPT ![c] = Idle]
    /\ UNCHANGED <<rows, inbox, worker, querier, prompt>>

-----------------------------------------------------------------------------
(* The member's phone, and callbacks on their way.                         *)

\* The member pays, declines, or pays after the prompt was given up as failed;
\* "mismatch" is a payment of another amount than the request expects.
MemberAnswers(p, outcome) ==
    /\ prompt[p] # NoPrompt /\ ~IsPaid(p)
    /\ prompt' = [prompt EXCEPT ![p] = [request  |-> prompt[p].request,
                                        outcomes |-> prompt[p].outcomes \cup {outcome}]]
    /\ UNCHANGED <<rows, inbox, call, worker, querier, deaths>>

\* HandleSTKCallback on the signed route: binding the checkout to the request
\* and keeping the callback are one transaction.  The provider delivers an
\* outcome once or repeatedly or never, and in any order.
HandleSTKCallback(p, outcome) ==
    LET k == prompt[p].request
    IN  /\ outcome \in prompt[p].outcomes
        /\ checkout[k] \in {None, p}
        /\ IF checkout[k] = None THEN UpdateCheckoutID(k, p) ELSE UNCHANGED checkout
        /\ InsertDarajaCallback([checkout |-> p, kind |-> outcome])
        /\ UNCHANGED <<status, recovery, queries, receipts, tries, call, worker, querier, prompt, deaths>>

\* The route without a key keeps the callback and binds nothing.
HandleUnsignedCallback(p, outcome) ==
    /\ UnsignedRoute
    /\ outcome \in prompt[p].outcomes
    /\ InsertDarajaCallback([checkout |-> p, kind |-> outcome])
    /\ UNCHANGED <<rows, tries, call, worker, querier, prompt, deaths>>

-----------------------------------------------------------------------------
(* RecoverDaraja: one saved callback at a time.                            *)

OneTryShort(m) == tries[m] + 1 < MaxAttempts  \* a mutant
TriesLeft(m) == tries[m] < MaxAttempts

ClaimDarajaCallback(m) ==
    /\ worker = NoWork
    /\ callback[m] = "waiting" /\ TriesLeft(m)
    /\ tries' = [tries EXCEPT ![m] = tries[m] + 1]
    /\ worker' = [payload |-> m, phase |-> "claimed"]
    /\ UNCHANGED <<rows, callback, call, querier, prompt, deaths>>

WorkEnds(phase) == worker' = [payload |-> worker.payload, phase |-> phase]

AnyAmount(m) == TRUE  \* a mutant
AmountMatches(m) == m.kind # "mismatch"

\* ProcessDarajaSTKPayment for the request k that has this checkout.
ProcessDarajaSTKPayment(k, m) ==
    \/ \* Already completed: the same payment again is a success.
       /\ status[k] = "completed"
       /\ WorkEnds(IF AmountMatches(m) THEN "ok" ELSE "error")
       /\ UNCHANGED rows
    \/ \* Money arrived, but not the amount expected.
       /\ status[k] # "completed" /\ ~AmountMatches(m)
       /\ RecordDarajaQueryResult(k, "received_needs_review")
       /\ WorkEnds("error")
       /\ UNCHANGED <<status, checkout, queries, receipts>>
    \/ \* The receipt and the completion commit together.
       /\ status[k] # "completed" /\ AmountMatches(m)
       /\ receipts' = receipts \cup {[request |-> k, checkout |-> m.checkout]}
       /\ status' = [status EXCEPT ![k] = "completed"]
       /\ recovery' = [recovery EXCEPT ![k] = "received"]
       /\ WorkEnds("ok")
       /\ UNCHANGED <<checkout, queries>>

WorkerProcesses ==
    LET m == worker.payload
    IN  /\ worker.phase = "claimed"
        /\ \/ \* ErrPaymentRequestNotFound
              /\ RequestsOf(m.checkout) = {}
              /\ WorkEnds("error")
              /\ UNCHANGED rows
           \/ \E k \in RequestsOf(m.checkout) :
                 \/ m.kind # "failed" /\ ProcessDarajaSTKPayment(k, m)
                 \/ /\ m.kind = "failed"
                    /\ MarkDarajaSTKPaymentFailed(k)
                    /\ WorkEnds("ok")
                    /\ UNCHANGED <<checkout, queries, receipts>>
        /\ UNCHANGED <<inbox, call, querier, prompt, deaths>>

\* A mutant: processed_at set whether or not there was an error.
AlwaysProcessed == "processed"

\* CASE WHEN last_error = '' THEN NOW() ELSE NULL END
ProcessedAt == IF worker.phase = "ok" THEN "processed" ELSE "waiting"

FinishDarajaCallback ==
    /\ worker.phase \in {"ok", "error"}
    /\ callback' = [callback EXCEPT ![worker.payload] = ProcessedAt]
    /\ worker' = NoWork
    /\ UNCHANGED <<rows, tries, call, querier, prompt, deaths>>

\* The server dies, an attempt times out, or its outcome cannot be saved.
WorkerDies ==
    /\ worker # NoWork
    /\ deaths < MaxDeaths /\ deaths' = deaths + 1
    /\ worker' = NoWork
    /\ UNCHANGED <<rows, inbox, call, querier, prompt>>

-----------------------------------------------------------------------------
(* QueryPendingDaraja: asks the provider about one checkout at a time.     *)

OneQueryTooMany(k) == queries[k] <= MaxAttempts  \* a mutant
QueriesLeft(k) == queries[k] < MaxAttempts

ClaimDarajaQuery(k) ==
    /\ querier = NoQuery
    /\ status[k] = "pending" /\ checkout[k] # None
    /\ QueriesLeft(k)
    /\ recovery[k] \notin {"received_needs_receipt", "received_needs_review"}
    /\ queries' = [queries EXCEPT ![k] = queries[k] + 1]
    /\ querier' = [request |-> k, checkout |-> checkout[k], attempts |-> queries[k] + 1,
                   phase |-> "claimed", code |-> ""]
    /\ UNCHANGED <<status, recovery, checkout, receipts, inbox, call, worker, prompt, deaths>>

QueryAt(phase, code) ==
    querier' = [request |-> querier.request, checkout |-> querier.checkout,
                attempts |-> querier.attempts, phase |-> phase, code |-> code]

\* QuerySTK: unreachable, no verdict yet, or the prompt's final result.
QuerySTK ==
    /\ querier.phase = "claimed"
    /\ \/ QueryAt("answered", "unavailable")
       \/ QueryAt("answered", "other")
       \/ IsPaid(querier.checkout) /\ QueryAt("answered", "0")
       \/ /\ prompt[querier.checkout].outcomes = {"failed"}
          /\ QueryAt("answered", "failed")
    /\ UNCHANGED <<rows, inbox, call, worker, prompt, deaths>>

\* An attempt the provider could not answer is given back, unless the row moved.
DeferUnavailableDarajaQuery ==
    LET k == querier.request
    IN  /\ querier.phase = "answered" /\ querier.code = "unavailable"
        /\ queries' = IF /\ status[k] = "pending" /\ ~IsReceived(recovery[k])
                         /\ queries[k] = querier.attempts
                      THEN [queries EXCEPT ![k] = queries[k] - 1] ELSE queries
        /\ querier' = NoQuery
        /\ UNCHANGED <<status, recovery, checkout, receipts, inbox, call, worker, prompt, deaths>>

\* A final failure is first recorded in a transaction of its own; if that one
\* fails, the worker goes on.
QuerierMarksFailed ==
    /\ querier.phase = "answered" /\ querier.code = "failed"
    /\ \/ \E k \in RequestsOf(querier.checkout) : MarkDarajaSTKPaymentFailed(k)
       \/ UNCHANGED <<status, recovery>>
    /\ QueryAt("marked", "failed")
    /\ UNCHANGED <<checkout, queries, receipts, inbox, call, worker, prompt, deaths>>

QueryVerdict ==
    CASE querier.code = "0"                  -> "received_needs_receipt"
      [] querier.code = "failed"             -> "provider_failed"
      [] querier.code = "other" /\ querier.attempts >= MaxAttempts -> "needs_review"
      [] OTHER                               -> "awaiting_confirmation"

QuerierRecords ==
    /\ \/ querier.phase = "answered" /\ querier.code \in {"0", "other"}
       \/ querier.phase = "marked"
    /\ RecordDarajaQueryResult(querier.request, QueryVerdict)
    /\ querier' = NoQuery
    /\ UNCHANGED <<status, checkout, queries, receipts, inbox, call, worker, prompt, deaths>>

QuerierDies ==
    /\ querier # NoQuery
    /\ deaths < MaxDeaths /\ deaths' = deaths + 1
    /\ querier' = NoQuery
    /\ UNCHANGED <<rows, inbox, call, worker, prompt>>

-----------------------------------------------------------------------------
(* RecoverDarajaPayment: staff, who act on the provider's own records.     *)

\* restore_checkout: a checkout ID found in the log of a failed save.
RestoreDarajaCheckout(k, p) ==
    /\ prompt[p].request = k
    /\ status[k] = "pending" /\ checkout[k] = None
    /\ UpdateCheckoutID(k, p)
    /\ recovery' = [recovery EXCEPT ![k] = "awaiting_confirmation"]
    /\ queries' = [queries EXCEPT ![k] = 0]
    /\ RequeueDarajaCallbacks(p)
    /\ UNCHANGED <<status, receipts, callback, call, worker, querier, prompt, deaths>>

\* query: another round of callbacks and, while it is pending, of queries, if
\* the next one is not already near.
RescheduleDaraja(k) ==
    /\ status[k] # "absent"
    /\ RequeueDarajaCallbacks(checkout[k])
    /\ \/ status[k] = "pending" /\ queries' = [queries EXCEPT ![k] = 0]
       \/ UNCHANGED queries
    /\ UNCHANGED <<status, recovery, checkout, receipts, callback, call, worker, querier, prompt, deaths>>

\* reconcile: evidence of the payment enters as a callback of its own.
Reconcile(k, p) ==
    /\ prompt[p].request = k /\ "paid" \in prompt[p].outcomes
    /\ status[k] # "absent"
    /\ IF checkout[k] = None THEN UpdateCheckoutID(k, p) ELSE UNCHANGED checkout
    /\ InsertDarajaCallback([checkout |-> checkout'[k], kind |-> "verified"])
    /\ RequeueDarajaCallbacks(checkout'[k])
    /\ UNCHANGED <<status, recovery, queries, receipts, call, worker, querier, prompt, deaths>>

-----------------------------------------------------------------------------

ClientSteps ==
    \E c \in Clients :
        \/ \E k \in Requests :
              \/ InsertContributionPaymentRequest(c, k)
              \/ ClaimUnsentDarajaRequest(c, k)
        \/ PromptNotSent(c)
        \/ InitiateSTK(c)
        \/ SaveCheckout(c)
        \/ SaveNotSent(c)
        \/ SaveRejected(c)
        \/ CallDies(c)

ProviderSteps ==
    \E p \in Checkouts :
        \E outcome \in Outcomes :
            \/ MemberAnswers(p, outcome)
            \/ HandleSTKCallback(p, outcome)
            \/ HandleUnsignedCallback(p, outcome)

WorkerSteps ==
    \/ \E m \in Payloads : ClaimDarajaCallback(m)
    \/ WorkerProcesses
    \/ FinishDarajaCallback

QuerierSteps ==
    \/ \E k \in Requests : ClaimDarajaQuery(k)
    \/ QuerySTK
    \/ DeferUnavailableDarajaQuery
    \/ QuerierMarksFailed
    \/ QuerierRecords

StaffSteps ==
    \E k \in Requests :
        \/ \E p \in Checkouts : RestoreDarajaCheckout(k, p) \/ Reconcile(k, p)
        \/ RescheduleDaraja(k)

Next ==
    \/ ClientSteps
    \/ ProviderSteps
    \/ WorkerSteps
    \/ QuerierSteps
    \/ StaffSteps
    \/ WorkerDies
    \/ QuerierDies

Spec == Init /\ [][Next]_vars

\* The callback worker runs again and again until the server stops, and starts
\* again with it.
FairSpec == Spec /\ WF_vars(WorkerSteps)

-----------------------------------------------------------------------------
(* Correctness.                                                            *)

\* "An atomic claim allows only one retry to send a prompt.  An ambiguous STK
\* response never enables automatic resend": whatever is retried, lost or
\* killed, no request ever has two prompts on the member's phone.
PromptedAtMostOnce ==
    \A p, q \in Checkouts : prompt[p].request = prompt[q].request => p = q \/ prompt[p] = NoPrompt

\* A receipt stands for money: every receipt belongs to the request its prompt
\* was sent for, and the member paid the amount requested.
ReceiptsBackedByPayment ==
    \A r \in receipts :
        prompt[r.checkout].request = r.request /\ "paid" \in prompt[r.checkout].outcomes

\* The completion of a request and its receipt commit together, and no failure
\* that arrives late takes the completion back.
CompletedIffReceipt ==
    \A k \in Requests : status[k] = "completed" <=> \E r \in receipts : r.request = k

\* A callback that reports the expected payment leaves the queue only when its
\* receipt exists, whatever dies or is retried in between.
ProcessedMeansReceipt ==
    \A p \in Checkouts :
        callback[[checkout |-> p, kind |-> "paid"]] = "processed" =>
            \E r \in receipts : r.checkout = p

\* A receipt, the completion of its request and the end of its callback go
\* together.
ReceiptsAgree == CompletedIffReceipt /\ ProcessedMeansReceipt

\* "A network timeout cannot prove that Safaricom rejected the prompt": a
\* request is failed only on the provider's word, never while a prompt that
\* nobody answered may still be on the member's phone.
FailedOnProvidersWord ==
    \A k \in Requests, p \in Checkouts :
        status[k] = "failed" /\ prompt[p].request = k => "failed" \in prompt[p].outcomes

\* "A late query must not erase callback evidence": once a request is known to
\* be paid, no answer, timeout or failure that arrives later says otherwise.
EvidenceKept ==
    [][\A k \in Requests : IsReceived(recovery[k]) => IsReceived(recovery'[k])]_vars

\* An accepted payment becomes a receipt, if the worker outlives the attempts it
\* has left.  Over the route without a key, the request must know the checkout.
AcceptedPaymentCompletes ==
    \A p \in Checkouts :
        LET m == [checkout |-> p, kind |-> "paid"]
        IN  (/\ callback[m] = "waiting"
             /\ tries[m] + (MaxDeaths - deaths) < MaxAttempts
             /\ UnsignedRoute => RequestsOf(p) # {})
                ~> \E r \in receipts : r.checkout = p
=============================================================================
