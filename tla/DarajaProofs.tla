---------------------------- MODULE DarajaProofs ----------------------------
(***************************************************************************)
(* M-Pesa collections, for any number of requests, checkouts, calls in     *)
(* flight, attempts and deaths, with or without the route without a key.   *)
(***************************************************************************)
EXTENDS DarajaPayments, TLAPS

-----------------------------------------------------------------------------
(* The inductive invariant.                                                *)

\* A prompt for this request is, or was, on the member's phone.
Prompted(k) == \E p \in Checkouts : prompt[p].request = k

PromptsNamed == \A p \in Checkouts : prompt[p].request = None => prompt[p] = NoPrompt

InFlight(c) == call[c].phase # "idle"

\* A request is in the hands of one call at a time.  Until the provider has
\* taken the prompt, the request is pending and was never prompted.
CallsAlone ==
    /\ \A c \in Clients :
           InFlight(c) => call[c].request \in Requests /\ status[call[c].request] # "absent"
    /\ \A c, d \in Clients :
           InFlight(c) /\ InFlight(d) /\ call[c].request = call[d].request => c = d

CallsTruthful ==
    /\ \A c \in Clients :
           call[c].phase \in {"created", "not_sent", "rejected"} =>
               status[call[c].request] = "pending" /\ ~Prompted(call[c].request)
    /\ \A c \in Clients :
           call[c].phase = "accepted" =>
               call[c].checkout \in Checkouts /\ prompt[call[c].checkout].request = call[c].request

\* A stored checkout is that of the request's own prompt; a request that may be
\* sent again was never prompted and nobody is sending it.
CheckoutsTrue ==
    \A k \in Requests : checkout[k] # None => prompt[checkout[k]].request = k

RowsTruthful ==
    \A k \in Requests :
        /\ status[k] = "absent" => ~Prompted(k) /\ recovery[k] # "not_sent"
        /\ recovery[k] = "not_sent" =>
               ~Prompted(k) /\ \A c \in Clients : InFlight(c) => call[c].request # k
        /\ IsReceived(recovery[k]) => checkout[k] # None

\* A stored callback repeats what the provider said of the checkout.
Said(m) == prompt[m.checkout].outcomes \cap
               (IF m.kind = "verified" THEN {"paid"} ELSE {m.kind}) # {}
CallbacksTrue == \A m \in Payloads : callback[m] # "absent" => Said(m)

\* The worker holds a stored callback, and reports success on an expected
\* payment only when its receipt exists.
WorkerTruthful ==
    worker # NoWork =>
        /\ callback[worker.payload] # "absent"
        /\ worker.phase = "ok" /\ worker.payload.kind = "paid" =>
               \E r \in receipts : r.checkout = worker.payload.checkout

\* The query worker holds the checkout its request still has.
QuerierTruthful ==
    querier # NoQuery =>
        /\ checkout[querier.request] = querier.checkout
        /\ querier.attempts \in 1 .. MaxAttempts
        /\ querier.code = "failed" => "failed" \in prompt[querier.checkout].outcomes

DarajaInv ==
    /\ TypeOK
    /\ PromptedAtMostOnce /\ PromptsNamed
    /\ CallsAlone /\ CallsTruthful
    /\ CheckoutsTrue /\ RowsTruthful
    /\ CallbacksTrue /\ WorkerTruthful /\ QuerierTruthful
    /\ ReceiptsBackedByPayment /\ CompletedIffReceipt /\ ProcessedMeansReceipt
    /\ FailedOnProvidersWord

LEMMA InitDarajaInv == Init => DarajaInv
<1> SUFFICES ASSUME Init PROVE DarajaInv
  OBVIOUS
<1> USE DarajaConstants DEF Init
<1>1. TypeOK
  BY DEF TypeOK, Statuses, Recoveries, Call, Idle, Work, Query, Prompt, NoPrompt
<1>2. PromptedAtMostOnce /\ PromptsNamed
  BY DEF PromptedAtMostOnce, PromptsNamed
<1>3. \A k \in Requests : ~Prompted(k)
  BY DEF Prompted, NoPrompt
<1>4. CallsAlone /\ CallsTruthful
  BY DEF CallsAlone, CallsTruthful, InFlight, Idle
<1>5. CheckoutsTrue /\ RowsTruthful
  BY <1>3 DEF CheckoutsTrue, RowsTruthful, IsReceived
<1>6. CallbacksTrue /\ WorkerTruthful /\ QuerierTruthful
  BY DEF CallbacksTrue, WorkerTruthful, QuerierTruthful
<1>7. ReceiptsBackedByPayment /\ CompletedIffReceipt /\ ProcessedMeansReceipt
  BY DEF ReceiptsBackedByPayment, CompletedIffReceipt, ProcessedMeansReceipt, Payloads
<1>8. FailedOnProvidersWord
  BY DEF FailedOnProvidersWord
<1>9. QED
  BY <1>1, <1>2, <1>4, <1>5, <1>6, <1>7, <1>8 DEF DarajaInv

-----------------------------------------------------------------------------
(* Facts every step uses.                                                  *)

\* What a step leaves alone, it cannot disturb.
LEMMA Frame ==
    ASSUME DarajaInv
    PROVE  /\ UNCHANGED prompt => PromptedAtMostOnce' /\ PromptsNamed'
           /\ UNCHANGED prompt => \A k : Prompted(k)' <=> Prompted(k)
           /\ UNCHANGED <<call, status, prompt>> => CallsAlone' /\ CallsTruthful'
           /\ UNCHANGED <<checkout, prompt>> => CheckoutsTrue'
           /\ UNCHANGED <<status, recovery, checkout, call, prompt>> => RowsTruthful'
           /\ UNCHANGED <<callback, prompt>> => CallbacksTrue'
           /\ UNCHANGED <<callback, worker, receipts>> => WorkerTruthful'
           /\ UNCHANGED <<checkout, querier, prompt>> => QuerierTruthful'
           /\ UNCHANGED <<receipts, prompt>> => ReceiptsBackedByPayment'
           /\ UNCHANGED <<receipts, status>> => CompletedIffReceipt'
           /\ UNCHANGED <<receipts, callback>> => ProcessedMeansReceipt'
           /\ UNCHANGED <<status, prompt>> => FailedOnProvidersWord'
<1> USE DEF DarajaInv
<1>1. UNCHANGED prompt => PromptedAtMostOnce' /\ PromptsNamed'
  BY DEF PromptedAtMostOnce, PromptsNamed
<1>2. UNCHANGED prompt => \A k : Prompted(k)' <=> Prompted(k)
  BY DEF Prompted
<1>3. UNCHANGED <<call, status, prompt>> => CallsAlone' /\ CallsTruthful'
  BY DEF CallsAlone, CallsTruthful, InFlight, Prompted
<1>4. UNCHANGED <<checkout, prompt>> => CheckoutsTrue'
  BY DEF CheckoutsTrue
<1>5. UNCHANGED <<status, recovery, checkout, call, prompt>> => RowsTruthful'
  BY DEF RowsTruthful, InFlight, Prompted
<1>6. UNCHANGED <<callback, prompt>> => CallbacksTrue'
  BY DEF CallbacksTrue, Said
<1>7. UNCHANGED <<callback, worker, receipts>> => WorkerTruthful'
  BY DEF WorkerTruthful
<1>8. UNCHANGED <<checkout, querier, prompt>> => QuerierTruthful'
  BY DEF QuerierTruthful
<1>9. UNCHANGED <<receipts, prompt>> => ReceiptsBackedByPayment'
  BY DEF ReceiptsBackedByPayment
<1>10. UNCHANGED <<receipts, status>> => CompletedIffReceipt'
  BY DEF CompletedIffReceipt
<1>11. UNCHANGED <<receipts, callback>> => ProcessedMeansReceipt'
  BY DEF ProcessedMeansReceipt
<1>12. UNCHANGED <<status, prompt>> => FailedOnProvidersWord'
  BY DEF FailedOnProvidersWord
<1>13. QED
  BY <1>1, <1>2, <1>3, <1>4, <1>5, <1>6, <1>7, <1>8, <1>9, <1>10, <1>11, <1>12

\* A request has one prompt, so any two checkouts known for it are the same.
LEMMA OneCheckout ==
    ASSUME DarajaInv, NEW k \in Requests
    PROVE  /\ checkout[k] # None => checkout[k] \in Checkouts /\ prompt[checkout[k]].request = k
           /\ \A p, q \in Checkouts :
                  prompt[p].request = k /\ prompt[q].request = k => p = q
           /\ \A p \in Checkouts :
                  prompt[p].request = k => Prompted(k) /\ checkout[k] \in {None, p}
<1>1. checkout[k] # None => checkout[k] \in Checkouts /\ prompt[checkout[k]].request = k
  BY DEF DarajaInv, TypeOK, CheckoutsTrue
<1>2. \A p, q \in Checkouts : prompt[p].request = k /\ prompt[q].request = k => p = q
  BY DarajaConstants DEF DarajaInv, PromptedAtMostOnce, NoPrompt
<1>3. QED
  BY <1>1, <1>2 DEF Prompted

\* What the worker and the querier hold.
LEMMA Held ==
    ASSUME TypeOK
    PROVE  /\ worker # NoWork =>
                  /\ worker.payload \in Payloads /\ worker.phase \in {"claimed", "ok", "error"}
           /\ worker.phase \in {"claimed", "ok", "error"} => worker # NoWork
           /\ querier # NoQuery =>
                  querier \in [request : Requests, checkout : Checkouts, attempts : Nat,
                               phase : {"claimed", "answered", "marked"},
                               code : {"", "0", "failed", "other", "unavailable"}]
           /\ querier.phase \in {"claimed", "answered", "marked"} => querier # NoQuery
           /\ \A m \in Payloads : m.checkout \in Checkouts
           /\ \A p \in Checkouts : prompt[p].outcomes \subseteq Outcomes
           /\ \A p \in Checkouts : prompt[p].request \in Requests \cup {None}
<1>1. /\ worker # NoWork =>
             /\ worker.payload \in Payloads /\ worker.phase \in {"claimed", "ok", "error"}
      /\ worker.phase \in {"claimed", "ok", "error"} => worker # NoWork
  BY DEF TypeOK, Work, NoWork
<1>2. /\ querier # NoQuery =>
             querier \in [request : Requests, checkout : Checkouts, attempts : Nat,
                          phase : {"claimed", "answered", "marked"},
                          code : {"", "0", "failed", "other", "unavailable"}]
      /\ querier.phase \in {"claimed", "answered", "marked"} => querier # NoQuery
  <2>1. NoQuery.phase = "idle"
    BY DEF NoQuery
  <2>2. QED
    BY <2>1 DEF TypeOK, Query
<1>3. \A m \in Payloads : m.checkout \in Checkouts
  BY DEF Payloads
<1>4. \A p \in Checkouts :
          prompt[p].outcomes \subseteq Outcomes /\ prompt[p].request \in Requests \cup {None}
  BY DEF TypeOK, Prompt
<1>5. QED
  BY <1>1, <1>2, <1>3, <1>4

-----------------------------------------------------------------------------
(* InitiateDarajaSTKPayment.                                               *)

\* A call that takes a request nobody holds, and whose prompt was never sent.
LEMMA CallBegins ==
    ASSUME DarajaInv, NEW c \in Clients, NEW k \in Requests,
           ~Prompted(k), \A d \in Clients : InFlight(d) => call[d].request # k,
           CallAt(c, k, "created", None), UNCHANGED prompt,
           status' = [status EXCEPT ![k] = "pending"]
    PROVE  CallsAlone' /\ CallsTruthful'
<1>1. \A d \in Clients :
          call'[d] = IF d = c THEN [request |-> k, phase |-> "created", checkout |-> None]
                     ELSE call[d]
  BY DEF CallAt, DarajaInv, TypeOK
<1>2. \A j \in Requests : status'[j] = IF j = k THEN "pending" ELSE status[j]
  BY DEF DarajaInv, TypeOK
<1>3. CallsAlone'
  BY <1>1, <1>2 DEF CallsAlone, InFlight, DarajaInv
<1>4. \A j : Prompted(j)' <=> Prompted(j)
  BY Frame
<1>5. CallsTruthful'
  BY <1>1, <1>2, <1>4 DEF CallsTruthful, CallsAlone, InFlight, DarajaInv
<1>6. QED
  BY <1>3, <1>5

\* A call that is over, whatever it wrote on its own request.
LEMMA CallEnds ==
    ASSUME DarajaInv, NEW c \in Clients, InFlight(c),
           call' = [call EXCEPT ![c] = Idle], UNCHANGED prompt,
           \A k \in Requests : k # call[c].request => status'[k] = status[k]
    PROVE  CallsAlone' /\ CallsTruthful'
<1>1. \A d \in Clients : call'[d] = IF d = c THEN Idle ELSE call[d]
  BY DEF DarajaInv, TypeOK
<1>2. Idle.phase = "idle"
  BY DEF Idle
<1>3. \A d \in Clients : InFlight(d)' => d # c /\ InFlight(d) /\ call'[d] = call[d]
  BY <1>1, <1>2 DEF InFlight
<1>4. \A d \in Clients \ {c} :
          InFlight(d) => /\ call[d].request \in Requests
                         /\ status'[call[d].request] = status[call[d].request]
  BY DEF CallsAlone, DarajaInv
<1>5. CallsAlone'
  BY <1>3, <1>4 DEF CallsAlone, DarajaInv
<1>6. \A j : Prompted(j)' <=> Prompted(j)
  BY Frame
<1>7. CallsTruthful'
  BY <1>1, <1>2, <1>4, <1>6 DEF CallsTruthful, InFlight, DarajaInv
<1>8. QED
  BY <1>5, <1>7

LEMMA InsertKeeps ==
    ASSUME DarajaInv, NEW c \in Clients, NEW k \in Requests,
           InsertContributionPaymentRequest(c, k)
    PROVE  DarajaInv'
<1>1. /\ UNCHANGED <<recovery, checkout, queries, receipts, callback, tries, worker, querier,
                     prompt, deaths>>
      /\ status[k] = "absent" /\ status' = [status EXCEPT ![k] = "pending"]
      /\ CallAt(c, k, "created", None)
  BY DEF InsertContributionPaymentRequest, inbox
<1>2. TypeOK'
  BY <1>1 DEF DarajaInv, TypeOK, Statuses, Call, CallAt
<1>3. ~Prompted(k) /\ \A d \in Clients : InFlight(d) => call[d].request # k
  BY <1>1 DEF DarajaInv, RowsTruthful, CallsAlone
<1>4. CallsAlone' /\ CallsTruthful'
  BY <1>1, <1>3, CallBegins
<1>5. \A j \in Requests : status'[j] = IF j = k THEN "pending" ELSE status[j]
  BY <1>1 DEF DarajaInv, TypeOK
<1>6. RowsTruthful'
  <2>1. \A d \in Clients : InFlight(d)' => (InFlight(d) /\ call'[d] = call[d]) \/ call'[d].request = k
    BY <1>1 DEF CallAt, InFlight, DarajaInv, TypeOK
  <2>2. recovery[k] # "not_sent"
    BY <1>1 DEF RowsTruthful, DarajaInv
  <2>3. QED
    BY <1>1, <1>5, <2>1, <2>2, Frame DEF RowsTruthful, DarajaInv
<1>7. CompletedIffReceipt'
  BY <1>1, <1>5 DEF CompletedIffReceipt, DarajaInv
<1>8. FailedOnProvidersWord'
  BY <1>1, <1>5 DEF FailedOnProvidersWord, DarajaInv
<1>9. QED
  BY <1>1, <1>2, <1>4, <1>6, <1>7, <1>8, Frame DEF DarajaInv

LEMMA ClaimUnsentKeeps ==
    ASSUME DarajaInv, NEW c \in Clients, NEW k \in Requests, ClaimUnsentDarajaRequest(c, k)
    PROVE  DarajaInv'
<1>1. /\ UNCHANGED <<status, checkout, queries, receipts, callback, tries, worker, querier,
                     prompt, deaths>>
      /\ status[k] = "pending" /\ recovery[k] = "not_sent"
      /\ recovery' = [recovery EXCEPT ![k] = "awaiting_confirmation"]
      /\ CallAt(c, k, "created", None)
  BY DEF ClaimUnsentDarajaRequest, MayResend, inbox
<1>2. TypeOK'
  BY <1>1 DEF DarajaInv, TypeOK, Recoveries, Call, CallAt
<1>3. ~Prompted(k) /\ \A d \in Clients : InFlight(d) => call[d].request # k
  BY <1>1 DEF DarajaInv, RowsTruthful
<1>4. status' = [status EXCEPT ![k] = "pending"]
  BY <1>1 DEF DarajaInv, TypeOK
<1>5. CallsAlone' /\ CallsTruthful'
  BY <1>1, <1>3, <1>4, CallBegins
<1>6. RowsTruthful'
  <2>1. \A d \in Clients : InFlight(d)' => (InFlight(d) /\ call'[d] = call[d]) \/ call'[d].request = k
    BY <1>1 DEF CallAt, InFlight, DarajaInv, TypeOK
  <2>2. \A j \in Requests :
            recovery'[j] = IF j = k THEN "awaiting_confirmation" ELSE recovery[j]
    BY <1>1 DEF DarajaInv, TypeOK
  <2>3. QED
    BY <1>1, <2>1, <2>2, Frame DEF RowsTruthful, IsReceived, DarajaInv
<1>7. QED
  BY <1>1, <1>2, <1>5, <1>6, Frame DEF DarajaInv

\* InitiateSTK came back without a prompt: not sent, or refused.
LEMMA NotPromptedKeeps ==
    ASSUME DarajaInv, NEW c \in Clients, NEW phase \in {"not_sent", "rejected"},
           call[c].phase = "created", CallAt(c, call[c].request, phase, None),
           UNCHANGED <<rows, inbox, worker, querier, prompt, deaths>>
    PROVE  DarajaInv'
<1> USE DEF rows, inbox
<1>1. TypeOK'
  BY DEF DarajaInv, TypeOK, Call, CallAt
<1>2. \A d \in Clients :
          call'[d] = IF d = c THEN [request |-> call[c].request, phase |-> phase, checkout |-> None]
                     ELSE call[d]
  BY DEF CallAt, DarajaInv, TypeOK
<1>3. \A d \in Clients : /\ InFlight(d)' <=> InFlight(d)
                         /\ call'[d].request = call[d].request
  BY <1>2 DEF InFlight
<1>4. CallsAlone'
  BY <1>3 DEF CallsAlone, DarajaInv
<1>5. CallsTruthful'
  BY <1>2, Frame DEF CallsTruthful, DarajaInv
<1>6. RowsTruthful'
  BY <1>3, Frame DEF RowsTruthful, DarajaInv
<1>7. QED
  BY <1>1, <1>4, <1>5, <1>6, Frame DEF DarajaInv

\* A call that is over and wrote nothing: its answer was lost, or it died.
LEMMA CallLostKeeps ==
    ASSUME DarajaInv, NEW c \in Clients, InFlight(c), call' = [call EXCEPT ![c] = Idle],
           deaths' \in 0 .. MaxDeaths, UNCHANGED <<rows, inbox, worker, querier, prompt>>
    PROVE  DarajaInv'
<1> USE DEF rows, inbox
<1>1. TypeOK'
  BY DEF DarajaInv, TypeOK, Call, Idle
<1>2. CallsAlone' /\ CallsTruthful'
  BY CallEnds
<1>3. \A d \in Clients : InFlight(d)' => InFlight(d) /\ call'[d] = call[d]
  BY DEF InFlight, Idle, DarajaInv, TypeOK
<1>4. RowsTruthful'
  BY <1>3, Frame DEF RowsTruthful, DarajaInv
<1>5. QED
  BY <1>1, <1>2, <1>4, Frame DEF DarajaInv

\* The provider prompts the member; the call knows the checkout, or is over.
LEMMA PromptedKeeps ==
    ASSUME DarajaInv, NEW c \in Clients, NEW p \in Checkouts,
           call[c].phase = "created", prompt[p] = NoPrompt,
           prompt' = [prompt EXCEPT ![p] = [request |-> call[c].request, outcomes |-> {}]],
           CallAt(c, call[c].request, "accepted", p) \/ AnswerLost(c),
           UNCHANGED <<rows, inbox, worker, querier, deaths>>
    PROVE  DarajaInv'
<1> DEFINE k == call[c].request
<1> USE DEF rows, inbox
<1>1. /\ k \in Requests /\ InFlight(c) /\ status[k] = "pending" /\ ~Prompted(k)
      /\ \A d \in Clients : InFlight(d) /\ call[d].request = k => d = c
  BY DEF DarajaInv, CallsAlone, CallsTruthful, InFlight
<1>2. \A q \in Checkouts :
          prompt'[q] = IF q = p THEN [request |-> k, outcomes |-> {}] ELSE prompt[q]
  BY DEF DarajaInv, TypeOK
<1>3. \A d \in Clients \ {c} : call'[d] = call[d]
  BY DEF CallAt, AnswerLost, DarajaInv, TypeOK
<1>4. \/ call'[c] = [request |-> k, phase |-> "accepted", checkout |-> p]
      \/ call'[c].phase = "idle"
  BY DEF CallAt, AnswerLost, Idle, DarajaInv, TypeOK
<1>5. \A d \in Clients : InFlight(d)' => InFlight(d) /\ call'[d].request = call[d].request
  BY <1>1, <1>3, <1>4 DEF InFlight
<1>6. prompt[p].request = None /\ prompt[p].outcomes = {}
  BY DEF NoPrompt
<1>7. \A j \in Requests : Prompted(j)' <=> j = k \/ Prompted(j)
  BY <1>1, <1>2, <1>6, DarajaConstants DEF Prompted
<1>8. TypeOK'
  <2>1. prompt' \in [Checkouts -> Prompt]
    <3>1. [request |-> k, outcomes |-> {}] \in Prompt
      BY <1>1 DEF Prompt
    <3>2. QED
      BY <3>1 DEF DarajaInv, TypeOK
  <2>2. call' \in [Clients -> Call]
    BY <1>1 DEF CallAt, AnswerLost, Call, Idle, DarajaInv, TypeOK
  <2>3. QED
    BY <2>1, <2>2 DEF DarajaInv, TypeOK
<1>9. PromptedAtMostOnce'
  <2>1. \A q \in Checkouts \ {p} : prompt[q].request # k
    BY <1>1 DEF Prompted
  <2>2. QED
    BY <1>2, <2>1 DEF PromptedAtMostOnce, DarajaInv
<1>10. PromptsNamed'
  BY <1>1, <1>2, DarajaConstants DEF PromptsNamed, DarajaInv
<1>11. CallsAlone'
  BY <1>5 DEF CallsAlone, DarajaInv
<1>12. CallsTruthful'
  <2>1. ASSUME NEW d \in Clients, call'[d].phase \in {"created", "not_sent", "rejected"}
        PROVE  (status[call[d].request] = "pending" /\ ~Prompted(call[d].request))'
    <3>1. d # c
      BY <1>4, <2>1
    <3>2. InFlight(d) /\ call'[d] = call[d] /\ call[d].request \in Requests /\ call[d].request # k
      BY <1>1, <1>3, <2>1, <3>1 DEF InFlight, CallsAlone, DarajaInv
    <3>3. ~Prompted(call[d].request) /\ status[call[d].request] = "pending"
      BY <2>1, <3>2 DEF CallsTruthful, DarajaInv
    <3>4. QED
      BY <1>7, <3>2, <3>3
  <2>2. ASSUME NEW d \in Clients, call'[d].phase = "accepted"
        PROVE  call'[d].checkout \in Checkouts
               /\ prompt'[call'[d].checkout].request = call'[d].request
    <3>1. CASE d = c
      BY <1>2, <1>4, <2>2, <3>1
    <3>2. CASE d # c
      <4>1. call'[d] = call[d] /\ call[d].request \in Requests
        BY <1>3, <2>2, <3>2 DEF CallsAlone, InFlight, DarajaInv
      <4>2. QED
        BY <1>2, <1>6, <2>2, <4>1, DarajaConstants DEF CallsTruthful, DarajaInv
    <3>3. QED
      BY <3>1, <3>2
  <2>3. QED
    BY <2>1, <2>2 DEF CallsTruthful
<1>13. CheckoutsTrue'
  BY <1>2, <1>6, DarajaConstants DEF CheckoutsTrue, TypeOK, DarajaInv
<1>14. RowsTruthful'
  BY <1>1, <1>5, <1>7 DEF RowsTruthful, DarajaInv
<1>15. CallbacksTrue'
  BY <1>2, <1>6 DEF CallbacksTrue, Said, DarajaInv
<1>16. QuerierTruthful'
  BY <1>2, <1>6 DEF QuerierTruthful, DarajaInv
<1>17. ReceiptsBackedByPayment'
  BY <1>2, <1>6 DEF ReceiptsBackedByPayment, TypeOK, DarajaInv
<1>18. FailedOnProvidersWord'
  BY <1>1, <1>2 DEF FailedOnProvidersWord, DarajaInv
<1>19. QED
  BY <1>8, <1>9, <1>10, <1>11, <1>12, <1>13, <1>14, <1>15, <1>16, <1>17, <1>18, Frame
  DEF DarajaInv

LEMMA SaveCheckoutKeeps ==
    ASSUME DarajaInv, NEW c \in Clients, SaveCheckout(c)
    PROVE  DarajaInv'
<1> DEFINE k == call[c].request
           p == call[c].checkout
<1>1. /\ UNCHANGED <<status, recovery, queries, receipts, callback, tries, worker, querier,
                     prompt, deaths>>
      /\ call[c].phase = "accepted" /\ call' = [call EXCEPT ![c] = Idle]
      /\ checkout' = [checkout EXCEPT ![k] = p]
  BY DEF SaveCheckout, UpdateCheckoutID, inbox
<1>2. InFlight(c) /\ k \in Requests /\ p \in Checkouts /\ prompt[p].request = k
  BY <1>1 DEF InFlight, CallsAlone, CallsTruthful, DarajaInv
<1>3. TypeOK'
  BY <1>1, <1>2 DEF DarajaInv, TypeOK, Call, Idle
<1>4. CallsAlone' /\ CallsTruthful'
  BY <1>1, <1>2, CallEnds
<1>5. \A j \in Requests : checkout'[j] = IF j = k THEN p ELSE checkout[j]
  BY <1>1 DEF DarajaInv, TypeOK
<1>6. CheckoutsTrue'
  BY <1>1, <1>2, <1>5 DEF CheckoutsTrue, DarajaInv
<1>7. RowsTruthful'
  <2>1. \A d \in Clients : InFlight(d)' => InFlight(d) /\ call'[d] = call[d]
    BY <1>1 DEF InFlight, Idle, DarajaInv, TypeOK
  <2>2. QED
    BY <1>1, <1>2, <1>5, <2>1, Frame, DarajaConstants DEF RowsTruthful, DarajaInv
<1>8. QuerierTruthful'
  <2>1. checkout[k] \in {None, p}
    BY <1>2, OneCheckout
  <2>2. querier # NoQuery => querier.request \in Requests /\ querier.checkout \in Checkouts
    BY Held DEF DarajaInv
  <2>3. QED
    BY <1>1, <1>5, <2>1, <2>2, DarajaConstants DEF QuerierTruthful, DarajaInv
<1>9. QED
  BY <1>1, <1>3, <1>4, <1>6, <1>7, <1>8, Frame DEF DarajaInv

LEMMA SaveNotSentKeeps ==
    ASSUME DarajaInv, NEW c \in Clients, SaveNotSent(c)
    PROVE  DarajaInv'
<1> DEFINE k == call[c].request
<1>1. /\ UNCHANGED <<status, checkout, queries, receipts, callback, tries, worker, querier,
                     prompt, deaths>>
      /\ call[c].phase = "not_sent" /\ call' = [call EXCEPT ![c] = Idle]
      /\ recovery' = recovery \/ recovery' = [recovery EXCEPT ![k] = "not_sent"]
  BY DEF SaveNotSent, RecordDarajaQueryResult, inbox
<1>2. /\ InFlight(c) /\ k \in Requests /\ ~Prompted(k) /\ status[k] # "absent"
      /\ \A d \in Clients : InFlight(d) /\ call[d].request = k => d = c
  BY <1>1 DEF InFlight, CallsAlone, CallsTruthful, DarajaInv
<1>3. TypeOK'
  BY <1>1, <1>2 DEF DarajaInv, TypeOK, Call, Idle, Recoveries
<1>4. CallsAlone' /\ CallsTruthful'
  BY <1>1, <1>2, CallEnds
<1>5. RowsTruthful'
  <2>1. \A d \in Clients : InFlight(d)' => d # c /\ InFlight(d) /\ call'[d] = call[d]
    BY <1>1 DEF InFlight, Idle, DarajaInv, TypeOK
  <2>2. \A j \in Requests : recovery'[j] = recovery[j] \/ (j = k /\ recovery'[j] = "not_sent")
    BY <1>1, <1>2 DEF DarajaInv, TypeOK
  <2>3. QED
    BY <1>1, <1>2, <2>1, <2>2, Frame DEF RowsTruthful, IsReceived, DarajaInv
<1>6. QED
  BY <1>1, <1>3, <1>4, <1>5, Frame DEF DarajaInv

LEMMA SaveRejectedKeeps ==
    ASSUME DarajaInv, NEW c \in Clients, SaveRejected(c)
    PROVE  DarajaInv'
<1> DEFINE k == call[c].request
<1>1. /\ UNCHANGED <<checkout, queries, receipts, callback, tries, worker, querier,
                     prompt, deaths>>
      /\ call[c].phase = "rejected" /\ call' = [call EXCEPT ![c] = Idle]
      /\ status' = [status EXCEPT ![k] = "failed"]
      /\ recovery' = [recovery EXCEPT ![k] = "provider_failed"]
  BY DEF SaveRejected, UpdateFailed, inbox
<1>2. InFlight(c) /\ k \in Requests /\ ~Prompted(k) /\ status[k] = "pending"
  BY <1>1 DEF InFlight, CallsAlone, CallsTruthful, DarajaInv
<1>3. TypeOK'
  BY <1>1, <1>2 DEF DarajaInv, TypeOK, Call, Idle, Statuses, Recoveries
<1>4. /\ \A j \in Requests : status'[j] = IF j = k THEN "failed" ELSE status[j]
      /\ \A j \in Requests : recovery'[j] = IF j = k THEN "provider_failed" ELSE recovery[j]
  BY <1>1 DEF DarajaInv, TypeOK
<1>5. CallsAlone' /\ CallsTruthful'
  BY <1>1, <1>2, <1>4, CallEnds
<1>6. RowsTruthful'
  <2>1. \A d \in Clients : InFlight(d)' => InFlight(d) /\ call'[d] = call[d]
    BY <1>1 DEF InFlight, Idle, DarajaInv, TypeOK
  <2>2. QED
    BY <1>1, <1>2, <1>4, <2>1, Frame DEF RowsTruthful, IsReceived, DarajaInv
<1>7. CompletedIffReceipt'
  BY <1>1, <1>2, <1>4 DEF CompletedIffReceipt, DarajaInv
<1>8. FailedOnProvidersWord'
  BY <1>1, <1>2, <1>4 DEF FailedOnProvidersWord, Prompted, DarajaInv
<1>9. QED
  BY <1>1, <1>3, <1>5, <1>6, <1>7, <1>8, Frame DEF DarajaInv

LEMMA ClientStepsKeep == DarajaInv /\ ClientSteps => DarajaInv'
<1> SUFFICES ASSUME DarajaInv, NEW c \in Clients,
                    \/ \E k \in Requests :
                          \/ InsertContributionPaymentRequest(c, k)
                          \/ ClaimUnsentDarajaRequest(c, k)
                    \/ PromptNotSent(c) \/ InitiateSTK(c) \/ SaveCheckout(c)
                    \/ SaveNotSent(c) \/ SaveRejected(c) \/ CallDies(c)
             PROVE  DarajaInv'
  BY DEF ClientSteps
<1>1. ASSUME NEW k \in Requests,
             InsertContributionPaymentRequest(c, k) \/ ClaimUnsentDarajaRequest(c, k)
      PROVE  DarajaInv'
  BY <1>1, InsertKeeps, ClaimUnsentKeeps
<1>2. CASE PromptNotSent(c)
  BY <1>2, NotPromptedKeeps DEF PromptNotSent
<1>3. CASE InitiateSTK(c)
  <2>1. call[c].phase = "created" /\ UNCHANGED <<rows, inbox, worker, querier, deaths>>
    BY <1>3 DEF InitiateSTK
  <2>2. CASE CallAt(c, call[c].request, "rejected", None) /\ UNCHANGED prompt
    BY <2>1, <2>2, NotPromptedKeeps
  <2>3. CASE AnswerLost(c) /\ UNCHANGED prompt
    BY <2>1, <2>3, CallLostKeeps DEF AnswerLost, InFlight, DarajaInv, TypeOK
  <2>4. CASE \E p \in Checkouts :
                 /\ prompt[p] = NoPrompt
                 /\ prompt' = [prompt EXCEPT ![p] = [request |-> call[c].request, outcomes |-> {}]]
                 /\ (CallAt(c, call[c].request, "accepted", p) \/ AnswerLost(c))
    BY <2>1, <2>4, PromptedKeeps
  <2>5. QED
    BY <1>3, <2>2, <2>3, <2>4 DEF InitiateSTK
<1>4. CASE CallDies(c)
  <2>1. deaths' \in 0 .. MaxDeaths
    BY <1>4, DarajaConstants DEF CallDies, DarajaInv, TypeOK
  <2>2. QED
    BY <1>4, <2>1, CallLostKeeps DEF CallDies, InFlight
<1>5. QED
  BY <1>1, <1>2, <1>3, <1>4, SaveCheckoutKeeps, SaveNotSentKeeps, SaveRejectedKeeps

-----------------------------------------------------------------------------
(* The member's phone, and callbacks on their way.                         *)

LEMMA MemberAnswersKeeps ==
    ASSUME DarajaInv, NEW p \in Checkouts, NEW outcome \in Outcomes, MemberAnswers(p, outcome)
    PROVE  DarajaInv'
<1>1. /\ UNCHANGED <<status, recovery, checkout, queries, receipts, callback, tries, call,
                     worker, querier, deaths>>
      /\ prompt[p] # NoPrompt
      /\ prompt' = [prompt EXCEPT ![p] = [request  |-> prompt[p].request,
                                          outcomes |-> prompt[p].outcomes \cup {outcome}]]
  BY DEF MemberAnswers, rows, inbox
<1>2. \A q \in Checkouts :
          prompt'[q] = IF q = p THEN [request  |-> prompt[p].request,
                                      outcomes |-> prompt[p].outcomes \cup {outcome}]
                       ELSE prompt[q]
  BY <1>1 DEF DarajaInv, TypeOK
<1>3. \A q \in Checkouts : /\ prompt'[q].request = prompt[q].request
                           /\ prompt[q].outcomes \subseteq prompt'[q].outcomes
  BY <1>2
<1>4. TypeOK'
  <2>1. [request |-> prompt[p].request, outcomes |-> prompt[p].outcomes \cup {outcome}] \in Prompt
    BY DEF DarajaInv, TypeOK, Prompt
  <2>2. QED
    BY <1>1, <2>1 DEF DarajaInv, TypeOK
<1>6. PromptedAtMostOnce' /\ PromptsNamed'
  <2>1. \A q \in Checkouts : prompt[q] = NoPrompt => prompt'[q] = NoPrompt
    BY <1>1, <1>2
  <2>2. QED
    BY <1>3, <2>1 DEF PromptedAtMostOnce, PromptsNamed, DarajaInv
<1>7. \A k : Prompted(k)' <=> Prompted(k)
  BY <1>3 DEF Prompted
<1>8. CallsAlone' /\ CallsTruthful'
  BY <1>1, <1>3, <1>7 DEF CallsAlone, CallsTruthful, InFlight, DarajaInv
<1>9. CheckoutsTrue'
  BY <1>1, <1>3 DEF CheckoutsTrue, TypeOK, DarajaInv
<1>10. RowsTruthful'
  BY <1>1, <1>7 DEF RowsTruthful, InFlight, DarajaInv
<1>11. CallbacksTrue'
  <2>1. \A m \in Payloads : m.checkout \in Checkouts
    BY DEF Payloads
  <2>2. QED
    BY <1>1, <1>3, <2>1 DEF CallbacksTrue, Said, DarajaInv
<1>12. QuerierTruthful'
  BY <1>1, <1>3, Held DEF QuerierTruthful, DarajaInv
<1>13. ReceiptsBackedByPayment'
  BY <1>1, <1>3 DEF ReceiptsBackedByPayment, TypeOK, DarajaInv
<1>14. FailedOnProvidersWord'
  BY <1>1, <1>3 DEF FailedOnProvidersWord, DarajaInv
<1>15. QED
  BY <1>1, <1>4, <1>6, <1>8, <1>9, <1>10, <1>11, <1>12, <1>13, <1>14, Frame DEF DarajaInv

\* A true callback is stored once and for all, and the request learns, if it
\* did not know, the checkout of its own prompt.
LEMMA CallbackStored ==
    ASSUME DarajaInv, NEW k \in Requests, NEW p \in Checkouts, prompt[p].request = k,
           checkout' = [checkout EXCEPT ![k] = p] \/ checkout' = checkout,
           NEW m \in Payloads, Said(m),
           InsertDarajaCallback(m) \/ callback' = callback, TypeOK',
           UNCHANGED <<status, receipts, call, worker, querier, prompt>>,
           recovery' = [recovery EXCEPT ![k] = "awaiting_confirmation"] \/ recovery' = recovery
    PROVE  DarajaInv'
<1>1. /\ \A j \in Requests : checkout'[j] = checkout[j] \/ (j = k /\ checkout'[j] = p)
      /\ \A n \in Payloads :
             \/ callback'[n] = callback[n]
             \/ n = m /\ callback[n] = "absent" /\ callback'[n] = "waiting"
      /\ \A j \in Requests :
             recovery'[j] = recovery[j] \/ (j = k /\ recovery'[j] = "awaiting_confirmation")
  <2>1. \A j \in Requests : checkout'[j] = checkout[j] \/ (j = k /\ checkout'[j] = p)
    BY DEF DarajaInv, TypeOK
  <2>2. \A n \in Payloads :
            \/ callback'[n] = callback[n]
            \/ n = m /\ callback[n] = "absent" /\ callback'[n] = "waiting"
    BY DEF DarajaInv, TypeOK, InsertDarajaCallback
  <2>3. \A j \in Requests :
            recovery'[j] = recovery[j] \/ (j = k /\ recovery'[j] = "awaiting_confirmation")
    BY DEF DarajaInv, TypeOK
  <2>4. QED
    BY <2>1, <2>2, <2>3
<1>2. Prompted(k) /\ checkout[k] \in {None, p}
  BY OneCheckout
<1>3. CheckoutsTrue'
  BY <1>1 DEF CheckoutsTrue, DarajaInv
<1>4. RowsTruthful'
  <2>1. \A j : Prompted(j)' <=> Prompted(j)
    BY Frame
  <2>2. \A d \in Clients : InFlight(d)' <=> InFlight(d)
    BY DEF InFlight
  <2>3. QED
    BY <1>1, <2>1, <2>2, DarajaConstants DEF RowsTruthful, IsReceived, DarajaInv
<1>5. CallbacksTrue'
  BY <1>1 DEF CallbacksTrue, Said, DarajaInv
<1>6. WorkerTruthful'
  BY <1>1, Held DEF WorkerTruthful, DarajaInv
<1>7. QuerierTruthful'
  <2>1. querier # NoQuery => querier.request \in Requests /\ querier.checkout \in Checkouts
    BY Held DEF DarajaInv
  <2>2. QED
    BY <1>1, <1>2, <2>1, DarajaConstants DEF QuerierTruthful, DarajaInv
<1>8. ProcessedMeansReceipt'
  <2>1. \A q \in Checkouts : [checkout |-> q, kind |-> "paid"] \in Payloads
    BY DEF Payloads
  <2>2. QED
    BY <1>1, <2>1 DEF ProcessedMeansReceipt, DarajaInv
<1>9. QED
  BY <1>3, <1>4, <1>5, <1>6, <1>7, <1>8, Frame DEF DarajaInv

LEMMA ProviderStepsKeep == DarajaInv /\ ProviderSteps => DarajaInv'
<1> SUFFICES ASSUME DarajaInv, NEW p \in Checkouts, NEW outcome \in Outcomes,
                    \/ MemberAnswers(p, outcome)
                    \/ HandleSTKCallback(p, outcome)
                    \/ HandleUnsignedCallback(p, outcome)
             PROVE  DarajaInv'
  BY DEF ProviderSteps
<1> DEFINE k == prompt[p].request
           m == [checkout |-> p, kind |-> outcome]
<1>1. m \in Payloads
  BY DEF Payloads, Outcomes
<1>2. ASSUME outcome \in prompt[p].outcomes
      PROVE  k \in Requests /\ Said(m)
  <2>1. prompt[p] # NoPrompt
    BY <1>2 DEF NoPrompt
  <2>2. k \in Requests
    BY <2>1, Held DEF PromptsNamed, DarajaInv
  <2>3. QED
    BY <1>2, <2>2 DEF Said, Outcomes
<1>3. CASE HandleSTKCallback(p, outcome)
  <2>1. /\ outcome \in prompt[p].outcomes
        /\ checkout' = [checkout EXCEPT ![k] = p] \/ checkout' = checkout
        /\ InsertDarajaCallback(m)
        /\ UNCHANGED <<status, recovery, queries, receipts, tries, call, worker, querier,
                       prompt, deaths>>
    BY <1>3 DEF HandleSTKCallback, UpdateCheckoutID
  <2>2. k \in Requests /\ Said(m)
    BY <1>2, <2>1
  <2>3. checkout' \in [Requests -> Checkouts \cup {None}]
    BY <2>1, <2>2 DEF DarajaInv, TypeOK
  <2>4. callback' \in [Payloads -> {"absent", "waiting", "processed"}]
    BY <1>1, <2>1 DEF DarajaInv, TypeOK, InsertDarajaCallback
  <2>5. TypeOK'
    BY <2>1, <2>3, <2>4 DEF DarajaInv, TypeOK
  <2> HIDE DEF k, m
  <2>6. QED
    BY <1>1, <2>1, <2>2, <2>5, CallbackStored DEF k
<1>4. CASE HandleUnsignedCallback(p, outcome)
  <2>1. /\ outcome \in prompt[p].outcomes
        /\ InsertDarajaCallback(m)
        /\ UNCHANGED <<status, recovery, checkout, queries, receipts, tries, call, worker,
                       querier, prompt, deaths>>
    BY <1>4 DEF HandleUnsignedCallback, rows
  <2>2. k \in Requests /\ Said(m)
    BY <1>2, <2>1
  <2>3. callback' \in [Payloads -> {"absent", "waiting", "processed"}]
    BY <1>1, <2>1 DEF DarajaInv, TypeOK, InsertDarajaCallback
  <2>4. TypeOK'
    BY <2>1, <2>3 DEF DarajaInv, TypeOK
  <2> HIDE DEF k, m
  <2>5. QED
    BY <1>1, <2>1, <2>2, <2>4, CallbackStored DEF k
<1>5. QED
  BY <1>3, <1>4, MemberAnswersKeeps

-----------------------------------------------------------------------------
(* RecoverDaraja.                                                          *)

\* The worker takes, judges or drops a callback, and no row moves.
LEMMA OnlyWorkerMoves ==
    ASSUME DarajaInv, TypeOK', WorkerTruthful',
           UNCHANGED <<status, recovery, checkout, receipts, callback, call, querier, prompt>>
    PROVE  DarajaInv'
BY Frame DEF DarajaInv

\* A result other than "not_sent" recorded on a request that has a checkout.
LEMMA ResultKeepsRows ==
    ASSUME DarajaInv, NEW k \in Requests, checkout[k] # None, NEW new, new # "not_sent",
           RecordDarajaQueryResult(k, new), UNCHANGED <<status, checkout, call, prompt>>
    PROVE  RowsTruthful'
<1>1. recovery' = recovery \/ recovery' = [recovery EXCEPT ![k] = new]
  BY DEF RecordDarajaQueryResult
<1>2. \A j \in Requests : recovery'[j] = recovery[j] \/ (j = k /\ recovery'[j] = new)
  BY <1>1 DEF DarajaInv, TypeOK
<1>3. (\A j : Prompted(j)' <=> Prompted(j)) /\ (\A d \in Clients : InFlight(d)' <=> InFlight(d))
  BY Frame DEF InFlight
<1>4. QED
  BY <1>2, <1>3 DEF RowsTruthful, DarajaInv

\* A failure the provider reported of the checkout of this request.
LEMMA FailureKeeps ==
    ASSUME DarajaInv, NEW k \in Requests, NEW p \in Checkouts, checkout[k] = p,
           "failed" \in prompt[p].outcomes, MarkDarajaSTKPaymentFailed(k),
           UNCHANGED <<checkout, receipts, callback, call, prompt>>,
           WorkerTruthful', QuerierTruthful', worker' \in Work, querier' \in Query,
           UNCHANGED <<queries, tries, deaths>>
    PROVE  DarajaInv'
<1>1. prompt[p].request = k /\ Prompted(k) /\ \A q \in Checkouts : prompt[q].request = k => q = p
  BY OneCheckout, DarajaConstants
<1>2. CASE ~MayFail(k)
  <2>1. UNCHANGED <<status, recovery>>
    BY <1>2 DEF MarkDarajaSTKPaymentFailed
  <2>2. TypeOK'
    BY <2>1 DEF DarajaInv, TypeOK
  <2>3. QED
    BY <2>1, <2>2, Frame DEF DarajaInv
<1>3. CASE MayFail(k)
  <2>1. /\ status' = [status EXCEPT ![k] = "failed"]
        /\ recovery' = [recovery EXCEPT ![k] = "provider_failed"]
        /\ status[k] # "completed"
    BY <1>3 DEF MarkDarajaSTKPaymentFailed, MayFail, UpdateFailed
  <2>2. TypeOK'
    BY <2>1 DEF DarajaInv, TypeOK, Statuses, Recoveries
  <2>3. /\ \A j \in Requests : status'[j] = IF j = k THEN "failed" ELSE status[j]
        /\ \A j \in Requests : recovery'[j] = IF j = k THEN "provider_failed" ELSE recovery[j]
    BY <2>1 DEF DarajaInv, TypeOK
  <2>4. (\A j : Prompted(j)' <=> Prompted(j)) /\ (\A d \in Clients : InFlight(d)' <=> InFlight(d))
    BY Frame DEF InFlight
  <2>5. CallsAlone'
    BY <2>3, <2>4 DEF CallsAlone, DarajaInv
  <2>6. CallsTruthful'
    BY <1>1, <2>3, <2>4 DEF CallsTruthful, CallsAlone, InFlight, DarajaInv
  <2>7. RowsTruthful'
    BY <2>3, <2>4 DEF RowsTruthful, IsReceived, DarajaInv
  <2>8. CompletedIffReceipt'
    BY <2>1, <2>3 DEF CompletedIffReceipt, DarajaInv
  <2>9. FailedOnProvidersWord'
    BY <1>1, <2>3 DEF FailedOnProvidersWord, DarajaInv
  <2>10. QED
    BY <2>2, <2>5, <2>6, <2>7, <2>8, <2>9, Frame DEF DarajaInv
<1>4. QED
  BY <1>2, <1>3

\* The receipt and the completion of the request the payment was prompted for.
LEMMA ReceiptKeeps ==
    ASSUME DarajaInv, NEW k \in Requests, NEW p \in Checkouts, checkout[k] = p,
           "paid" \in prompt[p].outcomes,
           receipts' = receipts \cup {[request |-> k, checkout |-> p]},
           status' = [status EXCEPT ![k] = "completed"],
           recovery' = [recovery EXCEPT ![k] = "received"],
           worker # NoWork, worker.payload.checkout = p,
           worker' = [payload |-> worker.payload, phase |-> "ok"],
           UNCHANGED <<checkout, queries, callback, tries, call, querier, prompt, deaths>>
    PROVE  DarajaInv'
<1>1. prompt[p].request = k /\ Prompted(k)
  BY OneCheckout, DarajaConstants
<1>2. [request |-> k, checkout |-> p] \in receipts' /\ receipts \subseteq receipts'
  OBVIOUS
<1>3. TypeOK'
  <2>1. worker' \in Work
    BY Held DEF Work, DarajaInv
  <2>2. QED
    BY <2>1 DEF DarajaInv, TypeOK, Statuses, Recoveries
<1>4. /\ \A j \in Requests : status'[j] = IF j = k THEN "completed" ELSE status[j]
      /\ \A j \in Requests : recovery'[j] = IF j = k THEN "received" ELSE recovery[j]
  BY DEF DarajaInv, TypeOK
<1>5. (\A j : Prompted(j)' <=> Prompted(j)) /\ (\A d \in Clients : InFlight(d)' <=> InFlight(d))
  BY Frame DEF InFlight
<1>6. CallsAlone'
  BY <1>4, <1>5 DEF CallsAlone, DarajaInv
<1>7. CallsTruthful'
  BY <1>1, <1>4, <1>5 DEF CallsTruthful, CallsAlone, InFlight, DarajaInv
<1>8. RowsTruthful'
  BY <1>4, <1>5, DarajaConstants DEF RowsTruthful, DarajaInv
<1>9. WorkerTruthful'
  <2>1. callback'[worker'.payload] # "absent" /\ worker'.payload.checkout = p
    BY DEF WorkerTruthful, DarajaInv
  <2>2. \E r \in receipts' : r.checkout = p
    BY <1>2
  <2>3. QED
    BY <2>1, <2>2 DEF WorkerTruthful
<1>10. ReceiptsBackedByPayment'
  BY <1>1 DEF ReceiptsBackedByPayment, DarajaInv
<1>11. CompletedIffReceipt'
  <2> DEFINE new == [request |-> k, checkout |-> p]
  <2>1. new.request = k
    OBVIOUS
  <2> HIDE DEF new
  <2>2. \A r : r \in receipts' <=> r \in receipts \/ r = new
    BY DEF new
  <2>3. QED
    BY <1>4, <2>1, <2>2 DEF CompletedIffReceipt, DarajaInv
<1>12. ProcessedMeansReceipt'
  BY <1>2 DEF ProcessedMeansReceipt, DarajaInv
<1>13. FailedOnProvidersWord'
  BY <1>4 DEF FailedOnProvidersWord, DarajaInv
<1>14. QED
  BY <1>3, <1>6, <1>7, <1>8, <1>9, <1>10, <1>11, <1>12, <1>13, Frame DEF DarajaInv

LEMMA WorkerProcessesKeeps == DarajaInv /\ WorkerProcesses => DarajaInv'
<1> SUFFICES ASSUME DarajaInv, WorkerProcesses PROVE DarajaInv'
  OBVIOUS
<1> DEFINE m == worker.payload
<1>1. /\ worker.phase = "claimed" /\ worker # NoWork
      /\ m \in Payloads /\ m.checkout \in Checkouts /\ callback[m] # "absent" /\ Said(m)
  BY Held DEF WorkerProcesses, WorkerTruthful, CallbacksTrue, DarajaInv
<1>2. UNCHANGED <<callback, tries, call, querier, prompt, deaths>>
  BY DEF WorkerProcesses, inbox
<1>3. ASSUME NEW phase \in {"claimed", "ok", "error"}, WorkEnds(phase)
      PROVE  worker' \in Work /\ worker' # NoWork /\ worker'.payload = m /\ worker'.phase = phase
  <2>1. worker' = [payload |-> m, phase |-> phase]
    BY <1>3 DEF WorkEnds
  <2>2. QED
    BY <1>1, <2>1 DEF Work, NoWork
<1>4. WorkEnds("error") => WorkerTruthful' /\ worker' \in Work
  BY <1>1, <1>2, <1>3 DEF WorkerTruthful
<1>5. CASE RequestsOf(m.checkout) = {} /\ WorkEnds("error") /\ UNCHANGED rows
  <2>1. TypeOK'
    BY <1>2, <1>4, <1>5 DEF rows, DarajaInv, TypeOK
  <2>2. QED
    BY <1>2, <1>4, <1>5, <2>1, OnlyWorkerMoves DEF rows
<1>6. ASSUME NEW k \in Requests, checkout[k] = m.checkout,
             \/ m.kind # "failed" /\ ProcessDarajaSTKPayment(k, m)
             \/ /\ m.kind = "failed"
                /\ MarkDarajaSTKPaymentFailed(k)
                /\ WorkEnds("ok")
                /\ UNCHANGED <<checkout, queries, receipts>>
      PROVE  DarajaInv'
  <2>1. checkout[k] # None /\ prompt[m.checkout].request = k
    BY <1>1, <1>6, DarajaConstants, OneCheckout
  <2>2. CASE /\ status[k] = "completed"
             /\ WorkEnds(IF AmountMatches(m) THEN "ok" ELSE "error")
             /\ UNCHANGED rows
    <3>1. PICK r \in receipts : r.request = k
      BY <2>2 DEF CompletedIffReceipt, DarajaInv
    <3>2. r.checkout \in Checkouts /\ prompt[r.checkout].request = k
      BY <3>1 DEF ReceiptsBackedByPayment, TypeOK, DarajaInv
    <3>3. r.checkout = m.checkout
      BY <1>1, <2>1, <3>2, OneCheckout
    <3>4. \E phase \in {"claimed", "ok", "error"} : WorkEnds(phase)
      BY <2>2
    <3>5. worker' \in Work /\ worker' # NoWork /\ worker'.payload = m
      BY <1>3, <3>4
    <3>6. WorkerTruthful'
      BY <1>1, <1>2, <2>2, <3>1, <3>3, <3>5 DEF WorkerTruthful, rows
    <3>7. TypeOK'
      BY <1>2, <2>2, <3>5 DEF rows, DarajaInv, TypeOK
    <3>8. QED
      BY <1>2, <2>2, <3>6, <3>7, OnlyWorkerMoves DEF rows
  <2>3. CASE /\ status[k] # "completed" /\ ~AmountMatches(m)
             /\ RecordDarajaQueryResult(k, "received_needs_review")
             /\ WorkEnds("error")
             /\ UNCHANGED <<status, checkout, queries, receipts>>
    <3>1. RowsTruthful'
      BY <1>2, <2>1, <2>3, ResultKeepsRows
    <3>2. recovery' \in [Requests -> Recoveries]
      BY <2>3 DEF RecordDarajaQueryResult, Recoveries, DarajaInv, TypeOK
    <3>3. TypeOK'
      BY <1>2, <1>4, <2>3, <3>2 DEF DarajaInv, TypeOK
    <3>4. QED
      BY <1>2, <1>4, <2>3, <3>1, <3>3, Frame DEF DarajaInv
  <2>4. CASE /\ m.kind # "failed"
             /\ status[k] # "completed" /\ AmountMatches(m)
             /\ receipts' = receipts \cup {[request |-> k, checkout |-> m.checkout]}
             /\ status' = [status EXCEPT ![k] = "completed"]
             /\ recovery' = [recovery EXCEPT ![k] = "received"]
             /\ WorkEnds("ok")
             /\ UNCHANGED <<checkout, queries>>
    <3>1. m.kind \in {"paid", "verified"}
      BY <1>1, <2>4 DEF Payloads, AmountMatches
    <3>2. "paid" \in prompt[m.checkout].outcomes
      BY <1>1, <3>1 DEF Said
    <3>3. QED
      BY <1>1, <1>2, <1>6, <2>4, <3>2, ReceiptKeeps DEF WorkEnds
  <2>5. CASE /\ m.kind = "failed"
             /\ MarkDarajaSTKPaymentFailed(k)
             /\ WorkEnds("ok")
             /\ UNCHANGED <<checkout, queries, receipts>>
    <3>1. "failed" \in prompt[m.checkout].outcomes
      BY <1>1, <2>5 DEF Said
    <3>2. worker' \in Work /\ WorkerTruthful'
      BY <1>1, <1>2, <1>3, <2>5 DEF WorkerTruthful
    <3>3. querier' \in Query /\ QuerierTruthful'
      BY <1>2, <2>5, Frame DEF DarajaInv, TypeOK
    <3>4. QED
      BY <1>1, <1>2, <1>6, <2>5, <3>1, <3>2, <3>3, FailureKeeps
  <2>6. QED
    BY <1>6, <2>2, <2>3, <2>4, <2>5 DEF ProcessDarajaSTKPayment
<1>7. QED
  BY <1>5, <1>6 DEF WorkerProcesses, RequestsOf

LEMMA WorkerStepsKeep == DarajaInv /\ (WorkerSteps \/ WorkerDies) => DarajaInv'
<1> SUFFICES ASSUME DarajaInv, WorkerSteps \/ WorkerDies PROVE DarajaInv'
  OBVIOUS
<1>1. ASSUME NEW m \in Payloads, ClaimDarajaCallback(m) PROVE DarajaInv'
  <2>1. /\ callback[m] = "waiting" /\ tries[m] < MaxAttempts
        /\ tries' = [tries EXCEPT ![m] = tries[m] + 1]
        /\ worker' = [payload |-> m, phase |-> "claimed"]
        /\ UNCHANGED <<status, recovery, checkout, queries, receipts, callback, call, querier,
                       prompt, deaths>>
    BY <1>1 DEF ClaimDarajaCallback, TriesLeft, rows
  <2>2. worker' \in Work
    BY <2>1 DEF Work
  <2>3. tries' \in [Payloads -> 0 .. MaxAttempts]
    <3>1. tries[m] + 1 \in 0 .. MaxAttempts
      BY <2>1, DarajaConstants DEF DarajaInv, TypeOK
    <3>2. QED
      BY <2>1, <3>1 DEF DarajaInv, TypeOK
  <2>4. TypeOK'
    BY <2>1, <2>2, <2>3 DEF DarajaInv, TypeOK
  <2>5. WorkerTruthful'
    BY <2>1 DEF WorkerTruthful
  <2>6. QED
    BY <2>1, <2>4, <2>5, OnlyWorkerMoves
<1>2. CASE FinishDarajaCallback
  <2> DEFINE m == worker.payload
  <2>1. /\ m \in Payloads /\ callback[m] # "absent" /\ worker # NoWork
        /\ callback' = [callback EXCEPT ![m] = ProcessedAt]
        /\ worker' = NoWork
        /\ UNCHANGED <<status, recovery, checkout, queries, receipts, tries, call, querier,
                       prompt, deaths>>
    BY <1>2, Held DEF FinishDarajaCallback, WorkerTruthful, rows, DarajaInv
  <2>2. \A n \in Payloads : callback'[n] = IF n = m THEN ProcessedAt ELSE callback[n]
    BY <2>1 DEF DarajaInv, TypeOK
  <2>3. ProcessedAt \in {"waiting", "processed"}
    BY DEF ProcessedAt
  <2>4. TypeOK'
    <3>1. worker' \in Work
      BY <2>1 DEF Work
    <3>2. QED
      BY <2>1, <2>3, <3>1 DEF DarajaInv, TypeOK
  <2>5. CallbacksTrue'
    BY <2>1, <2>2 DEF CallbacksTrue, Said, DarajaInv
  <2>6. WorkerTruthful'
    BY <2>1 DEF WorkerTruthful
  <2>7. ProcessedMeansReceipt'
    <3>1. ASSUME NEW p \in Checkouts, callback'[[checkout |-> p, kind |-> "paid"]] = "processed"
          PROVE  \E r \in receipts : r.checkout = p
      <4> DEFINE n == [checkout |-> p, kind |-> "paid"]
      <4>1. n \in Payloads /\ n.kind = "paid" /\ n.checkout = p
        BY DEF Payloads
      <4>2. CASE n = m
        <5>1. worker.phase = "ok"
          BY <2>2, <3>1, <4>1, <4>2 DEF ProcessedAt
        <5>2. QED
          BY <2>1, <4>1, <4>2, <5>1 DEF WorkerTruthful, DarajaInv
      <4>3. CASE n # m
        BY <2>2, <3>1, <4>1, <4>3 DEF ProcessedMeansReceipt, DarajaInv
      <4>4. QED
        BY <4>2, <4>3
    <3>2. QED
      BY <2>1, <3>1 DEF ProcessedMeansReceipt
  <2>8. QED
    BY <2>1, <2>4, <2>5, <2>6, <2>7, Frame DEF DarajaInv
<1>3. CASE WorkerDies
  <2>1. /\ worker' = NoWork /\ deaths' \in 0 .. MaxDeaths
        /\ UNCHANGED <<status, recovery, checkout, queries, receipts, callback, tries, call,
                       querier, prompt>>
    BY <1>3, DarajaConstants DEF WorkerDies, rows, inbox, DarajaInv, TypeOK
  <2>2. TypeOK'
    BY <2>1 DEF Work, DarajaInv, TypeOK
  <2>3. WorkerTruthful'
    BY <2>1 DEF WorkerTruthful
  <2>4. QED
    BY <2>1, <2>2, <2>3, OnlyWorkerMoves
<1>4. QED
  BY <1>1, <1>2, <1>3, WorkerProcessesKeeps DEF WorkerSteps

-----------------------------------------------------------------------------
(* QueryPendingDaraja.                                                     *)

\* The query worker takes, asks about or drops a request, and no row but its
\* count of queries moves.
LEMMA OnlyQuerierMoves ==
    ASSUME DarajaInv, querier' \in Query, queries' \in [Requests -> 0 .. MaxAttempts],
           deaths' \in 0 .. MaxDeaths, QuerierTruthful',
           UNCHANGED <<status, recovery, checkout, receipts, callback, tries, call, worker, prompt>>
    PROVE  DarajaInv'
<1>1. TypeOK'
  BY DEF DarajaInv, TypeOK
<1>2. QED
  BY <1>1, Frame DEF DarajaInv

\* What the querier holds stays as it was but for the phase and the code.
LEMMA QueryAtHolds ==
    ASSUME DarajaInv, querier # NoQuery, UNCHANGED <<checkout, prompt>>,
           NEW phase \in {"answered", "marked"},
           NEW code \in {"0", "failed", "other", "unavailable"},
           code = "failed" => "failed" \in prompt[querier.checkout].outcomes,
           QueryAt(phase, code)
    PROVE  querier' \in Query /\ QuerierTruthful'
<1>1. querier' = [request |-> querier.request, checkout |-> querier.checkout,
                  attempts |-> querier.attempts, phase |-> phase, code |-> code]
  BY DEF QueryAt
<1>2. /\ querier.request \in Requests /\ querier.checkout \in Checkouts
      /\ querier.attempts \in Nat
  BY Held DEF DarajaInv
<1>3. querier' \in Query
  BY <1>1, <1>2 DEF Query
<1>4. /\ querier'.request = querier.request /\ querier'.checkout = querier.checkout
      /\ querier'.attempts = querier.attempts /\ querier'.code = code
  BY <1>1
<1>5. QuerierTruthful'
  BY <1>4 DEF QuerierTruthful, DarajaInv
<1>6. QED
  BY <1>3, <1>5

LEMMA QuerierStepsKeep == DarajaInv /\ (QuerierSteps \/ QuerierDies) => DarajaInv'
<1> SUFFICES ASSUME DarajaInv, QuerierSteps \/ QuerierDies PROVE DarajaInv'
  OBVIOUS
<1> DEFINE k == querier.request
<1>1. querier # NoQuery =>
          /\ k \in Requests /\ querier.checkout \in Checkouts
          /\ querier.attempts \in 1 .. MaxAttempts /\ checkout[k] = querier.checkout
  BY Held DEF QuerierTruthful, DarajaInv
<1>2. NoQuery \in Query /\ (querier' = NoQuery => QuerierTruthful')
  BY DEF Query, QuerierTruthful
<1>3. queries \in [Requests -> 0 .. MaxAttempts] /\ deaths \in 0 .. MaxDeaths
  BY DEF DarajaInv, TypeOK
<1>4. ASSUME NEW j \in Requests, ClaimDarajaQuery(j) PROVE DarajaInv'
  <2>1. /\ checkout[j] # None /\ queries[j] < MaxAttempts
        /\ queries' = [queries EXCEPT ![j] = queries[j] + 1]
        /\ querier' = [request |-> j, checkout |-> checkout[j], attempts |-> queries[j] + 1,
                       phase |-> "claimed", code |-> ""]
        /\ UNCHANGED <<status, recovery, checkout, receipts, callback, tries, call, worker,
                       prompt, deaths>>
    BY <1>4 DEF ClaimDarajaQuery, QueriesLeft, inbox
  <2>2. /\ queries[j] + 1 \in 1 .. MaxAttempts /\ queries[j] + 1 \in 0 .. MaxAttempts
        /\ queries[j] + 1 \in Nat
    <3>1. queries[j] \in 0 .. MaxAttempts /\ queries[j] < MaxAttempts
      BY <1>3, <2>1
    <3>2. QED
      BY <3>1, DarajaConstants
  <2>3. checkout[j] \in Checkouts
    BY <2>1, OneCheckout
  <2>4. querier' \in Query
    BY <2>1, <2>2, <2>3 DEF Query
  <2>5. QuerierTruthful'
    BY <2>1, <2>2 DEF QuerierTruthful
  <2>6. queries' \in [Requests -> 0 .. MaxAttempts]
    BY <1>3, <2>1, <2>2
  <2>7. QED
    BY <1>3, <2>1, <2>4, <2>5, <2>6, OnlyQuerierMoves
<1>5. CASE QuerySTK
  <2>1. /\ querier # NoQuery
        /\ UNCHANGED <<status, recovery, checkout, queries, receipts, callback, tries, call,
                       worker, prompt, deaths>>
    BY <1>5, Held DEF QuerySTK, rows, inbox, DarajaInv
  <2>2. \E code \in {"0", "failed", "other", "unavailable"} :
            /\ QueryAt("answered", code)
            /\ code = "failed" => "failed" \in prompt[querier.checkout].outcomes
    BY <1>5 DEF QuerySTK
  <2>3. querier' \in Query /\ QuerierTruthful'
    BY <2>1, <2>2, QueryAtHolds
  <2>4. QED
    BY <1>3, <2>1, <2>3, OnlyQuerierMoves
<1>6. CASE DeferUnavailableDarajaQuery
  <2>1. /\ querier # NoQuery /\ querier' = NoQuery
        /\ \/ queries' = queries
           \/ queries[k] = querier.attempts /\ queries' = [queries EXCEPT ![k] = queries[k] - 1]
        /\ UNCHANGED <<status, recovery, checkout, receipts, callback, tries, call, worker,
                       prompt, deaths>>
    BY <1>6, Held DEF DeferUnavailableDarajaQuery, inbox, DarajaInv
  <2>2. queries[k] = querier.attempts => queries[k] - 1 \in 0 .. MaxAttempts
    BY <1>1, <2>1, DarajaConstants
  <2>3. queries' \in [Requests -> 0 .. MaxAttempts]
    BY <1>3, <2>1, <2>2
  <2>4. QED
    BY <1>2, <1>3, <2>1, <2>3, OnlyQuerierMoves
<1>7. CASE QuerierMarksFailed
  <2>1. /\ querier # NoQuery /\ QueryAt("marked", "failed") /\ querier.code = "failed"
        /\ UNCHANGED <<checkout, queries, receipts, callback, tries, call, worker, prompt, deaths>>
    BY <1>7, Held DEF QuerierMarksFailed, inbox, DarajaInv
  <2>2. "failed" \in prompt[querier.checkout].outcomes
    BY <2>1 DEF QuerierTruthful, DarajaInv
  <2>3. querier' \in Query /\ QuerierTruthful'
    BY <2>1, <2>2, QueryAtHolds
  <2>4. ASSUME NEW j \in Requests, checkout[j] = querier.checkout, MarkDarajaSTKPaymentFailed(j)
        PROVE  DarajaInv'
    <3>1. worker' \in Work /\ WorkerTruthful'
      BY <2>1, Frame DEF DarajaInv, TypeOK
    <3>2. QED
      BY <1>1, <2>1, <2>2, <2>3, <2>4, <3>1, FailureKeeps
  <2>5. CASE UNCHANGED <<status, recovery>>
    BY <1>3, <2>1, <2>3, <2>5, OnlyQuerierMoves
  <2>6. QED
    BY <1>7, <2>4, <2>5 DEF QuerierMarksFailed, RequestsOf
<1>8. CASE QuerierRecords
  <2>1. /\ querier # NoQuery /\ querier' = NoQuery
        /\ RecordDarajaQueryResult(k, QueryVerdict)
        /\ UNCHANGED <<status, checkout, queries, receipts, callback, tries, call, worker,
                       prompt, deaths>>
    BY <1>8, Held DEF QuerierRecords, inbox, DarajaInv
  <2>2. QueryVerdict \in {"received_needs_receipt", "provider_failed", "needs_review",
                          "awaiting_confirmation"}
    BY DEF QueryVerdict
  <2>3. recovery' \in [Requests -> Recoveries]
    BY <2>1, <2>2 DEF RecordDarajaQueryResult, Recoveries, DarajaInv, TypeOK
  <2>4. TypeOK'
    BY <1>2, <2>1, <2>3 DEF DarajaInv, TypeOK
  <2>5. RowsTruthful'
    BY <1>1, <2>1, <2>2, ResultKeepsRows, DarajaConstants
  <2>6. QED
    BY <1>2, <2>1, <2>4, <2>5, Frame DEF DarajaInv
<1>9. CASE QuerierDies
  <2>1. /\ querier' = NoQuery /\ deaths' \in 0 .. MaxDeaths
        /\ UNCHANGED <<status, recovery, checkout, queries, receipts, callback, tries, call,
                       worker, prompt>>
    BY <1>3, <1>9, DarajaConstants DEF QuerierDies, rows, inbox
  <2>2. QED
    BY <1>2, <1>3, <2>1, OnlyQuerierMoves
<1>10. QED
  BY <1>4, <1>5, <1>6, <1>7, <1>8, <1>9 DEF QuerierSteps

-----------------------------------------------------------------------------
(* RecoverDarajaPayment.                                                   *)

LEMMA RequeueTyped ==
    ASSUME TypeOK, NEW p, RequeueDarajaCallbacks(p)
    PROVE  tries' \in [Payloads -> 0 .. MaxAttempts]
<1>1. 0 \in 0 .. MaxAttempts
  BY DarajaConstants
<1>2. QED
  BY <1>1 DEF RequeueDarajaCallbacks, TypeOK

LEMMA StaffStepsKeep == DarajaInv /\ StaffSteps => DarajaInv'
<1> SUFFICES ASSUME DarajaInv, NEW k \in Requests,
                    \/ \E p \in Checkouts : RestoreDarajaCheckout(k, p) \/ Reconcile(k, p)
                    \/ RescheduleDaraja(k)
             PROVE  DarajaInv'
  BY DEF StaffSteps
<1>1. /\ queries \in [Requests -> 0 .. MaxAttempts] /\ 0 \in 0 .. MaxAttempts
      /\ (queries' = [queries EXCEPT ![k] = 0] => queries' \in [Requests -> 0 .. MaxAttempts])
  BY DarajaConstants DEF DarajaInv, TypeOK
<1>2. ASSUME NEW p \in Checkouts, RestoreDarajaCheckout(k, p) PROVE DarajaInv'
  <2>1. /\ prompt[p].request = k /\ RequeueDarajaCallbacks(p)
        /\ checkout[k] = None /\ checkout' = [checkout EXCEPT ![k] = p]
        /\ recovery' = [recovery EXCEPT ![k] = "awaiting_confirmation"]
        /\ queries' = [queries EXCEPT ![k] = 0]
        /\ UNCHANGED <<status, receipts, callback, call, worker, querier, prompt, deaths>>
    BY <1>2 DEF RestoreDarajaCheckout, UpdateCheckoutID
  <2>2. TypeOK'
    BY <1>1, <2>1, RequeueTyped DEF Recoveries, DarajaInv, TypeOK
  <2>3. CheckoutsTrue'
    BY <2>1 DEF CheckoutsTrue, DarajaInv, TypeOK
  <2>4. RowsTruthful'
    <3>1. /\ \A j \in Requests :
                 recovery'[j] = IF j = k THEN "awaiting_confirmation" ELSE recovery[j]
          /\ \A j \in Requests : checkout'[j] = IF j = k THEN p ELSE checkout[j]
      BY <2>1 DEF DarajaInv, TypeOK
    <3>2. (\A j : Prompted(j)' <=> Prompted(j)) /\ (\A d \in Clients : InFlight(d)' <=> InFlight(d))
      BY <2>1, Frame DEF InFlight
    <3>3. QED
      BY <2>1, <3>1, <3>2 DEF RowsTruthful, IsReceived, DarajaInv
  <2>5. QuerierTruthful'
    <3>1. querier # NoQuery => querier.request \in Requests /\ querier.checkout \in Checkouts
      BY Held DEF DarajaInv
    <3>2. querier # NoQuery => querier.request # k
      BY <2>1, <3>1, DarajaConstants DEF QuerierTruthful, DarajaInv
    <3>3. QED
      BY <2>1, <3>1, <3>2 DEF QuerierTruthful, TypeOK, DarajaInv
  <2>6. QED
    BY <2>1, <2>2, <2>3, <2>4, <2>5, Frame DEF DarajaInv
<1>3. ASSUME NEW p \in Checkouts, Reconcile(k, p) PROVE DarajaInv'
  <2> DEFINE m == [checkout |-> p, kind |-> "verified"]
  <2>1. /\ prompt[p].request = k /\ "paid" \in prompt[p].outcomes
        /\ IF checkout[k] = None THEN checkout' = [checkout EXCEPT ![k] = p]
                                 ELSE checkout' = checkout
        /\ InsertDarajaCallback([checkout |-> checkout'[k], kind |-> "verified"])
        /\ RequeueDarajaCallbacks(checkout'[k])
        /\ UNCHANGED <<status, recovery, queries, receipts, call, worker, querier, prompt, deaths>>
    BY <1>3 DEF Reconcile, UpdateCheckoutID
  <2>2. checkout'[k] = p
    BY <2>1, OneCheckout DEF DarajaInv, TypeOK
  <2>3. InsertDarajaCallback(m) /\ m \in Payloads /\ Said(m)
    BY <2>1, <2>2 DEF Payloads, Said
  <2>4. checkout' \in [Requests -> Checkouts \cup {None}]
    BY <2>1 DEF DarajaInv, TypeOK
  <2>5. callback' \in [Payloads -> {"absent", "waiting", "processed"}]
    BY <2>3 DEF InsertDarajaCallback, DarajaInv, TypeOK
  <2>6. TypeOK'
    BY <2>1, <2>4, <2>5, RequeueTyped DEF DarajaInv, TypeOK
  <2> HIDE DEF m
  <2>7. QED
    BY <2>1, <2>3, <2>6, CallbackStored
<1>4. CASE RescheduleDaraja(k)
  <2>1. /\ RequeueDarajaCallbacks(checkout[k])
        /\ queries' = queries \/ queries' = [queries EXCEPT ![k] = 0]
        /\ UNCHANGED <<status, recovery, checkout, receipts, callback, call, worker, querier,
                       prompt, deaths>>
    BY <1>4 DEF RescheduleDaraja
  <2>2. TypeOK'
    BY <1>1, <2>1, RequeueTyped DEF DarajaInv, TypeOK
  <2>3. QED
    BY <2>1, <2>2, Frame DEF DarajaInv
<1>5. QED
  BY <1>2, <1>3, <1>4

-----------------------------------------------------------------------------
(* The theorems.                                                           *)

LEMMA NextDarajaInv == DarajaInv /\ [Next]_vars => DarajaInv'
<1> SUFFICES ASSUME DarajaInv, [Next]_vars PROVE DarajaInv'
  OBVIOUS
<1>1. CASE UNCHANGED vars
  <2>1. UNCHANGED <<status, recovery, checkout, queries, receipts, callback, tries, call,
                    worker, querier, prompt, deaths>>
    BY <1>1 DEF vars, rows, inbox
  <2>2. TypeOK'
    BY <2>1 DEF DarajaInv, TypeOK
  <2>3. QED
    BY <2>1, <2>2, Frame DEF DarajaInv
<1>2. QED
  BY <1>1, ClientStepsKeep, ProviderStepsKeep, WorkerStepsKeep, QuerierStepsKeep, StaffStepsKeep
  DEF Next

LEMMA DarajaInvariant == Spec => []DarajaInv
BY InitDarajaInv, NextDarajaInv, PTL DEF Spec

\* Every row, callback, call and worker keeps its type: a query that is given
\* back never takes the count of queries below zero, and no callback is claimed
\* more often than it has attempts.
THEOREM DarajaTyped == Spec => []TypeOK
BY DarajaInvariant, PTL DEF DarajaInv

\* Whatever is retried, lost or killed, and however many calls race on one
\* idempotency key, no request ever has two prompts on the member's phone.
THEOREM OnePromptPerRequest == Spec => []PromptedAtMostOnce
BY DarajaInvariant, PTL DEF DarajaInv

\* Every receipt belongs to the request its prompt was sent for, and the member
\* paid the amount requested: no callback credits somebody else's request.
THEOREM ReceiptsStandForMoney == Spec => []ReceiptsBackedByPayment
BY DarajaInvariant, PTL DEF DarajaInv

\* A receipt, the completion of its request and the end of its callback go
\* together, wherever the worker dies.
THEOREM ReceiptsInStep == Spec => []ReceiptsAgree
<1>1. DarajaInv => ReceiptsAgree
  BY DEF DarajaInv, ReceiptsAgree
<1>2. QED
  BY <1>1, DarajaInvariant, PTL

\* A request is failed only on the provider's word, never while a prompt that
\* nobody answered may still be on the member's phone.
THEOREM FailureHasProof == Spec => []FailedOnProvidersWord
BY DarajaInvariant, PTL DEF DarajaInv

\* No query, timeout, refusal or failure that arrives late takes back what is
\* known of a payment: the one update without a guard, SaveRejected, is made
\* only by the call that alone holds a request that was never prompted.
THEOREM LateResultsEraseNothing == Spec => EvidenceKept
<1>1. ASSUME DarajaInv, [Next]_vars, NEW k \in Requests, IsReceived(recovery[k])
      PROVE  IsReceived(recovery'[k])
  <2>1. checkout[k] # None /\ Prompted(k) /\ recovery[k] # "not_sent"
    BY <1>1, OneCheckout DEF DarajaInv, RowsTruthful, IsReceived
  <2>2. recovery \in [Requests -> Recoveries]
    BY <1>1 DEF DarajaInv, TypeOK
  <2>3. CASE UNCHANGED recovery
    BY <1>1, <2>3
  <2>4. ASSUME NEW j \in Requests, NEW new, RecordDarajaQueryResult(j, new)
        PROVE  IsReceived(recovery'[k])
    BY <1>1, <2>2, <2>4 DEF RecordDarajaQueryResult, QueryResultApplies, IsReceived
  <2>5. ASSUME NEW j \in Requests, MarkDarajaSTKPaymentFailed(j)
        PROVE  IsReceived(recovery'[k])
    BY <1>1, <2>2, <2>5 DEF MarkDarajaSTKPaymentFailed, MayFail, UpdateFailed
  <2>6. CASE ClientSteps
    <3>1. PICK c \in Clients :
              \/ \E j \in Requests :
                    \/ InsertContributionPaymentRequest(c, j)
                    \/ ClaimUnsentDarajaRequest(c, j)
              \/ PromptNotSent(c) \/ InitiateSTK(c) \/ SaveCheckout(c)
              \/ SaveNotSent(c) \/ SaveRejected(c) \/ CallDies(c)
      BY <2>6 DEF ClientSteps
    <3>2. ASSUME NEW j \in Requests, ClaimUnsentDarajaRequest(c, j)
          PROVE  IsReceived(recovery'[k])
      <4>1. j # k
        BY <2>1, <3>2 DEF ClaimUnsentDarajaRequest, MayResend
      <4>2. QED
        BY <1>1, <2>2, <3>2, <4>1 DEF ClaimUnsentDarajaRequest
    <3>3. CASE SaveNotSent(c)
      <4>1. call[c].request \in Requests
        BY <1>1, <3>3 DEF SaveNotSent, DarajaInv, CallsAlone, InFlight
      <4>2. QED
        BY <2>4, <3>3, <4>1 DEF SaveNotSent
    <3>4. CASE SaveRejected(c)
      <4>1. call[c].request # k
        BY <1>1, <2>1, <3>4 DEF SaveRejected, DarajaInv, CallsTruthful
      <4>2. QED
        BY <1>1, <2>2, <3>4, <4>1 DEF SaveRejected, UpdateFailed
    <3>5. CASE \/ \E j \in Requests : InsertContributionPaymentRequest(c, j)
               \/ PromptNotSent(c) \/ InitiateSTK(c) \/ SaveCheckout(c) \/ CallDies(c)
      BY <2>3, <3>5 DEF InsertContributionPaymentRequest, PromptNotSent, InitiateSTK,
                        SaveCheckout, CallDies, rows
    <3>6. QED
      BY <3>1, <3>2, <3>3, <3>4, <3>5
  <2>7. CASE ProviderSteps
    BY <2>3, <2>7 DEF ProviderSteps, MemberAnswers, HandleSTKCallback, HandleUnsignedCallback, rows
  <2>8. CASE WorkerSteps \/ WorkerDies
    <3>1. ASSUME NEW j \in Requests, ProcessDarajaSTKPayment(j, worker.payload)
          PROVE  IsReceived(recovery'[k])
      <4>1. CASE recovery' = [recovery EXCEPT ![j] = "received"]
        BY <1>1, <2>2, <4>1 DEF IsReceived
      <4>2. QED
        BY <2>3, <2>4, <3>1, <4>1 DEF ProcessDarajaSTKPayment, rows
    <3>2. CASE WorkerProcesses
      BY <2>3, <2>5, <3>1, <3>2 DEF WorkerProcesses, RequestsOf, rows
    <3>3. CASE (\E m \in Payloads : ClaimDarajaCallback(m)) \/ FinishDarajaCallback \/ WorkerDies
      BY <2>3, <3>3 DEF ClaimDarajaCallback, FinishDarajaCallback, WorkerDies, rows
    <3>4. QED
      BY <2>8, <3>2, <3>3 DEF WorkerSteps
  <2>9. CASE QuerierSteps \/ QuerierDies
    <3>1. CASE QuerierRecords
      <4>1. querier.request \in Requests
        BY <1>1, <3>1, Held DEF QuerierRecords, DarajaInv
      <4>2. QED
        BY <2>4, <3>1, <4>1 DEF QuerierRecords
    <3>2. CASE QuerierMarksFailed
      BY <2>3, <2>5, <3>2 DEF QuerierMarksFailed, RequestsOf
    <3>3. CASE \/ \E j \in Requests : ClaimDarajaQuery(j)
               \/ QuerySTK \/ DeferUnavailableDarajaQuery \/ QuerierDies
      BY <2>3, <3>3 DEF ClaimDarajaQuery, QuerySTK, DeferUnavailableDarajaQuery, QuerierDies, rows
    <3>4. QED
      BY <2>9, <3>1, <3>2, <3>3 DEF QuerierSteps
  <2>10. CASE StaffSteps
    <3>1. ASSUME NEW j \in Requests, NEW p \in Checkouts, RestoreDarajaCheckout(j, p)
          PROVE  IsReceived(recovery'[k])
      <4>1. j # k
        BY <2>1, <3>1 DEF RestoreDarajaCheckout
      <4>2. QED
        BY <1>1, <2>2, <3>1, <4>1 DEF RestoreDarajaCheckout
    <3>2. ASSUME NEW j \in Requests,
                 (\E p \in Checkouts : Reconcile(j, p)) \/ RescheduleDaraja(j)
          PROVE  IsReceived(recovery'[k])
      BY <2>3, <3>2 DEF Reconcile, RescheduleDaraja
    <3>3. QED
      BY <2>10, <3>1, <3>2 DEF StaffSteps
  <2>11. CASE UNCHANGED vars
    BY <2>3, <2>11 DEF vars, rows
  <2>12. QED
    BY <1>1, <2>6, <2>7, <2>8, <2>9, <2>10, <2>11 DEF Next
<1>2. DarajaInv /\ [Next]_vars =>
          [\A k \in Requests : IsReceived(recovery[k]) => IsReceived(recovery'[k])]_vars
  BY <1>1
<1>3. QED
  BY <1>2, DarajaInvariant, PTL DEF Spec, EvidenceKept
=============================================================================
