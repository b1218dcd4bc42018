---------------------- MODULE PaymentConfirmation_proofs ----------------------
(***************************************************************************)
(* What PaymentConfirmation keeps for every number of payments, transfers  *)
(* and overlapping requests.                                               *)
(*                                                                         *)
(* SubmittedOnce is not inductive: that a pair was not started is known    *)
(* from the missing key only because whoever started it would still hold   *)
(* the lock, or have left the key, or have been disturbed.  RequestOK and  *)
(* PairOK say so, and Alone draws the conclusion.                          *)
(***************************************************************************)
EXTENDS PaymentConfirmation, TLAPS

At0 == {"payment", "transfer", "start"}

RequestOK(r) ==
  /\ request[r].at = "idle" => r \notin lapsed
  /\ request[r].at # "idle" /\ r \notin lapsed => lock[request[r].payment] = r
  /\ r \in lapsed => Pair(r) \in disturbed
  /\ request[r].at \in At0 /\ Pair(r) \in started => Pair(r) \in disturbed
  /\ request[r].at = "start" => tx[request[r].transfer] = "COMMITTED"
  /\ request[r].at = "store" => Pair(r) \in started

PairOK(pair) ==
  pair \in started =>
    /\ tx[pair[2]] = "COMMITTED"
    /\ \/ pair \in disturbed
       \/ pair \in cache
       \/ \E r \in Requests : request[r].at = "store" /\ Pair(r) = pair

SettledOK == \A t \in Transfers : tx[t] = "COMMITTED" => t \in posted

Inv ==
  /\ TypeOK
  /\ SettledOK
  /\ \A r \in Requests : RequestOK(r)
  /\ \A pair \in Pairs : PairOK(pair)
  /\ cache \subseteq started
  /\ again \subseteq disturbed

-----------------------------------------------------------------------------
(* Lemmas.                                                                 *)

\* Two undisturbed requests for one pair are the same request.
LEMMA Alone ==
  ASSUME Inv, NEW r \in Requests, NEW s \in Requests,
         request[r].at # "idle", request[s].at # "idle",
         Pair(r) = Pair(s), Pair(r) \notin disturbed
  PROVE  r = s
<1>1. r \notin lapsed /\ s \notin lapsed
  BY DEF Inv, RequestOK
<1>2. request[r].payment = request[s].payment
  BY DEF Pair
<1>3. QED
  BY <1>1, <1>2 DEF Inv, RequestOK

LEMMA RequestFacts ==
  ASSUME TypeOK, NEW r \in Requests, request[r].at # "idle"
  PROVE  /\ Pair(r) \in Pairs
         /\ request[r].payment \in Payments
         /\ request[r].transfer \in Transfers
         /\ Pair(r)[2] = request[r].transfer
  BY DEF TypeOK, Pair, Pairs

\* A request goes on to its next step.
LEMMA GoToFacts ==
  ASSUME TypeOK, NEW r \in Requests, NEW a \in At \ {"idle"}, request[r].at # "idle", GoTo(r, a)
  PROVE  /\ request' \in [Requests -> Request]
         /\ request'[r].at = a
         /\ request'[r].payment = request[r].payment
         /\ request'[r].transfer = request[r].transfer
         /\ Pair(r)' = Pair(r)
         /\ \A s \in Requests : s # r => request'[s] = request[s] /\ Pair(s)' = Pair(s)
         /\ \A s \in Requests : request'[s].at # "idle" => Pair(s)' \in Pairs
<1>1. request \in [Requests -> Request]
  BY DEF TypeOK
<1>2. request' = [request EXCEPT ![r] = [request[r] EXCEPT !.at = a]]
  BY DEF GoTo
<1>3. [request[r] EXCEPT !.at = a] \in Request
  BY <1>1 DEF Request
<1>4. /\ request'[r] = [request[r] EXCEPT !.at = a]
      /\ \A s \in Requests : s # r => request'[s] = request[s]
      /\ request' \in [Requests -> Request]
  BY <1>1, <1>2, <1>3
<1>5. /\ request'[r].at = a
      /\ request'[r].payment = request[r].payment
      /\ request'[r].transfer = request[r].transfer
  BY <1>1, <1>4 DEF Request
<1>6. Pair(r)' = Pair(r) /\ \A s \in Requests : s # r => Pair(s)' = Pair(s)
  BY <1>4, <1>5 DEF Pair
<1>7. \A s \in Requests : request'[s].at # "idle" => Pair(s)' \in Pairs
  BY <1>4, <1>6 DEF TypeOK
<1>8. QED
  BY <1>4, <1>5, <1>6, <1>7

LEMMA EndFacts ==
  ASSUME TypeOK, NEW r \in Requests, End(r)
  PROVE  /\ request' \in [Requests -> Request]
         /\ request'[r].at = "idle"
         /\ \A s \in Requests : s # r => request'[s] = request[s] /\ Pair(s)' = Pair(s)
         /\ \A s \in Requests : request'[s].at # "idle" => Pair(s)' \in Pairs
         /\ lapsed' = lapsed \ {r}
<1>1. Idle \in Request
  BY DEF Idle, Request, At
<1>2. request \in [Requests -> Request] /\ request' = [request EXCEPT ![r] = Idle]
  BY DEF TypeOK, End
<1>3. /\ request'[r] = Idle
      /\ \A s \in Requests : s # r => request'[s] = request[s]
      /\ request' \in [Requests -> Request]
  BY <1>1, <1>2
<1>4. request'[r].at = "idle"
  BY <1>3 DEF Idle
<1>5. \A s \in Requests : s # r => Pair(s)' = Pair(s)
  BY <1>3 DEF Pair
<1>6. QED
  BY <1>3, <1>4, <1>5 DEF TypeOK, End

-----------------------------------------------------------------------------
(* The inductive step, one lemma per action.                               *)

LEMMA InitInv == Init => Inv
<1> SUFFICES ASSUME Init PROVE Inv
  OBVIOUS
<1>1. TypeOK
  BY DEF Init, SettlementInit, TypeOK, SettlementTypeOK, SettlementStatus, PaymentStatus,
         Request, At, Idle
<1>2. \A r \in Requests : RequestOK(r)
  BY DEF Init, RequestOK, Idle, At0
<1>3. QED
  BY <1>1, <1>2 DEF Init, SettlementInit, Inv, SettledOK, PairOK

LEMMA SettlementStep ==
  ASSUME Inv, SettlementNext, UNCHANGED confirmVars
  PROVE  Inv'
<1>1. PICK t \in Transfers : Create(t) \/ Post(t) \/ Commit(t) \/ Abort(t)
  BY DEF SettlementNext
<1>2. SettlementTypeOK' /\ SettledOK'
  BY <1>1 DEF Inv, TypeOK, SettlementTypeOK, SettlementStatus, SettledOK, Create, Post, Commit, Abort
<1>3. \A u \in Transfers : tx[u] = "COMMITTED" => tx'[u] = "COMMITTED"
  BY <1>1 DEF Inv, TypeOK, SettlementTypeOK, Create, Post, Commit, Abort
<1>4. TypeOK'
  BY <1>2 DEF Inv, TypeOK, confirmVars, Pair
<1>5. ASSUME NEW r \in Requests PROVE RequestOK(r)'
  <2>1. request[r].at = "start" => request[r].transfer \in Transfers
    BY RequestFacts DEF Inv
  <2>2. QED
    BY <1>3, <2>1 DEF Inv, RequestOK, confirmVars, Pair, At0
<1>6. ASSUME NEW pair \in Pairs PROVE PairOK(pair)'
  <2>1. pair[2] \in Transfers
    BY DEF Pairs
  <2>2. QED
    BY <1>3, <2>1 DEF Inv, PairOK, confirmVars, Pair
<1>7. QED
  BY <1>2, <1>4, <1>5, <1>6 DEF Inv, confirmVars

LEMMA AcquireInv ==
  ASSUME Inv, NEW r \in Requests, NEW p \in Payments, NEW t \in Transfers,
         AcquireLock(r, p, t), UNCHANGED settlementVars
  PROVE  Inv'
<1> DEFINE new == [at |-> "cache", payment |-> p, transfer |-> t]
<1>1. new \in Request
  BY DEF Request, At
<1>2. request' = [request EXCEPT ![r] = new] /\ request \in [Requests -> Request]
  BY DEF AcquireLock, Inv, TypeOK
<1>3. /\ request' \in [Requests -> Request]
      /\ request'[r] = new
      /\ \A s \in Requests : s # r => request'[s] = request[s]
  BY <1>1, <1>2
<1>4. Pair(r)' = <<p, t>> /\ \A s \in Requests : s # r => Pair(s)' = Pair(s)
  BY <1>3 DEF Pair
<1>5. lock' \in [Payments -> Requests \cup {None}] /\ lock'[p] = r
      /\ \A q \in Payments : q # p => lock'[q] = lock[q]
  BY DEF AcquireLock, Inv, TypeOK
<1>6. TypeOK'
  BY <1>3, <1>4, <1>5 DEF AcquireLock, Inv, TypeOK, SettlementTypeOK, settlementVars, Pairs
<1>7. ASSUME NEW s \in Requests PROVE RequestOK(s)'
  <2>1. CASE s = r
    BY <2>1, <1>3, <1>4, <1>5 DEF AcquireLock, Inv, RequestOK, At0
  <2>2. CASE s # r
    <3>1. request[s].at # "idle" /\ s \notin lapsed => request[s].payment # p
      BY ConfirmAssumption DEF Inv, RequestOK, AcquireLock
    <3>2. request[s].at # "idle" => request[s].payment \in Payments
      BY RequestFacts DEF Inv
    <3>3. QED
      BY <2>2, <1>3, <1>4, <1>5, <3>1, <3>2 DEF AcquireLock, Inv, RequestOK, At0, settlementVars
  <2>3. QED
    BY <2>1, <2>2
<1>8. ASSUME NEW pair \in Pairs PROVE PairOK(pair)'
  BY <1>3, <1>4 DEF AcquireLock, Inv, PairOK, settlementVars
<1>9. QED
  BY <1>6, <1>7, <1>8 DEF Inv, AcquireLock, SettledOK, settlementVars

\* What a step of r between two places needs to show.
LEMMA StepInv ==
  ASSUME Inv, NEW r \in Requests, NEW a \in At \ {"idle"}, request[r].at # "idle", GoTo(r, a),
         UNCHANGED <<settlementVars, payment, lock, lapsed>>,
         cache' \subseteq started', started \subseteq started', started' \subseteq Pairs,
         \A pair \in started' : pair \in started \/ pair = Pair(r),
         cache \subseteq cache', disturbed \subseteq disturbed',
         disturbed' \subseteq Pairs, again' \subseteq disturbed',
         Pair(r) \in started' \ started => request[r].at = "start",
         a \in At0 /\ Pair(r) \in started' => Pair(r) \in disturbed',
         a = "start" => tx[request[r].transfer] = "COMMITTED",
         a = "store" => Pair(r) \in started',
         Pair(r) \in started' =>
           Pair(r) \in disturbed' \/ Pair(r) \in cache' \/ a = "store" \/ request[r].at # "store",
         Pair(r) \in started' \ started => Pair(r) \in disturbed' \/ a = "store"
  PROVE  Inv'
<1>1. /\ request' \in [Requests -> Request]
      /\ request'[r].at = a
      /\ request'[r].payment = request[r].payment
      /\ request'[r].transfer = request[r].transfer
      /\ Pair(r)' = Pair(r)
      /\ \A s \in Requests : s # r => request'[s] = request[s] /\ Pair(s)' = Pair(s)
      /\ \A s \in Requests : request'[s].at # "idle" => Pair(s)' \in Pairs
  BY GoToFacts DEF Inv
<1>2. TypeOK'
  BY <1>1 DEF Inv, TypeOK, SettlementTypeOK, settlementVars
<1>3. ASSUME NEW s \in Requests PROVE RequestOK(s)'
  <2>1. CASE s = r
    BY <2>1, <1>1 DEF Inv, RequestOK, settlementVars
  <2>2. CASE s # r
    <3>1. request[s].at \in At0 /\ Pair(s) \in started' => Pair(s) \in disturbed'
      <4>1. CASE Pair(s) \in started
        BY <4>1 DEF Inv, RequestOK
      <4>2. CASE Pair(s) \in started' /\ Pair(s) \notin started /\ request[s].at \in At0
        <5>1. Pair(s) = Pair(r)
          BY <4>2
        <5>2. Pair(s) \in disturbed
          BY <2>2, <4>2, <5>1, Alone DEF At0
        <5>3. QED
          BY <5>2
      <4>3. QED
        BY <4>1, <4>2
    <3>2. QED
      BY <2>2, <1>1, <3>1 DEF Inv, RequestOK, settlementVars
  <2>3. QED
    BY <2>1, <2>2
<1>4. ASSUME NEW pair \in Pairs, pair \in started'
      PROVE  /\ tx'[pair[2]] = "COMMITTED"
             /\ \/ pair \in disturbed' \/ pair \in cache'
                \/ \E s \in Requests : request'[s].at = "store" /\ Pair(s)' = pair
  <2>1. CASE pair \in started
    <3>1. PairOK(pair)
      BY DEF Inv
    <3>2. CASE \E s \in Requests : request[s].at = "store" /\ Pair(s) = pair
      <4>1. PICK s \in Requests : request[s].at = "store" /\ Pair(s) = pair
        BY <3>2
      <4>2. CASE s = r
        BY <1>1, <2>1, <3>1, <4>1, <4>2 DEF PairOK, settlementVars
      <4>3. CASE s # r
        BY <1>1, <2>1, <3>1, <4>1, <4>3 DEF PairOK, settlementVars
      <4>4. QED
        BY <4>2, <4>3
    <3>3. QED
      BY <2>1, <3>1, <3>2 DEF PairOK, settlementVars
  <2>2. CASE pair \notin started
    <3>1. pair = Pair(r) /\ request[r].at = "start"
      BY <1>4, <2>2
    <3>2. tx[pair[2]] = "COMMITTED"
      BY <3>1, RequestFacts DEF Inv, RequestOK
    <3>3. pair \in disturbed' \/ a = "store"
      BY <1>4, <2>2, <3>1
    <3>4. QED
      BY <1>1, <3>1, <3>2, <3>3 DEF settlementVars
  <2>3. QED
    BY <2>1, <2>2
<1>5. \A pair \in Pairs : PairOK(pair)'
  BY <1>4 DEF PairOK
<1>6. QED
  BY <1>2, <1>3, <1>5 DEF Inv, SettledOK, settlementVars

LEMMA GetKeyInv ==
  ASSUME Inv, NEW r \in Requests, GetIdempotencyKey(r), UNCHANGED settlementVars
  PROVE  Inv'
<1>1. /\ Pair(r) \in Pairs /\ request[r].at = "cache"
      /\ cache \subseteq started /\ started \subseteq Pairs
      /\ disturbed \subseteq Pairs /\ again \subseteq disturbed
  BY RequestFacts DEF Inv, TypeOK, GetIdempotencyKey
<1>2. UNCHANGED <<settlementVars, payment, lock, lapsed, cache, started, again>>
  BY DEF GetIdempotencyKey
<1>3. CASE Pair(r) \in cache /\ GoTo(r, "release") /\ UNCHANGED disturbed
  BY <1>1, <1>2, <1>3, StepInv DEF At, At0
\* The key is missing: nobody undisturbed has started the workflow.
<1>4. CASE Pair(r) \notin cache /\ GoTo(r, "payment") /\ UNCHANGED disturbed
  <2>1. Pair(r) \in started => Pair(r) \in disturbed
    <3>1. SUFFICES ASSUME Pair(r) \in started, Pair(r) \notin disturbed PROVE FALSE
      OBVIOUS
    <3>2. PICK s \in Requests : request[s].at = "store" /\ Pair(s) = Pair(r)
      BY <1>1, <1>4, <3>1 DEF Inv, PairOK
    <3>3. s = r
      BY <1>1, <3>1, <3>2, Alone
    <3>4. QED
      BY <1>1, <3>2, <3>3
  <2>2. QED
    BY <1>1, <1>2, <1>4, <2>1, StepInv DEF At, At0
<1>5. CASE GoTo(r, "payment") /\ Disturb(r)
  BY <1>1, <1>2, <1>5, StepInv DEF At, At0, Disturb
<1>6. QED
  BY <1>3, <1>4, <1>5 DEF GetIdempotencyKey

LEMMA ReadInv ==
  ASSUME Inv, NEW r \in Requests, ReadPayment(r) \/ ReadTransfer(r), UNCHANGED settlementVars
  PROVE  Inv'
<1>1. /\ request[r].at \in {"payment", "transfer"}
      /\ cache \subseteq started /\ started \subseteq Pairs
      /\ disturbed \subseteq Pairs /\ again \subseteq disturbed
      /\ UNCHANGED <<settlementVars, payment, lock, lapsed, cache, started, again, disturbed>>
  BY DEF Inv, TypeOK, ReadPayment, ReadTransfer
<1>2. Pair(r) \in started => Pair(r) \in disturbed
  BY <1>1 DEF Inv, RequestOK, At0
<1>3. CASE GoTo(r, "release")
  BY <1>1, <1>2, <1>3, StepInv DEF At, At0
<1>4. CASE GoTo(r, "transfer")
  BY <1>1, <1>2, <1>4, StepInv DEF At, At0
<1>5. CASE GoTo(r, "start") /\ tx[request[r].transfer] = "COMMITTED"
  BY <1>1, <1>2, <1>5, StepInv DEF At, At0
<1>6. QED
  BY <1>3, <1>4, <1>5 DEF ReadPayment, ReadTransfer

LEMMA StartInv ==
  ASSUME Inv, NEW r \in Requests, StartWorkflow(r), UNCHANGED settlementVars
  PROVE  Inv'
<1>1. /\ Pair(r) \in Pairs /\ request[r].at = "start"
      /\ cache \subseteq started /\ started \subseteq Pairs
      /\ disturbed \subseteq Pairs /\ again \subseteq disturbed
      /\ UNCHANGED <<settlementVars, payment, lock, lapsed, cache>>
  BY RequestFacts DEF Inv, TypeOK, StartWorkflow
\* A second start is one of a pair that was disturbed before.
<1>2. Pair(r) \in started => Pair(r) \in disturbed
  BY <1>1 DEF Inv, RequestOK, At0
<1>3. CASE /\ GoTo(r, "store") /\ started' = started \cup {Pair(r)}
           /\ again' = again \cup ({Pair(r)} \cap started) /\ UNCHANGED disturbed
  BY <1>1, <1>2, <1>3, StepInv DEF At, At0
<1>4. CASE /\ GoTo(r, "release") /\ started' = started \cup {Pair(r)}
           /\ again' = again \cup ({Pair(r)} \cap started) /\ Disturb(r)
  BY <1>1, <1>2, <1>4, StepInv DEF At, At0, Disturb
<1>5. CASE GoTo(r, "release") /\ UNCHANGED <<started, again, disturbed>>
  BY <1>1, <1>2, <1>5, StepInv DEF At, At0
<1>6. QED
  BY <1>3, <1>4, <1>5 DEF StartWorkflow

LEMMA SetKeyInv ==
  ASSUME Inv, NEW r \in Requests, SetIdempotencyKey(r), UNCHANGED settlementVars
  PROVE  Inv'
<1>1. /\ Pair(r) \in Pairs /\ Pair(r) \in started /\ request[r].at = "store"
      /\ cache \subseteq started /\ started \subseteq Pairs
      /\ disturbed \subseteq Pairs /\ again \subseteq disturbed
      /\ GoTo(r, "release")
      /\ UNCHANGED <<settlementVars, payment, lock, lapsed, started, again>>
  BY RequestFacts DEF Inv, TypeOK, RequestOK, SetIdempotencyKey
<1>2. CASE cache' = cache \cup {Pair(r)} /\ UNCHANGED disturbed
  BY <1>1, <1>2, StepInv DEF At, At0
<1>3. CASE Disturb(r) /\ UNCHANGED cache
  BY <1>1, <1>3, StepInv DEF At, At0, Disturb
<1>4. QED
  BY <1>2, <1>3 DEF SetIdempotencyKey

LEMMA FailInv ==
  ASSUME Inv, NEW r \in Requests, FailStatement(r), UNCHANGED settlementVars
  PROVE  Inv'
<1>1. /\ Pair(r) \in Pairs /\ request[r].at \in {"cache", "payment", "transfer", "store"}
      /\ cache \subseteq started /\ started \subseteq Pairs
      /\ disturbed \subseteq Pairs /\ again \subseteq disturbed
      /\ GoTo(r, "release")
      /\ UNCHANGED <<settlementVars, payment, lock, lapsed, cache, started, again>>
  BY RequestFacts DEF Inv, TypeOK, FailStatement
<1>2. CASE request[r].at = "store" /\ Disturb(r)
  BY <1>1, <1>2, StepInv DEF At, At0, Disturb
<1>3. CASE request[r].at # "store" /\ UNCHANGED disturbed
  BY <1>1, <1>3, StepInv DEF At, At0
<1>4. QED
  BY <1>2, <1>3 DEF FailStatement

\* The request ends, at the end of its section or in a crash.
LEMMA EndInv ==
  ASSUME Inv, NEW r \in Requests, ReleaseLock(r) \/ Crash(r), UNCHANGED settlementVars
  PROVE  Inv'
<1>1. /\ request' \in [Requests -> Request]
      /\ request'[r].at = "idle"
      /\ \A s \in Requests : s # r => request'[s] = request[s] /\ Pair(s)' = Pair(s)
      /\ \A s \in Requests : request'[s].at # "idle" => Pair(s)' \in Pairs
      /\ lapsed' = lapsed \ {r}
  BY EndFacts DEF Inv, ReleaseLock, Crash
<1>2. /\ request[r].at # "idle" /\ Pair(r) \in Pairs /\ request[r].payment \in Payments
      /\ UNCHANGED <<payment, cache, started, again>>
      /\ disturbed \subseteq disturbed' /\ disturbed' \subseteq disturbed \cup {Pair(r)}
      /\ request[r].at = "store" => Pair(r) \in disturbed'
  BY RequestFacts DEF Inv, TypeOK, ReleaseLock, Crash, Disturb
<1>3. /\ lock' \in [Payments -> Requests \cup {None}]
      /\ \A p \in Payments : lock'[p] # lock[p] => lock[p] = r
  BY <1>2 DEF Inv, TypeOK, ReleaseLock, OwnLockDeleted, Crash
<1>4. TypeOK'
  BY <1>1, <1>2, <1>3 DEF Inv, TypeOK, SettlementTypeOK, settlementVars
<1>5. ASSUME NEW s \in Requests PROVE RequestOK(s)'
  <2>1. CASE s = r
    BY <2>1, <1>1 DEF Inv, RequestOK, At0
  <2>2. CASE s # r
    <3>1. request[s].at # "idle" => request[s].payment \in Payments
      BY RequestFacts DEF Inv
    <3>2. request[s].at # "idle" /\ s \notin lapsed =>
            lock'[request[s].payment] = lock[request[s].payment]
      BY <2>2, <1>3, <3>1 DEF Inv, RequestOK
    <3>3. QED
      BY <2>2, <1>1, <1>2, <3>1, <3>2 DEF Inv, RequestOK, settlementVars
  <2>3. QED
    BY <2>1, <2>2
<1>6. ASSUME NEW pair \in Pairs PROVE PairOK(pair)'
  <2>1. CASE \E s \in Requests : request[s].at = "store" /\ Pair(s) = pair
    <3>1. PICK s \in Requests : request[s].at = "store" /\ Pair(s) = pair
      BY <2>1
    <3>2. CASE s = r
      BY <1>2, <3>1, <3>2 DEF Inv, PairOK, settlementVars
    <3>3. CASE s # r
      BY <1>1, <1>2, <3>1, <3>3 DEF Inv, PairOK, settlementVars
    <3>4. QED
      BY <3>2, <3>3
  <2>2. CASE ~ \E s \in Requests : request[s].at = "store" /\ Pair(s) = pair
    BY <1>2, <2>2 DEF Inv, PairOK, settlementVars
  <2>3. QED
    BY <2>1, <2>2
<1>7. QED
  BY <1>2, <1>4, <1>5, <1>6 DEF Inv, SettledOK, settlementVars

LEMMA LockExpiresInv ==
  ASSUME Inv, NEW p \in Payments, LockExpires(p), UNCHANGED settlementVars
  PROVE  Inv'
<1> DEFINE holders == {r \in Requests : lock[p] = r /\ InSection(r, p)}
<1>1. /\ lock' = [lock EXCEPT ![p] = None]
      /\ lapsed' = lapsed \cup holders
      /\ disturbed' = disturbed \cup {Pair(r) : r \in holders}
      /\ UNCHANGED <<payment, request, cache, started, again>>
  BY DEF LockExpires
<1>2. \A r \in holders : request[r].at # "idle" /\ Pair(r) \in Pairs
  BY RequestFacts DEF Inv, InSection
<1>3. /\ lock' \in [Payments -> Requests \cup {None}]
      /\ \A q \in Payments : q # p => lock'[q] = lock[q]
  BY <1>1 DEF Inv, TypeOK
<1>4. TypeOK'
  BY <1>1, <1>2, <1>3 DEF Inv, TypeOK, SettlementTypeOK, settlementVars, Pair
<1>5. ASSUME NEW r \in Requests PROVE RequestOK(r)'
  <2>1. request[r].at # "idle" => request[r].payment \in Payments
    BY RequestFacts DEF Inv
  <2>2. CASE r \in holders
    BY <1>1, <1>2, <2>2 DEF Inv, RequestOK, settlementVars, Pair
  <2>3. CASE r \notin holders
    <3>1. request[r].at # "idle" /\ r \notin lapsed => request[r].payment # p
      BY <2>3 DEF Inv, RequestOK, InSection
    <3>2. QED
      BY <1>1, <1>3, <2>1, <2>3, <3>1 DEF Inv, RequestOK, settlementVars, Pair
  <2>4. QED
    BY <2>2, <2>3
<1>6. ASSUME NEW pair \in Pairs PROVE PairOK(pair)'
  BY <1>1 DEF Inv, PairOK, settlementVars, Pair
<1>7. QED
  BY <1>1, <1>4, <1>5, <1>6 DEF Inv, SettledOK, settlementVars

LEMMA OtherInv ==
  ASSUME Inv, UNCHANGED settlementVars,
         (\E pair \in cache : KeyExpires(pair)) \/ \E p \in Payments : CancelPayment(p)
  PROVE  Inv'
<1>1. /\ UNCHANGED <<settlementVars, lock, request, lapsed, started, again>>
      /\ disturbed \subseteq disturbed' /\ disturbed' \subseteq disturbed \cup cache
      /\ cache' \subseteq cache /\ cache \ cache' \subseteq disturbed'
      /\ payment' \in [Payments -> PaymentStatus]
  BY DEF Inv, TypeOK, PaymentStatus, KeyExpires, CancelPayment
<1>2. TypeOK'
  BY <1>1 DEF Inv, TypeOK, SettlementTypeOK, settlementVars, Pair
<1>3. ASSUME NEW r \in Requests PROVE RequestOK(r)'
  BY <1>1 DEF Inv, RequestOK, settlementVars, Pair
<1>4. ASSUME NEW pair \in Pairs PROVE PairOK(pair)'
  BY <1>1 DEF Inv, PairOK, settlementVars, Pair
<1>5. QED
  BY <1>1, <1>2, <1>3, <1>4 DEF Inv, SettledOK, settlementVars

LEMMA NextInv == Inv /\ [Next]_vars => Inv'
<1> SUFFICES ASSUME Inv, [Next]_vars PROVE Inv'
  OBVIOUS
<1>1. CASE SettlementNext /\ UNCHANGED confirmVars
  BY <1>1, SettlementStep
<1>2. ASSUME NEW r \in Requests, Confirm(r), UNCHANGED settlementVars PROVE Inv'
  BY <1>2, AcquireInv, GetKeyInv, ReadInv, StartInv, SetKeyInv, FailInv, EndInv DEF Confirm
<1>3. ASSUME NEW p \in Payments, LockExpires(p), UNCHANGED settlementVars PROVE Inv'
  BY <1>3, LockExpiresInv
<1>4. CASE UNCHANGED vars
  BY <1>4 DEF vars, settlementVars, confirmVars, Inv, TypeOK, SettlementTypeOK, SettledOK,
              RequestOK, PairOK, Pair
<1>5. QED
  BY <1>1, <1>2, <1>3, <1>4, OtherInv DEF Next, ConfirmNext

LEMMA Always == Spec => []Inv
<1>1. Init => Inv
  BY InitInv
<1>2. Inv /\ [Next]_vars => Inv'
  BY NextInv
<1>3. QED
  BY <1>1, <1>2, PTL DEF Spec

-----------------------------------------------------------------------------
(* The theorems.                                                           *)

\* Every reachable state is well typed.
THEOREM TypeCorrect == Spec => []TypeOK
<1>1. Inv => TypeOK
  BY DEF Inv
<1>2. QED
  BY <1>1, Always, PTL

\* Two requests share the section of a payment only after the lock ran out
\* under one of them, however many there are and whatever Redis loses.
THEOREM Exclusion == Spec => []LocksExclude
<1>1. Inv => LocksExclude
  BY DEF Inv, RequestOK, LocksExclude, InSection
<1>2. QED
  BY <1>1, Always, PTL

\* A workflow is started a second time only for a pair whose lock, key, answer
\* or server was lost.
THEOREM OnceUnlessDisturbed == Spec => []SubmittedOnce
<1>1. Inv => SubmittedOnce
  BY DEF Inv, SubmittedOnce
<1>2. QED
  BY <1>1, Always, PTL

\* A confirmation is submitted only for a transfer that is COMMITTED and on the
\* ledger, and a stored answer stands for a started workflow.
THEOREM SubmissionsBacked == Spec => []SubmissionBacked
<1>1. ASSUME Inv, NEW pair \in started PROVE tx[pair[2]] = "COMMITTED" /\ pair[2] \in posted
  <2>1. pair \in Pairs /\ pair[2] \in Transfers
    BY <1>1 DEF Inv, TypeOK, Pairs
  <2>2. QED
    BY <1>1, <2>1 DEF Inv, PairOK, SettledOK
<1>2. Inv => SubmissionBacked
  BY <1>1 DEF Inv, SubmissionBacked
<1>3. QED
  BY <1>2, Always, PTL
=============================================================================
