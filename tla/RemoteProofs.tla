---------------------------- MODULE RemoteProofs ----------------------------
(***************************************************************************)
(* What the system promises about services and agents it does not control, *)
(* for every value of the constants.  What the breaker counts is what it   *)
(* has been told.  A call under a RetryPolicy ends with an answer or a     *)
(* final error, its requests carry the whole conversation, and a stream    *)
(* that it opened delivers what the service sent (engine/resilience.go,    *)
(* providers/).  A task that is delegated brings its artifacts in order    *)
(* and without gaps, and a dispatch notifies the right webhooks (a2a/).    *)
(* Three specifications that share no variable, and the lemmas about       *)
(* concatenated and filtered sequences they need.                          *)
(***************************************************************************)
EXTENDS ModelCall, CircuitBreaker, Delegation, SequenceTheorems, NaturalsInduction,
        WellFoundedInduction, TLAPS

-----------------------------------------------------------------------------
(* The breaker *)

\* While the breaker is closed the counter is the streak of failures; in the
\* other states it lags behind it.  The two parts need each other: the type bound
\* of the counter makes the closed case exact, and exactness keeps the counter
\* below the streak.
Counting ==
    /\ BreakerTypeOK
    /\ failures <= streak
    /\ state = "Closed" => failures = streak

\* Every call of Allow, RecordSuccess and RecordFailure keeps the counter in
\* step with the failures that were reported (resilience.go:102-138).
LEMMA CountingInductive == BreakerSpec => []Counting
<1> USE BreakerAssumption DEF Counting, BreakerTypeOK, cbStates
<1>1. BreakerInit => Counting
  <2> SUFFICES ASSUME BreakerInit PROVE Counting
    OBVIOUS
  <2>1. timedOut \in BOOLEAN /\ healthy \in BOOLEAN
    BY Zenon DEF BreakerInit
  <2>2. 0 \in 0 .. Threshold - 1 /\ 0 \in 0..Threshold
    OBVIOUS
  <2> QED BY <2>1, <2>2 DEF BreakerInit
<1>2. Counting /\ [BreakerNext]_breakerVars => Counting'
  <2> SUFFICES ASSUME Counting, [BreakerNext]_breakerVars PROVE Counting'
    OBVIOUS
  <2>1. ASSUME NEW c \in Clients, Allow(c) PROVE Counting'
    <3>1. state' \in cbStates /\ (state' = "Closed" => state = "Closed")
      BY <2>1 DEF Allow
    <3> QED BY <2>1, <3>1 DEF Allow
  <2>2. ASSUME NEW c \in Clients, RecordSuccess(c) PROVE Counting'
    BY <2>2 DEF RecordSuccess
  <2>3. ASSUME NEW c \in Clients, RecordFailure(c) PROVE Counting'
    <3>1. /\ streak' \in 0..Threshold
          /\ streak < Threshold => streak' = streak + 1
          /\ streak' >= streak
      BY <2>3 DEF RecordFailure
    <3>2. CASE Opens
      <4>1. timedOut' \in BOOLEAN
        BY <2>3, <3>2, Zenon DEF RecordFailure
      <4> QED BY <2>3, <3>1, <3>2, <4>1 DEF RecordFailure
    <3>3. CASE ~Opens
      BY <2>3, <3>1, <3>3 DEF RecordFailure, Opens
    <3> QED BY <3>2, <3>3
  <2>4. CASE Elapse
    BY <2>4 DEF Elapse
  <2>5. CASE Weather
    BY <2>5 DEF Weather
  <2>6. CASE UNCHANGED breakerVars
    BY <2>6 DEF breakerVars
  <2> QED BY <2>1, <2>2, <2>3, <2>4, <2>5, <2>6 DEF BreakerNext
<1> QED BY <1>1, <1>2, PTL DEF BreakerSpec

\* The breaker's counter stays below the threshold (resilience.go:133).
THEOREM BreakerTypeCorrect == BreakerSpec => []BreakerTypeOK
  BY CountingInductive, PTL DEF Counting

\* A closed breaker has been told of fewer than Threshold failures since the
\* last success, whatever the delay and order of the reports.
THEOREM ClosedBelowThreshold == BreakerSpec => []ClosedMeansFewFailures
<1>1. Counting => ClosedMeansFewFailures
  BY BreakerAssumption DEF Counting, BreakerTypeOK,
                           ClosedMeansFewFailures
<1> QED BY <1>1, CountingInductive, PTL

-----------------------------------------------------------------------------
(* Concatenation.  The induction theorems of the library cannot be           *)
(* instantiated here, so that induction goes over a set of numbers.          *)

LEMMA NumbersFromZero ==
    ASSUME NEW S, 0 \in S, \A n \in Nat : n \in S => n + 1 \in S
    PROVE  \A n \in Nat : n \in S
<1> DEFINE R == OpToRel(<, Nat)
           T == Nat \ S
<1> SUFFICES ASSUME T # {} PROVE FALSE
  OBVIOUS
<1>1. IsWellFoundedOn(R, Nat)
  BY NatLessThanWellFounded
<1>2. \E x \in T : \A y \in T : ~(<<y, x>> \in R)
  <2>1. T \subseteq Nat
    BY DEF T
  <2> HIDE DEF R, T
  <2> QED BY <1>1, <2>1, WFMin
<1>3. PICK x \in T : \A y \in T : ~(<<y, x>> \in R)
  BY <1>2
<1>4. x \in Nat /\ x # 0
  OBVIOUS
<1>5. x - 1 \in Nat /\ x - 1 < x /\ (x - 1) + 1 = x
  BY <1>4
<1>6. x - 1 \in T
  BY <1>4, <1>5
<1>7. <<x - 1, x>> \in R
  BY <1>4, <1>5 DEF OpToRel
<1> QED BY <1>3, <1>6, <1>7

\* f concatenates the first elements of s, for every number of them up to n.
Flattens(f, s, n) == f = [i \in 1..n |-> IF i = 1 THEN s[i] ELSE f[i - 1] \o s[i]]

LEMMA FlattensAt ==
    ASSUME NEW f, NEW s, NEW n, Flattens(f, s, n), NEW i \in 1..n
    PROVE  f[i] = IF i = 1 THEN s[i] ELSE f[i - 1] \o s[i]
<1> DEFINE F == [j \in 1..n |-> IF j = 1 THEN s[j] ELSE f[j - 1] \o s[j]]
<1>1. F[i] = IF i = 1 THEN s[i] ELSE f[i - 1] \o s[i]
  OBVIOUS
<1>2. f = F
  BY DEF Flattens
<1> HIDE DEF F
<1> QED BY <1>1, <1>2

LEMMA FlattensExists ==
    ASSUME NEW s, NEW n \in Nat
    PROVE  \E f : Flattens(f, s, n)
<1> DEFINE S == {m \in Nat : \E f : Flattens(f, s, m)}
<1>1. 0 \in S
  <2>1. Flattens(<<>>, s, 0)
    BY DEF Flattens
  <2> QED BY <2>1
<1>2. ASSUME NEW m \in Nat, m \in S PROVE m + 1 \in S
  <2>1. PICK f : Flattens(f, s, m)
    BY <1>2
  <2> DEFINE g == [i \in 1..(m + 1) |->
                     IF i <= m THEN f[i]
                     ELSE IF i = 1 THEN s[i] ELSE f[i - 1] \o s[i]]
  <2>2. \A i \in 1..(m + 1) : g[i] = IF i = 1 THEN s[i] ELSE g[i - 1] \o s[i]
    <3> SUFFICES ASSUME NEW i \in 1..(m + 1)
                 PROVE  g[i] = IF i = 1 THEN s[i] ELSE g[i - 1] \o s[i]
      OBVIOUS
    <3>1. i # 1 => i - 1 \in 1..m /\ g[i - 1] = f[i - 1]
      OBVIOUS
    <3>2. i <= m => f[i] = IF i = 1 THEN s[i] ELSE f[i - 1] \o s[i]
      BY <2>1, FlattensAt
    <3>3. g[i] = IF i = 1 THEN s[i] ELSE f[i - 1] \o s[i]
      BY <3>2
    <3> HIDE DEF g
    <3> QED BY <3>1, <3>3
  <2>3. Flattens(g, s, m + 1)
    <3>1. g = [i \in 1..(m + 1) |-> g[i]]
      OBVIOUS
    <3> HIDE DEF g
    <3> QED BY <2>2, <3>1 DEF Flattens
  <2> QED BY <2>3
<1> HIDE DEF S
<1>3. \A m \in Nat : m \in S
  BY <1>1, <1>2, NumbersFromZero
<1> QED BY <1>3 DEF S

LEMMA FlattensAgree ==
    ASSUME NEW s, NEW t, NEW n \in Nat, NEW k \in Nat, n <= k, NEW f, NEW g,
           \A i \in 1..n : t[i] = s[i], Flattens(f, s, n), Flattens(g, t, k)
    PROVE  \A i \in 1..n : f[i] = g[i]
<1> DEFINE S == {m \in Nat : m \in 1..n => f[m] = g[m]}
<1>1. 0 \in S
  OBVIOUS
<1>2. ASSUME NEW m \in Nat, m \in S PROVE m + 1 \in S
  <2> SUFFICES ASSUME m + 1 \in 1..n PROVE f[m + 1] = g[m + 1]
    OBVIOUS
  <2>0. (m + 1) - 1 = m /\ m + 1 \in 1..k
    OBVIOUS
  <2>1. f[m + 1] = IF m + 1 = 1 THEN s[m + 1] ELSE f[m] \o s[m + 1]
    BY <2>0, FlattensAt
  <2>2. g[m + 1] = IF m + 1 = 1 THEN t[m + 1] ELSE g[m] \o t[m + 1]
    BY <2>0, FlattensAt
  <2>3. m + 1 # 1 => f[m] = g[m]
    BY <1>2
  <2> QED BY <2>1, <2>2, <2>3
<1> HIDE DEF S
<1>3. \A m \in Nat : m \in S
  BY <1>1, <1>2, NumbersFromZero
<1> QED BY <1>3 DEF S

\* FlattenSeq is the last of them.
LEMMA FlattenIsLast ==
    ASSUME NEW X, NEW s \in Seq(X), Len(s) # 0
    PROVE  \E f : Flattens(f, s, Len(s)) /\ FlattenSeq(s) = f[Len(s)]
<1> DEFINE all == CHOOSE f : Flattens(f, s, Len(s))
<1>1. Flattens(all, s, Len(s))
  <2>1. Len(s) \in Nat
    OBVIOUS
  <2>2. \E f : Flattens(f, s, Len(s))
    BY <2>1, FlattensExists
  <2> QED BY <2>2, Zenon
<1>2. FlattenSeq(s) = all[Len(s)]
  BY DEF FlattenSeq, Flattens
<1> QED BY <1>1, <1>2

\* One element more is one piece more at the end.
LEMMA FlattenGrows ==
    ASSUME NEW X, NEW s \in Seq(X), NEW t \in Seq(X), Len(t) = Len(s) + 1,
           \A i \in 1..Len(s) : t[i] = s[i]
    PROVE  FlattenSeq(t) = IF s = <<>> THEN t[1] ELSE FlattenSeq(s) \o t[Len(t)]
<1> DEFINE n == Len(s)
<1>1. n \in Nat /\ Len(t) # 0 /\ n + 1 # 0
  OBVIOUS
<1>2. PICK g : Flattens(g, t, n + 1) /\ FlattenSeq(t) = g[n + 1]
  BY <1>1, FlattenIsLast
<1>3. g[n + 1] = IF n + 1 = 1 THEN t[n + 1] ELSE g[n] \o t[n + 1]
  <2>1. (n + 1) - 1 = n /\ n + 1 \in 1..(n + 1)
    BY <1>1
  <2> HIDE DEF n
  <2> QED BY <1>2, <2>1, FlattensAt
<1>4. CASE n = 0
  BY <1>2, <1>3, <1>4
<1>5. CASE n # 0
  <2>1. PICK f : Flattens(f, s, n) /\ FlattenSeq(s) = f[n]
    BY <1>5, FlattenIsLast
  <2>2. f[n] = g[n]
    <3> DEFINE k == n + 1
    <3>1. n \in Nat /\ k \in Nat /\ n <= k /\ n \in 1..n /\ \A i \in 1..n : t[i] = s[i]
      BY <1>1, <1>5
    <3>2. Flattens(f, s, n) /\ Flattens(g, t, k)
      BY <1>2, <2>1
    <3> HIDE DEF n, k
    <3>3. \A i \in 1..n : f[i] = g[i]
      BY ONLY <3>1, <3>2, FlattensAgree
    <3> QED BY <3>1, <3>3
  <2>3. s # <<>> /\ n + 1 # 1
    BY <1>5
  <2> QED BY <1>2, <1>3, <2>1, <2>2, <2>3
<1> QED BY <1>4, <1>5
LEMMA FlattenOne ==
    ASSUME NEW X, NEW t \in Seq(X), Len(t) = 1
    PROVE  FlattenSeq(t) = t[1]
<1> DEFINE s == <<>>
<1>1. s \in Seq(X) /\ Len(s) = 0 /\ Len(t) = Len(s) + 1 /\ \A i \in 1..Len(s) : t[i] = s[i]
  OBVIOUS
<1>2. s = <<>>
  OBVIOUS
<1> HIDE DEF s
<1> QED BY <1>1, <1>2, FlattenGrows
-----------------------------------------------------------------------------
(* RetryPolicy and FallbackChainProvider *)

CallShape ==
    /\ pc \in [Callers -> {"idle", "try", "wire", "doomed", "backoff", "stream", "done"}]
    /\ budget \in [Callers -> Nat]
    /\ attempt \in [Callers -> Nat]
    /\ pos \in [Callers -> 1..(Len(Chain) + 1)]
    /\ ret = [c \in Callers |-> ret[c]]
    /\ asked \in [Callers -> [1..Len(Chain) -> Nat]]

\* The call of c has asked every provider once in every attempt that is over, and
\* those up to the present one, without it or with it, once more.
Asked(c) ==
    /\ pc[c] \in {"idle", "done"} => attempt[c] = 0 /\ pos[c] = 1
    /\ pc[c] = "try" =>
          \A i \in 1..Len(Chain) :
              asked[c][i] = IF i < pos[c] THEN attempt[c] + 1 ELSE attempt[c]
    /\ pc[c] \in {"wire", "doomed"} =>
          /\ pos[c] <= Len(Chain)
          /\ \A i \in 1..Len(Chain) :
                asked[c][i] = IF i <= pos[c] THEN attempt[c] + 1 ELSE attempt[c]
    /\ pc[c] = "backoff" => \A i \in 1..Len(Chain) : asked[c][i] = attempt[c] + 1

\* What AnswerOrError says of one caller.
Final(c) ==
    pc[c] = "done" =>
        /\ ret[c].err # "Retriable"
        /\ ret[c].err = "nil" => ret[c].answer.from # "none" \/ budget[c] = 0
        /\ ret[c].err = "escalated" => \A i \in 1..Len(Chain) : asked[c][i] = budget[c]

CallInv == CallShape /\ \A c \in Callers : Asked(c) /\ Final(c)

LEMMA ChainLength == Len(Chain) \in Nat /\ \A i \in 1..Len(Chain) : Chain[i] \in Providers
BY ModelCallAssumption DEF Providers

\* One call moves; the others rest.
LEMMA OneCall ==
    ASSUME CallInv, CallShape', NEW c \in Callers, Asked(c)', Final(c)',
           \A d \in Callers \ {c} :
               /\ pc'[d] = pc[d] /\ budget'[d] = budget[d] /\ attempt'[d] = attempt[d]
               /\ pos'[d] = pos[d] /\ ret'[d] = ret[d] /\ asked'[d] = asked[d]
    PROVE  CallInv'
<1>1. ASSUME NEW d \in Callers \ {c} PROVE Asked(d)' /\ Final(d)'
  <2>1. Asked(d) /\ Final(d)
    BY DEF CallInv
  <2> QED BY <1>1, <2>1 DEF Asked, Final
<1> QED BY <1>1 DEF CallInv

\* A call that returns forgets where it was (resilience.go:36-48).
LEMMA ReturnKeeps ==
    ASSUME CallInv, NEW c \in Callers, NEW at \in {"done", "stream"}, NEW err, NEW answer,
           Return(c, at, err, answer),
           budget' \in [Callers -> Nat], asked' \in [Callers -> [1..Len(Chain) -> Nat]],
           \A d \in Callers \ {c} : budget'[d] = budget[d] /\ asked'[d] = asked[d],
           err # "Retriable",
           err = "nil" => answer.from # "none" \/ budget'[c] = 0,
           err = "escalated" => \A i \in 1..Len(Chain) : asked'[c][i] = budget'[c]
    PROVE  CallInv'
<1>1. /\ pc' = [pc EXCEPT ![c] = at] /\ attempt' = [attempt EXCEPT ![c] = 0]
      /\ pos' = [pos EXCEPT ![c] = 1]
      /\ ret' = [ret EXCEPT ![c] = [err |-> err, answer |-> answer]]
  BY DEF Return
<1>2. CallShape'
  <2>1. /\ pc' \in [Callers -> {"idle", "try", "wire", "doomed", "backoff", "stream", "done"}]
        /\ attempt' \in [Callers -> Nat] /\ pos' \in [Callers -> 1..(Len(Chain) + 1)]
    BY <1>1, ChainLength DEF CallInv, CallShape
  <2>2. ret' = [d \in Callers |-> ret'[d]]
    BY <1>1 DEF CallInv, CallShape
  <2> QED BY <2>1, <2>2 DEF CallShape
<1>3. /\ pc'[c] = at /\ attempt'[c] = 0 /\ pos'[c] = 1
      /\ ret'[c].err = err /\ ret'[c].answer = answer
  BY <1>1 DEF CallInv, CallShape
<1>4. Asked(c)'
  BY <1>3 DEF Asked
<1>5. Final(c)'
  BY <1>3 DEF Final
<1>6. \A d \in Callers \ {c} : /\ pc'[d] = pc[d] /\ attempt'[d] = attempt[d]
                               /\ pos'[d] = pos[d] /\ ret'[d] = ret[d]
  BY <1>1 DEF CallInv, CallShape
<1> QED BY <1>2, <1>4, <1>5, <1>6, OneCall

\* A provider that failed was asked, and the next one is not yet (fallback.go:26-58).
LEMMA FailKeeps ==
    ASSUME CallInv, NEW c \in Callers, NEW err, ProviderFails(c, err),
           budget' = budget, asked' \in [Callers -> [1..Len(Chain) -> Nat]],
           \A d \in Callers \ {c} : asked'[d] = asked[d],
           pos[c] <= Len(Chain),
           \A i \in 1..Len(Chain) :
               asked'[c][i] = IF i <= pos[c] THEN attempt[c] + 1 ELSE attempt[c]
    PROVE  CallInv'
<1>1. CASE err = "Fatal"
  <2>1. Return(c, "done", "Fatal", NoAnswer)
    BY <1>1 DEF ProviderFails
  <2>2. budget' \in [Callers -> Nat]
    BY DEF CallInv, CallShape
  <2> QED BY <2>1, <2>2, ReturnKeeps
<1>2. CASE err # "Fatal"
  <2>1. /\ pc' = [pc EXCEPT ![c] = "try"] /\ pos' = [pos EXCEPT ![c] = @ + 1]
        /\ UNCHANGED <<ret, attempt>>
    BY <1>2 DEF ProviderFails, Continue
  <2>2. pos[c] \in Nat /\ pos[c] + 1 \in 1..(Len(Chain) + 1)
    BY ChainLength DEF CallInv, CallShape
  <2>3. CallShape'
    BY <2>1, <2>2 DEF CallInv, CallShape
  <2>4. pc'[c] = "try" /\ pos'[c] = pos[c] + 1
    BY <2>1 DEF CallInv, CallShape
  <2>5. Asked(c)'
    <3>1. ASSUME NEW i \in 1..Len(Chain)
          PROVE  asked'[c][i] = IF i < pos'[c] THEN attempt'[c] + 1 ELSE attempt'[c]
      <4>1. asked'[c][i] = IF i <= pos[c] THEN attempt[c] + 1 ELSE attempt[c]
        OBVIOUS
      <4>2. i < pos'[c] <=> i <= pos[c]
        BY <2>2, <2>4, ChainLength
      <4>3. attempt'[c] = attempt[c]
        BY <2>1
      <4> QED BY ONLY <4>1, <4>2, <4>3
    <3> QED BY <2>4, <3>1 DEF Asked
  <2>6. Final(c)'
    BY <2>4 DEF Final
  <2> QED BY <2>1, <2>3, <2>5, <2>6, OneCall DEF CallInv, CallShape
<1> QED BY <1>1, <1>2

\* The present provider is asked once.
LEMMA AskingCounts ==
    ASSUME CallInv, NEW c \in Callers, pc[c] = "try", pos[c] <= Len(Chain), Asking(c)
    PROVE  /\ asked' \in [Callers -> [1..Len(Chain) -> Nat]]
           /\ \A d \in Callers \ {c} : asked'[d] = asked[d]
           /\ \A i \in 1..Len(Chain) :
                 asked'[c][i] = IF i <= pos[c] THEN attempt[c] + 1 ELSE attempt[c]
<1> DEFINE k == pos[c]
           row == [asked[c] EXCEPT ![k] = @ + 1]
<1>1. k \in 1..Len(Chain) /\ asked[c] \in [1..Len(Chain) -> Nat] /\ attempt[c] \in Nat
  BY ChainLength DEF CallInv, CallShape
<1>2. asked' = [asked EXCEPT ![c] = row]
  BY DEF Asking
<1>3. /\ row \in [1..Len(Chain) -> Nat]
      /\ \A i \in 1..Len(Chain) : row[i] = IF i = k THEN asked[c][i] + 1 ELSE asked[c][i]
  BY <1>1
<1>4. \A i \in 1..Len(Chain) : asked[c][i] = IF i < k THEN attempt[c] + 1 ELSE attempt[c]
  BY DEF CallInv, Asked
<1> HIDE DEF row
<1>5. asked' \in [Callers -> [1..Len(Chain) -> Nat]] /\ asked'[c] = row
  BY <1>2, <1>3 DEF CallInv, CallShape
<1>6. \A d \in Callers \ {c} : asked'[d] = asked[d]
  BY <1>2 DEF CallInv, CallShape
<1>7. \A i \in 1..Len(Chain) :
         asked'[c][i] = IF i <= k THEN attempt[c] + 1 ELSE attempt[c]
  BY <1>1, <1>3, <1>4, <1>5, ChainLength
<1> QED BY <1>5, <1>6, <1>7

\* The answer of a provider is somebody's.
LEMMA AnswerIsFrom ==
    ASSUME CallInv, NEW c \in Callers, pc[c] \in {"wire", "doomed"}
    PROVE  Chain[pos[c]] \in Providers
<1>1. pos[c] \in 1..Len(Chain)
  BY ChainLength DEF CallInv, CallShape, Asked
<1> QED BY <1>1, ChainLength

\* Attempts and fallbacks nest as the loops say, though breakers refuse, requests
\* fail and callers cancel (resilience.go:31-68, fallback.go:26-58).
LEMMA CallsInductive == Spec => []CallInv
<1>1. Init => CallInv
  BY ChainLength DEF Init, CallInv, CallShape, Asked, Final
<1>2. CallInv /\ [Next]_vars => CallInv'
  <2> SUFFICES ASSUME CallInv, [Next]_vars PROVE CallInv'
    OBVIOUS
  <2>1. CASE UNCHANGED <<pc, budget, attempt, pos, ret, asked>>
    BY <2>1 DEF CallInv, CallShape, Asked, Final
  <2>2. ASSUME NEW c \in Callers, NEW n \in Policies[c], NEW stream \in BOOLEAN,
               Begin(c, n, stream)
        PROVE  CallInv'
    <3>1. /\ pc[c] = "idle" /\ n \in Nat
          /\ budget' = [budget EXCEPT ![c] = n]
          /\ asked' = [asked EXCEPT ![c] = [i \in 1..Len(Chain) |-> 0]]
      BY <2>2, ModelCallAssumption DEF Begin
    <3>2. /\ budget' \in [Callers -> Nat] /\ budget'[c] = n
          /\ asked' \in [Callers -> [1..Len(Chain) -> Nat]]
          /\ \A i \in 1..Len(Chain) : asked'[c][i] = 0
          /\ \A d \in Callers \ {c} : budget'[d] = budget[d] /\ asked'[d] = asked[d]
      BY <3>1 DEF CallInv, CallShape
    <3>3. CASE n = 0
      <4>1. Return(c, "done", "nil", NoAnswer)
        BY <2>2, <3>3 DEF Begin
      <4> QED BY <3>2, <3>3, <4>1, ReturnKeeps
    <3>4. CASE n # 0
      <4>1. pc' = [pc EXCEPT ![c] = "try"] /\ UNCHANGED <<ret, attempt, pos>>
        BY <2>2, <3>4 DEF Begin, Continue
      <4>2. CallShape' /\ pc'[c] = "try"
        BY <3>2, <4>1 DEF CallInv, CallShape
      <4>3. attempt[c] = 0 /\ pos[c] = 1
        BY <3>1 DEF CallInv, Asked
      <4>4. Asked(c)' /\ Final(c)'
        BY <3>2, <4>1, <4>2, <4>3 DEF Asked, Final
      <4> QED BY <3>2, <4>1, <4>2, <4>4, OneCall DEF CallInv, CallShape
    <3> QED BY <3>3, <3>4
  <2>3. ASSUME NEW c \in Callers, Exhausted(c) PROVE CallInv'
    <3>1. /\ pc[c] = "try" /\ pos[c] > Len(Chain) /\ UNCHANGED <<budget, asked>>
      BY <2>3 DEF Exhausted
    <3>2. /\ budget' \in [Callers -> Nat] /\ asked' \in [Callers -> [1..Len(Chain) -> Nat]]
          /\ attempt[c] \in Nat /\ budget[c] \in Nat /\ pos[c] \in Nat
      BY <3>1, ChainLength DEF CallInv, CallShape
    <3>3. \A i \in 1..Len(Chain) : asked[c][i] = attempt[c] + 1
      BY <3>1, <3>2, ChainLength DEF CallInv, Asked
    <3>4. CASE lastErr[c] # "Retriable"
      <4>1. Return(c, "done", "plain", NoAnswer)
        BY <2>3, <3>4 DEF Exhausted
      <4> QED BY <3>1, <3>2, <4>1, ReturnKeeps
    <3>5. CASE lastErr[c] = "Retriable" /\ attempt[c] = budget[c] - 1
      <4>1. Return(c, "done", "escalated", NoAnswer)
        BY <2>3, <3>5 DEF Exhausted
      <4>2. \A i \in 1..Len(Chain) : asked'[c][i] = budget'[c]
        BY <3>1, <3>2, <3>3, <3>5
      <4> QED BY <3>1, <3>2, <4>1, <4>2, ReturnKeeps
    <3>6. CASE lastErr[c] = "Retriable" /\ attempt[c] # budget[c] - 1
      <4>1. pc' = [pc EXCEPT ![c] = "backoff"] /\ UNCHANGED <<ret, attempt, pos>>
        BY <2>3, <3>6 DEF Exhausted, Continue
      <4>2. CallShape' /\ pc'[c] = "backoff"
        BY <3>1, <4>1 DEF CallInv, CallShape
      <4>3. Asked(c)' /\ Final(c)'
        BY <3>1, <3>3, <4>1, <4>2 DEF Asked, Final
      <4> QED BY <3>1, <4>1, <4>2, <4>3, OneCall DEF CallInv, CallShape
    <3> QED BY <3>4, <3>5, <3>6
  <2>4. ASSUME NEW c \in Callers, Retry(c) PROVE CallInv'
    <3>1. /\ pc[c] = "backoff" /\ pc' = [pc EXCEPT ![c] = "try"]
          /\ attempt' = [attempt EXCEPT ![c] = @ + 1] /\ pos' = [pos EXCEPT ![c] = 1]
          /\ UNCHANGED <<ret, budget, asked>>
      BY <2>4 DEF Retry, Continue
    <3>2. CallShape' /\ pc'[c] = "try" /\ attempt'[c] = attempt[c] + 1 /\ pos'[c] = 1
      BY <3>1, ChainLength DEF CallInv, CallShape
    <3>3. \A i \in 1..Len(Chain) : asked[c][i] = attempt[c] + 1
      BY <3>1 DEF CallInv, Asked
    <3>4. Asked(c)' /\ Final(c)'
      BY <3>1, <3>2, <3>3, ChainLength DEF Asked, Final
    <3> QED BY <3>1, <3>2, <3>4, OneCall DEF CallInv, CallShape
  <2>5. ASSUME NEW c \in Callers, RetryCancelled(c) PROVE CallInv'
    <3>1. /\ Return(c, "done", "ctx", NoAnswer) /\ UNCHANGED <<budget, asked>>
      BY <2>5 DEF RetryCancelled
    <3> QED BY <3>1, ReturnKeeps DEF CallInv, CallShape
  <2>6. ASSUME NEW c \in Callers, Unbuildable(c) PROVE CallInv'
    <3>1. /\ pc[c] = "try" /\ pos[c] <= Len(Chain) /\ Asking(c) /\ budget' = budget
          /\ ProviderFails(c, "Fatal")
      BY <2>6 DEF Unbuildable
    <3> QED BY <3>1, AskingCounts, FailKeeps
  <2>7. ASSUME NEW c \in Callers, Send(c) PROVE CallInv'
    <3>1. pc[c] = "try" /\ pos[c] <= Len(Chain) /\ Asking(c) /\ budget' = budget
      BY <2>7 DEF Send
    <3>2. CASE ~Admits(Chain[pos[c]])
      <4>1. ProviderFails(c, "Retriable")
        BY <2>7, <3>2 DEF Send
      <4> QED BY <3>1, <4>1, AskingCounts, FailKeeps
    <3>3. CASE Admits(Chain[pos[c]])
      <4> DEFINE at == IF cancelled[c] THEN "doomed" ELSE "wire"
      <4>1. pc' = [pc EXCEPT ![c] = at] /\ UNCHANGED <<attempt, pos, ret>>
        BY <2>7, <3>3 DEF Send
      <4>2. at \in {"doomed", "wire"}
        OBVIOUS
      <4> HIDE DEF at
      <4>3. CallShape' /\ pc'[c] = at
        BY <3>1, <4>1, <4>2, AskingCounts DEF CallInv, CallShape
      <4>4. Asked(c)' /\ Final(c)'
        BY <3>1, <4>1, <4>2, <4>3, AskingCounts DEF Asked, Final
      <4>5. \A d \in Callers \ {c} : asked'[d] = asked[d]
        BY <3>1, AskingCounts
      <4> QED BY <3>1, <4>1, <4>3, <4>4, <4>5, OneCall DEF CallInv, CallShape
    <3> QED BY <3>2, <3>3
  <2>8. ASSUME NEW c \in Callers, NEW err, pc[c] \in {"wire", "doomed"},
               ProviderFails(c, err), UNCHANGED <<budget, asked>>
        PROVE  CallInv'
    <3>1. /\ pos[c] <= Len(Chain) /\ asked' \in [Callers -> [1..Len(Chain) -> Nat]]
          /\ \A i \in 1..Len(Chain) :
                asked'[c][i] = IF i <= pos[c] THEN attempt[c] + 1 ELSE attempt[c]
      BY <2>8 DEF CallInv, CallShape, Asked
    <3> QED BY <2>8, <3>1, FailKeeps
  <2>9. ASSUME NEW c \in Callers, NEW status,
               TransportFails(c) \/ StatusError(c, status) \/ BadBody(c)
        PROVE  CallInv'
    <3>1. PICK err : /\ ProviderFails(c, err) /\ pc[c] \in {"wire", "doomed"}
                     /\ UNCHANGED <<budget, asked>>
      <4>1. CASE TransportFails(c)
        BY <4>1 DEF TransportFails
      <4>2. CASE StatusError(c, status)
        BY <4>2 DEF StatusError
      <4>3. CASE BadBody(c)
        BY <4>3 DEF BadBody
      <4> QED BY <2>9, <4>1, <4>2, <4>3
    <3> QED BY <2>8, <3>1
  <2>10. ASSUME NEW c \in Callers, NEW reply, Answer(c, reply) \/ OpenStream(c)
         PROVE  CallInv'
    <3>1. PICK at \in {"done", "stream"} : \E parts :
            /\ pc[c] = "wire"
            /\ Return(c, at, "nil", [from |-> Chain[pos[c]], parts |-> parts])
            /\ UNCHANGED <<budget, asked>>
      BY <2>10 DEF Answer, OpenStream
    <3>2. PICK parts :
            /\ pc[c] = "wire"
            /\ Return(c, at, "nil", [from |-> Chain[pos[c]], parts |-> parts])
            /\ UNCHANGED <<budget, asked>>
      BY <3>1
    <3> DEFINE answer == [from |-> Chain[pos[c]], parts |-> parts]
    <3>3. answer.from # "none"
      BY <3>2, AnswerIsFrom DEF Providers
    <3>4. budget' \in [Callers -> Nat] /\ asked' \in [Callers -> [1..Len(Chain) -> Nat]]
      BY <3>2 DEF CallInv, CallShape
    <3>5. Return(c, at, "nil", answer)
      BY <3>2
    <3>6. \A d \in Callers \ {c} : budget'[d] = budget[d] /\ asked'[d] = asked[d]
      BY <3>2
    <3> HIDE DEF answer
    <3> QED BY <3>3, <3>4, <3>5, <3>6, ReturnKeeps
  <2>11. ASSUME NEW c \in Callers, NEW together, NEW reloaded, NextTurn(c, together, reloaded)
         PROVE  CallInv'
    <3>1. /\ pc[c] = "done" /\ pc' = [pc EXCEPT ![c] = "idle"]
          /\ UNCHANGED <<budget, attempt, pos, ret, asked>>
      BY <2>11 DEF NextTurn
    <3>2. CallShape' /\ pc'[c] = "idle"
      BY <3>1 DEF CallInv, CallShape
    <3>3. Asked(c)' /\ Final(c)'
      BY <3>1, <3>2 DEF CallInv, Asked, Final
    <3> QED BY <3>1, <3>2, <3>3, OneCall DEF CallInv, CallShape
  <2>12. ASSUME NEW c \in Callers, StreamStep(c) \/ Cancel(c) \/ StopReading(c)
         PROVE  UNCHANGED <<pc, budget, attempt, pos, ret, asked>>
    BY <2>12 DEF StreamStep, ScanLine, ScanEnds, Receive, Cancel, StopReading, callVars
  <2>13. ASSUME NEW p \in Providers, Expire(p)
         PROVE  UNCHANGED <<pc, budget, attempt, pos, ret, asked>>
    BY <2>13 DEF Expire, callVars
  <2>14. UNCHANGED vars => UNCHANGED <<pc, budget, attempt, pos, ret, asked>>
    BY DEF vars, callVars
  <2> QED
    BY <2>1, <2>2, <2>3, <2>4, <2>5, <2>6, <2>7, <2>9, <2>10, <2>11, <2>12, <2>13, <2>14
       DEF Next, CallerStep
<1> QED BY <1>1, <1>2, PTL DEF Spec

\* Execute never hands the engine a missing answer without an error, unless under
\* a policy of no attempts, nor an error that is still retriable, and it gives up
\* only after it asked every provider in every attempt (resilience.go:31-68).
THEOREM CallsEndFinal == Spec => []AnswerOrError
<1>1. CallInv => AnswerOrError
  BY DEF CallInv, Final, AnswerOrError
<1> QED BY <1>1, CallsInductive, PTL
-----------------------------------------------------------------------------
(* Streams *)

Line == [event : STRING, text : STRING, calls : Seq([name : STRING, args : STRING])]
          \cup [event : STRING, text : STRING]
Call == [name : STRING, args : STRING]
Content == {<<>>} \cup {<<x>> : x \in STRING} \cup {<<"header", x>> : x \in STRING}
Delta == [type : {"Text", "ToolCall", "Done"}, content : Content]

StreamShape ==
    /\ lines \in [Callers -> Seq(Line)]
    /\ todo \in [Callers -> Seq(Delta)]
    /\ got \in [Callers -> Seq(Delta)]
    /\ errCh \in [Callers -> {"empty", "Fatal", "Retriable"}]
    /\ open \in [Callers -> BOOLEAN]

\* Everything the lines of the stream said.
Said(c) == FlattenSeq([i \in DOMAIN lines[c] |-> Whole(ret[c].answer.from, lines[c][i])])

Uncrowded(c) == \A i \in DOMAIN lines[c] : ~Crowded(lines[c][i])

\* Before its stream is opened a caller has got nothing; while it is open nothing
\* has ended it; and at any time what was said is handed over or waits.
Flow(c) ==
    /\ pc[c] # "stream" =>
          /\ lines[c] = <<>> /\ todo[c] = <<>> /\ got[c] = <<>>
          /\ ~open[c] /\ errCh[c] = "empty"
    /\ pc[c] = "stream" => ret[c].answer.from \in Providers
    /\ open[c] => errCh[c] = "empty" /\ \A i \in DOMAIN got[c] : got[c][i].type # "Done"
    /\ Uncrowded(c) => got[c] \o todo[c] = Said(c)
    /\ \A i \in DOMAIN got[c] : got[c][i].type = "Done" =>
          i = Len(got[c]) /\ ~open[c] /\ errCh[c] = "empty"

StreamInv == StreamShape /\ \A c \in Callers : Flow(c)

\* Without lines nothing was said.
LEMMA NothingSaid ==
    ASSUME NEW p
    PROVE  FlattenSeq([i \in DOMAIN <<>> |-> Whole(p, <<>>[i])]) = <<>>
<1>1. [i \in DOMAIN <<>> |-> Whole(p, <<>>[i])] = <<>>
  OBVIOUS
<1>2. Len(<<>>) = 0
  OBVIOUS
<1> QED BY <1>1, <1>2 DEF FlattenSeq

\* A line becomes a sequence of deltas.
LEMMA DeltasTyped ==
    ASSUME NEW p \in Providers, NEW line \in Lines[p]
    PROVE  Deltas(p, line) \in Seq(Delta) /\ line \in Line
<1>0. /\ \A x \in STRING : /\ [type |-> "Text", content |-> <<x>>] \in Delta
                           /\ [type |-> "ToolCall", content |-> <<x>>] \in Delta
                           /\ [type |-> "ToolCall", content |-> <<"header", x>>] \in Delta
      /\ [type |-> "Done", content |-> <<>>] \in Delta
  <2>1. /\ <<>> \in Content
        /\ \A x \in STRING : <<x>> \in Content /\ <<"header", x>> \in Content
    BY DEF Content
  <2> QED BY <2>1 DEF Delta
<1>1. CASE p = "openai"
  <2>1. /\ line \in Line /\ line.text \in STRING /\ line.calls \in Seq(Call)
    BY <1>1, ModelCallAssumption DEF Line, Call
  <2> DEFINE call == Head(line.calls)
             text == [type |-> "Text", content |-> <<line.text>>]
             said == [type |-> "ToolCall",
                      content |-> IF call.name # "" THEN <<"header", call.name>>
                                  ELSE <<call.args>>]
             done == [type |-> "Done", content |-> <<>>]
  <2>2. text \in Delta /\ done \in Delta
    BY <1>0, <2>1
  <2>3. line.calls # <<>> => said \in Delta
    <3> SUFFICES ASSUME line.calls # <<>> PROVE said \in Delta
      OBVIOUS
    <3>1. call \in Call
      BY <2>1
    <3>2. call.name \in STRING /\ call.args \in STRING
      BY <3>1 DEF Call
    <3> HIDE DEF call
    <3>3. CASE call.name # ""
      BY <1>0, <3>2, <3>3
    <3>4. CASE call.name = ""
      BY <1>0, <3>2, <3>4
    <3> QED BY <3>3, <3>4
  <2> HIDE DEF text, said, done
  <2>4. (IF line.text = "" THEN <<>> ELSE <<text>>)
          \o (IF line.calls = <<>> THEN <<>> ELSE <<said>>) \in Seq(Delta)
    <3> DEFINE a == IF line.text = "" THEN <<>> ELSE <<text>>
               b == IF line.calls = <<>> THEN <<>> ELSE <<said>>
    <3>0. <<>> \in Seq(Delta) /\ <<text>> \in Seq(Delta)
      BY <2>2
    <3>1. a \in Seq(Delta)
      BY <3>0, Zenon
    <3>2. b \in Seq(Delta)
      BY <2>3
    <3> HIDE DEF a, b
    <3>3. a \o b \in Seq(Delta)
      BY <3>1, <3>2
    <3> QED BY <3>3 DEF a, b
  <2>5. <<done>> \in Seq(Delta) /\ <<>> \in Seq(Delta)
    BY <2>2
  <2>6. OpenAIDeltas(line) \in Seq(Delta)
    <3>1. CASE line.event = "[DONE]"
      <4>1. OpenAIDeltas(line) = <<done>>
        BY <3>1 DEF OpenAIDeltas, done
      <4> QED BY <2>5, <4>1
    <3>2. CASE line.event = "chunk"
      <4>1. OpenAIDeltas(line) = (IF line.text = "" THEN <<>> ELSE <<text>>)
                                   \o (IF line.calls = <<>> THEN <<>> ELSE <<said>>)
        BY <3>2 DEF OpenAIDeltas, text, said
      <4> QED BY <2>4, <4>1
    <3>3. CASE line.event \notin {"[DONE]", "chunk"}
      <4>1. OpenAIDeltas(line) = <<>>
        BY <3>3 DEF OpenAIDeltas
      <4> QED BY <2>5, <4>1
    <3> QED BY <3>1, <3>2, <3>3
  <2> QED BY <1>1, <2>1, <2>6 DEF Deltas
<1>2. CASE p = "anthropic"
  <2>1. line \in Line /\ line.text \in STRING
    BY <1>2, ModelCallAssumption DEF Line
  <2>2. /\ <<[type |-> "Text", content |-> <<line.text>>]>> \in Seq(Delta)
        /\ <<[type |-> "ToolCall", content |-> <<line.text>>]>> \in Seq(Delta)
        /\ <<[type |-> "ToolCall", content |-> <<"header", line.text>>]>> \in Seq(Delta)
        /\ <<[type |-> "Done", content |-> <<>>]>> \in Seq(Delta)
        /\ <<>> \in Seq(Delta)
    <3>1. <<>> \in Seq(Delta) /\ \A d \in Delta : <<d>> \in Seq(Delta)
      OBVIOUS
    <3> QED BY <1>0, <2>1, <3>1, Zenon
  <2>3. AnthropicDeltas(line) \in Seq(Delta)
    <3>1. \/ AnthropicDeltas(line) = <<[type |-> "Text", content |-> <<line.text>>]>>
          \/ AnthropicDeltas(line) = <<[type |-> "ToolCall", content |-> <<line.text>>]>>
          \/ AnthropicDeltas(line) = <<[type |-> "ToolCall", content |-> <<"header", line.text>>]>>
          \/ AnthropicDeltas(line) = <<[type |-> "Done", content |-> <<>>]>>
          \/ AnthropicDeltas(line) = <<>>
      BY DEF AnthropicDeltas
    <3> HIDE DEF AnthropicDeltas
    <3> QED BY <2>2, <3>1, Zenon
  <2> QED BY <1>2, <2>1, <2>3 DEF Deltas
<1> QED BY <1>1, <1>2 DEF Providers

\* A line that is not crowded is passed on as a whole (openai.go:376-414,
\* anthropic.go:324-369).
LEMMA WholeIsPassedOn ==
    ASSUME NEW p \in Providers, NEW line \in Lines[p], ~Crowded(line)
    PROVE  Whole(p, line) = Deltas(p, line)
<1>1. CASE p # "openai" \/ line.event # "chunk"
  BY <1>1 DEF Whole, Providers
<1>2. CASE p = "openai" /\ line.event = "chunk"
  <2>1. line.calls \in Seq(Call)
    BY <1>2, ModelCallAssumption DEF Call
  <2>2. /\ ~(Len(line.calls) > 1)
        /\ \A i \in DOMAIN line.calls : line.calls[i].name = "" \/ line.calls[i].args = ""
    BY <1>2 DEF Crowded
  <2> DEFINE said == [i \in DOMAIN line.calls |-> Saying(line.calls[i])]
             text == IF line.text = "" THEN <<>>
                     ELSE <<[type |-> "Text", content |-> <<line.text>>]>>
             call == Head(line.calls)
             rest == IF line.calls = <<>> THEN <<>>
                     ELSE <<[type |-> "ToolCall",
                             content |-> IF call.name # "" THEN <<"header", call.name>>
                                         ELSE <<call.args>>]>>
  <2>3. Whole(p, line) = text \o FlattenSeq(said)
    BY <1>2 DEF Whole
  <2>4. Deltas(p, line) = text \o rest
    <3>1. Deltas(p, line) = OpenAIDeltas(line)
      BY <1>2 DEF Deltas
    <3>2. OpenAIDeltas(line) = text \o rest
      BY <1>2 DEF OpenAIDeltas
    <3> QED BY <3>1, <3>2
  <2>5. FlattenSeq(said) = rest
    <3>1. Len(line.calls) \in Nat /\ DOMAIN line.calls = 1..Len(line.calls)
      BY <2>1
    <3>2. CASE Len(line.calls) = 0
      <4>1. line.calls = <<>>
        BY <2>1, <3>2
      <4>2. said = <<>> /\ Len(said) = 0
        BY <4>1
      <4>3. FlattenSeq(said) = said
        <5> HIDE DEF said
        <5> QED BY <4>2 DEF FlattenSeq
      <4> QED BY <4>1, <4>2, <4>3
    <3>3. CASE Len(line.calls) = 1
      <4>1. line.calls # <<>> /\ call = line.calls[1] /\ DOMAIN line.calls = 1..1
        BY <2>1, <3>1, <3>3
      <4>2. said \in Seq({said[1]}) /\ Len(said) = 1 /\ said[1] = Saying(call)
        BY <4>1
      <4>3. FlattenSeq(said) = said[1]
        <5> HIDE DEF said
        <5> QED BY <4>2, FlattenOne
      <4>4. call.name = "" \/ call.args = ""
        <5>1. 1 \in DOMAIN line.calls
          BY <4>1
        <5>2. line.calls[1].name = "" \/ line.calls[1].args = ""
          BY <2>2, <5>1
        <5>3. call = line.calls[1]
          BY <4>1
        <5> HIDE DEF call
        <5> QED BY <5>2, <5>3
      <4> DEFINE header == <<[type |-> "ToolCall", content |-> <<"header", call.name>>]>>
                 args == <<[type |-> "ToolCall", content |-> <<call.args>>]>>
      <4>5. Saying(call) = (IF call.name = "" THEN <<>> ELSE header)
                             \o (IF call.name # "" /\ call.args = "" THEN <<>> ELSE args)
        BY DEF Saying
      <4>6. rest = IF call.name # "" THEN header ELSE args
        BY <4>1
      <4>7. <<>> \o args = args /\ header \o <<>> = header
        OBVIOUS
      <4> HIDE DEF call, header, args, rest, said
      <4>8. Saying(call) = rest
        BY <4>4, <4>5, <4>6, <4>7
      <4> QED BY <4>2, <4>3, <4>8
    <3>4. Len(line.calls) \in {0, 1}
      <4> DEFINE n == Len(line.calls)
      <4>1. ~(n > 1) /\ n \in Nat
        BY <2>2, <3>1, Zenon
      <4> HIDE DEF n
      <4>2. n \in {0, 1}
        BY <4>1
      <4> QED BY <4>2 DEF n
    <3> HIDE DEF said, rest
    <3> QED BY <3>2, <3>3, <3>4
  <2> HIDE DEF said, text, rest
  <2> QED BY <2>3, <2>4, <2>5
<1> QED BY <1>1, <1>2

\* A line more.
LEMMA OneLineMore ==
    ASSUME NEW p \in Providers, NEW line \in Lines[p], NEW before \in Seq(Line),
           ~Crowded(line)
    PROVE  FlattenSeq([i \in DOMAIN Append(before, line) |-> Whole(p, Append(before, line)[i])])
             = FlattenSeq([i \in DOMAIN before |-> Whole(p, before[i])]) \o Deltas(p, line)
<1> DEFINE after == Append(before, line)
           s == [i \in DOMAIN before |-> Whole(p, before[i])]
           t == [i \in DOMAIN after |-> Whole(p, after[i])]
           X == {Whole(p, l) : l \in Line}
<1>1. line \in Line /\ Deltas(p, line) \in Seq(Delta) /\ Whole(p, line) = Deltas(p, line)
  BY DeltasTyped, WholeIsPassedOn
<1>2. /\ after \in Seq(Line) /\ Len(after) = Len(before) + 1 /\ Len(before) \in Nat
      /\ \A i \in 1..Len(before) : after[i] = before[i]
      /\ after[Len(before) + 1] = line
      /\ DOMAIN before = 1..Len(before) /\ DOMAIN after = 1..Len(after)
  BY <1>1
<1> HIDE DEF after
<1>3. s \in Seq(X) /\ Len(s) = Len(before)
  BY <1>2
<1>4. t \in Seq(X) /\ Len(t) = Len(before) + 1 /\ t[Len(t)] = Deltas(p, line)
  BY <1>1, <1>2
<1>5. \A i \in 1..Len(before) : t[i] = s[i]
  BY <1>2
<1>6. before = <<>> => s = <<>> /\ FlattenSeq(s) = <<>>
  <2> SUFFICES ASSUME before = <<>> PROVE s = <<>> /\ FlattenSeq(s) = <<>>
    OBVIOUS
  <2>1. s = <<>>
    OBVIOUS
  <2> QED BY <2>1 DEF FlattenSeq
<1>7. s = <<>> => before = <<>>
  BY <1>2, <1>3
<1> HIDE DEF s, t, X
<1>8. FlattenSeq(t) = IF s = <<>> THEN t[1] ELSE FlattenSeq(s) \o t[Len(t)]
  <2>1. Len(t) = Len(s) + 1 /\ \A i \in 1..Len(s) : t[i] = s[i]
    BY <1>3, <1>4, <1>5, Zenon
  <2>2. s \in Seq(X) /\ t \in Seq(X)
    BY <1>3, <1>4
  <2> QED BY <2>1, <2>2, FlattenGrows, Zenon
<1>9. CASE s = <<>>
  <2>1. before = <<>> /\ Len(t) = 1 /\ FlattenSeq(s) = <<>>
    BY <1>4, <1>6, <1>7, <1>9
  <2>2. <<>> \o Deltas(p, line) = Deltas(p, line)
    BY <1>1
  <2>3. FlattenSeq(t) = FlattenSeq(s) \o Deltas(p, line)
    BY <1>4, <1>8, <1>9, <2>1, <2>2
  <2> QED BY <2>3 DEF s, t, after
<1>10. CASE s # <<>>
  <2>1. FlattenSeq(t) = FlattenSeq(s) \o Deltas(p, line)
    BY <1>4, <1>8, <1>10
  <2> QED BY <2>1 DEF s, t, after
<1> QED BY <1>9, <1>10

\* A delta that changes hands keeps its place.
LEMMA HandOver ==
    ASSUME NEW X, NEW a \in Seq(X), NEW b \in Seq(X), b # <<>>
    PROVE  /\ Append(a, Head(b)) \o Tail(b) = a \o b
           /\ Append(a, Head(b)) \in Seq(X) /\ Tail(b) \in Seq(X)
OBVIOUS

\* One stream moves, or one call; the others rest.
LEMMA OneStream ==
    ASSUME StreamInv, StreamShape', NEW c \in Callers, Flow(c)',
           \A d \in Callers \ {c} :
               /\ pc'[d] = pc[d] /\ ret'[d] = ret[d] /\ lines'[d] = lines[d]
               /\ todo'[d] = todo[d] /\ got'[d] = got[d] /\ errCh'[d] = errCh[d]
               /\ open'[d] = open[d]
    PROVE  StreamInv'
<1>1. ASSUME NEW d \in Callers \ {c} PROVE Flow(d)'
  <2>1. Flow(d)
    BY DEF StreamInv
  <2>2. Said(d)' = Said(d) /\ (Uncrowded(d)' <=> Uncrowded(d))
    BY <1>1 DEF Said, Uncrowded
  <2> QED BY <1>1, <2>1, <2>2 DEF Flow
<1> QED BY <1>1 DEF StreamInv

\* A call that goes on or returns without a stream, or opens one, leaves the
\* stream of its caller empty.
LEMMA CallKeepsStream ==
    ASSUME StreamInv, NEW c \in Callers, pc[c] # "stream",
           UNCHANGED <<lines, todo, got, errCh>>, open' \in [Callers -> BOOLEAN],
           pc'[c] # "stream" => ~open'[c],
           pc'[c] = "stream" => ret'[c].answer.from \in Providers,
           \A d \in Callers \ {c} : pc'[d] = pc[d] /\ ret'[d] = ret[d] /\ open'[d] = open[d]
    PROVE  StreamInv'
<1>1. StreamShape'
  BY DEF StreamInv, StreamShape
<1>2. lines'[c] = <<>> /\ todo'[c] = <<>> /\ got'[c] = <<>> /\ errCh'[c] = "empty"
  BY DEF StreamInv, Flow
<1>3. Said(c)' = <<>>
  BY <1>2, NothingSaid DEF Said
<1>4. <<>> \o <<>> = <<>> /\ DOMAIN <<>> = {}
  OBVIOUS
<1>5. Flow(c)'
  BY <1>2, <1>3, <1>4 DEF Flow
<1> QED BY <1>1, <1>5, OneStream

\* The goroutine parses a line: its deltas wait (openai.go:367-414).
LEMMA ScanKeeps ==
    ASSUME StreamInv, NEW c \in Callers, NEW line \in Lines[ret[c].answer.from],
           ScanLine(c, line)
    PROVE  StreamInv'
<1> DEFINE p == ret[c].answer.from
<1>1. /\ open[c] /\ todo[c] = <<>> /\ pc' = pc /\ ret' = ret /\ got' = got
  BY DEF ScanLine, callVars
<1>2. Flow(c) /\ pc[c] = "stream" /\ p \in Providers /\ errCh[c] = "empty"
  BY <1>1 DEF StreamInv, Flow
<1>3. lines[c] \in Seq(Line) /\ got[c] \in Seq(Delta)
  BY DEF StreamInv, StreamShape
<1>4. CASE cancelled[c]
  <2>1. /\ errCh' = [errCh EXCEPT ![c] = "Fatal"] /\ open' = [open EXCEPT ![c] = FALSE]
        /\ lines' = lines /\ todo' = todo
    BY <1>4 DEF ScanLine, Close
  <2>2. StreamShape' /\ errCh'[c] = "Fatal" /\ ~open'[c]
    BY <1>1, <2>1 DEF StreamInv, StreamShape
  <2>3. Said(c)' = Said(c) /\ (Uncrowded(c)' <=> Uncrowded(c))
    BY <1>1, <2>1 DEF Said, Uncrowded
  <2>4. Flow(c)'
    BY <1>1, <1>2, <2>1, <2>2, <2>3 DEF Flow
  <2> QED BY <1>1, <2>1, <2>2, <2>4, OneStream DEF StreamInv, StreamShape
<1>5. CASE ~cancelled[c]
  <2>1. /\ lines' = [lines EXCEPT ![c] = Append(@, line)]
        /\ todo' = [todo EXCEPT ![c] = Deltas(p, line)]
        /\ errCh' = errCh /\ open' = open
    BY <1>5 DEF ScanLine
  <2>2. Deltas(p, line) \in Seq(Delta) /\ line \in Line
    BY <1>2, DeltasTyped
  <2>3. lines'[c] = Append(lines[c], line) /\ todo'[c] = Deltas(p, line)
    BY <2>1 DEF StreamInv, StreamShape
  <2>4. StreamShape'
    <3>1. Append(lines[c], line) \in Seq(Line)
      BY <1>3, <2>2
    <3>2. lines' \in [Callers -> Seq(Line)]
      BY <2>1, <3>1 DEF StreamInv, StreamShape
    <3>3. todo' \in [Callers -> Seq(Delta)]
      BY <2>1, <2>2 DEF StreamInv, StreamShape
    <3> QED BY <1>1, <2>1, <3>2, <3>3 DEF StreamInv, StreamShape
  <2>5. Uncrowded(c)' => got'[c] \o todo'[c] = Said(c)'
    <3> SUFFICES ASSUME Uncrowded(c)' PROVE got[c] \o Deltas(p, line) = Said(c)'
      BY <1>1, <2>3
    <3>1. /\ DOMAIN Append(lines[c], line) = 1..(Len(lines[c]) + 1) /\ Len(lines[c]) \in Nat
          /\ DOMAIN lines[c] = 1..Len(lines[c])
          /\ \A i \in 1..Len(lines[c]) : Append(lines[c], line)[i] = lines[c][i]
          /\ Append(lines[c], line)[Len(lines[c]) + 1] = line
      BY <1>3, <2>2
    <3>2. ~Crowded(line) /\ Uncrowded(c)
      BY <2>3, <3>1 DEF Uncrowded
    <3>3. got[c] \o <<>> = Said(c) /\ got[c] \o <<>> = got[c]
      BY <1>1, <1>2, <1>3, <3>2 DEF Flow
    <3>4. Said(c)' = FlattenSeq([i \in DOMAIN Append(lines[c], line) |->
                                    Whole(p, Append(lines[c], line)[i])])
      BY <1>1, <2>3 DEF Said
    <3>5. Said(c) = FlattenSeq([i \in DOMAIN lines[c] |-> Whole(p, lines[c][i])])
      BY DEF Said
    <3> HIDE DEF p
    <3>6. Said(c)' = Said(c) \o Deltas(p, line)
      BY <1>2, <1>3, <3>2, <3>4, <3>5, OneLineMore DEF p
    <3> QED BY <3>3, <3>6
  <2>6. Flow(c)'
    <3>1. pc'[c] = "stream" /\ ret'[c].answer.from \in Providers
      BY <1>1, <1>2
    <3>2. /\ got'[c] = got[c] /\ open'[c] = open[c] /\ errCh'[c] = errCh[c]
      BY <1>1, <2>1
    <3> HIDE DEF p
    <3> QED BY <1>2, <2>5, <3>1, <3>2 DEF Flow
  <2>7. \A d \in Callers \ {c} : lines'[d] = lines[d] /\ todo'[d] = todo[d]
    BY <2>1 DEF StreamInv, StreamShape
  <2> HIDE DEF p
  <2> QED BY <1>1, <2>1, <2>4, <2>6, <2>7, OneStream
<1> QED BY <1>4, <1>5

\* The body ends (openai.go:415-421).
LEMMA EndKeeps ==
    ASSUME StreamInv, NEW c \in Callers, NEW torn \in BOOLEAN, ScanEnds(c, torn)
    PROVE  StreamInv'
<1>1. /\ open[c] /\ pc' = pc /\ ret' = ret /\ lines' = lines /\ todo' = todo /\ got' = got
      /\ errCh' = [errCh EXCEPT ![c] = IF torn THEN "Retriable" ELSE @]
      /\ open' = [open EXCEPT ![c] = FALSE]
  BY DEF ScanEnds, callVars, Close
<1>2. StreamShape' /\ ~open'[c]
  BY <1>1 DEF StreamInv, StreamShape
<1>3. Flow(c) /\ pc[c] = "stream"
  BY <1>1 DEF StreamInv, Flow
<1>4. Said(c)' = Said(c) /\ (Uncrowded(c)' <=> Uncrowded(c))
  BY <1>1 DEF Said, Uncrowded
<1>5. Flow(c)'
  BY <1>1, <1>2, <1>3, <1>4 DEF Flow
<1> QED BY <1>1, <1>2, <1>5, OneStream DEF StreamInv, StreamShape

\* A delta changes hands, and Done ends the goroutine (openai.go:382-385).
LEMMA ReceiveKeeps ==
    ASSUME StreamInv, NEW c \in Callers, Receive(c)
    PROVE  StreamInv'
<1> DEFINE first == Head(todo[c])
<1>1. /\ open[c] /\ todo[c] # <<>>
      /\ pc' = pc /\ ret' = ret /\ lines' = lines /\ errCh' = errCh
      /\ got' = [got EXCEPT ![c] = Append(@, first)]
      /\ todo' = [todo EXCEPT ![c] = Tail(@)]
      /\ open' = [open EXCEPT ![c] = first.type # "Done"]
  BY DEF Receive, callVars
<1>2. todo[c] \in Seq(Delta) /\ got[c] \in Seq(Delta) /\ first \in Delta
  BY <1>1 DEF StreamInv, StreamShape
<1>3. /\ Append(got[c], first) \o Tail(todo[c]) = got[c] \o todo[c]
      /\ Append(got[c], first) \in Seq(Delta) /\ Tail(todo[c]) \in Seq(Delta)
  BY <1>1, <1>2, HandOver
<1>4. /\ got'[c] = Append(got[c], first) /\ todo'[c] = Tail(todo[c])
      /\ open'[c] = (first.type # "Done")
  BY <1>1 DEF StreamInv, StreamShape
<1>5. /\ DOMAIN got'[c] = 1..(Len(got[c]) + 1) /\ Len(got'[c]) = Len(got[c]) + 1
      /\ DOMAIN got[c] = 1..Len(got[c]) /\ Len(got[c]) \in Nat
      /\ \A i \in 1..Len(got[c]) : got'[c][i] = got[c][i]
      /\ got'[c][Len(got[c]) + 1] = first
  BY <1>2, <1>4
<1> HIDE DEF first
<1>6. StreamShape'
  <2>1. got' \in [Callers -> Seq(Delta)]
    BY <1>1, <1>3 DEF StreamInv, StreamShape
  <2>2. todo' \in [Callers -> Seq(Delta)]
    BY <1>1, <1>3 DEF StreamInv, StreamShape
  <2>3. open' \in [Callers -> BOOLEAN]
    BY <1>1 DEF StreamInv, StreamShape
  <2> QED BY <1>1, <2>1, <2>2, <2>3 DEF StreamInv, StreamShape
<1>7. Flow(c) /\ pc[c] = "stream" /\ errCh[c] = "empty"
      /\ \A i \in DOMAIN got[c] : got[c][i].type # "Done"
  BY <1>1 DEF StreamInv, Flow
<1>8. \A i \in DOMAIN got'[c] : got'[c][i].type = "Done" =>
          i = Len(got'[c]) /\ first.type = "Done"
  BY <1>5, <1>7
<1>9. Said(c)' = Said(c) /\ (Uncrowded(c)' <=> Uncrowded(c))
  BY <1>1 DEF Said, Uncrowded
<1>10. Flow(c)'
  <2>1. Uncrowded(c)' => got'[c] \o todo'[c] = Said(c)'
    BY <1>3, <1>4, <1>7, <1>9 DEF Flow
  <2>2. open'[c] => errCh'[c] = "empty" /\ \A i \in DOMAIN got'[c] : got'[c][i].type # "Done"
    BY <1>1, <1>4, <1>7, <1>8
  <2>3. \A i \in DOMAIN got'[c] : got'[c][i].type = "Done" =>
            i = Len(got'[c]) /\ ~open'[c] /\ errCh'[c] = "empty"
    BY <1>1, <1>4, <1>7, <1>8
  <2>4. pc'[c] = "stream" /\ ret'[c].answer.from \in Providers
    BY <1>1, <1>7 DEF Flow
  <2> QED BY <2>1, <2>2, <2>3, <2>4 DEF Flow
<1>11. \A d \in Callers \ {c} : got'[d] = got[d] /\ todo'[d] = todo[d] /\ open'[d] = open[d]
  BY <1>1 DEF StreamInv, StreamShape
<1> QED BY <1>1, <1>6, <1>10, <1>11, OneStream

\* The goroutines of all streams (openai.go:323-423, anthropic.go:310-377).
LEMMA StreamsInductive == Spec => []StreamInv
<1>1. Init => StreamInv
  <2> SUFFICES ASSUME Init PROVE StreamInv
    OBVIOUS
  <2>1. StreamShape
    <3>1. <<>> \in Seq(Line) /\ <<>> \in Seq(Delta)
      OBVIOUS
    <3> QED BY <3>1 DEF Init, StreamShape
  <2>2. ASSUME NEW c \in Callers PROVE Flow(c)
    <3>1. /\ pc[c] = "idle" /\ lines[c] = <<>> /\ todo[c] = <<>> /\ got[c] = <<>>
          /\ ~open[c] /\ errCh[c] = "empty"
      BY DEF Init
    <3>2. Said(c) = <<>> /\ <<>> \o <<>> = <<>> /\ DOMAIN <<>> = {}
      BY <3>1, NothingSaid DEF Said
    <3> QED BY <3>1, <3>2 DEF Flow
  <2> QED BY <2>1, <2>2 DEF StreamInv
<1>2. CallInv /\ StreamInv /\ [Next]_vars => StreamInv'
  <2> SUFFICES ASSUME CallInv, StreamInv, [Next]_vars PROVE StreamInv'
    OBVIOUS
  <2>1. CASE UNCHANGED <<pc, ret, lines, todo, got, errCh, open>>
    <3>1. \A c \in Callers : Said(c)' = Said(c) /\ (Uncrowded(c)' <=> Uncrowded(c))
      BY <2>1 DEF Said, Uncrowded
    <3> QED BY <2>1, <3>1 DEF StreamInv, StreamShape, Flow
  <2>2. ASSUME NEW c \in Callers, NEW at, at # "stream", pc[c] # "stream",
               pc' = [pc EXCEPT ![c] = at],
               \A d \in Callers \ {c} : ret'[d] = ret[d],
               UNCHANGED streamVars
        PROVE  StreamInv'
    <3>1. /\ UNCHANGED <<lines, todo, got, errCh, open>> /\ pc'[c] = at
          /\ \A d \in Callers \ {c} : pc'[d] = pc[d]
      BY <2>2 DEF streamVars, CallInv, CallShape
    <3>2. open' \in [Callers -> BOOLEAN] /\ ~open'[c]
      BY <2>2, <3>1 DEF StreamInv, StreamShape, Flow
    <3> QED BY <2>2, <3>1, <3>2, CallKeepsStream
  <2>3. ASSUME NEW c \in Callers, NEW at, NEW err, NEW answer, Return(c, at, err, answer)
        PROVE  pc' = [pc EXCEPT ![c] = at] /\ \A d \in Callers \ {c} : ret'[d] = ret[d]
    BY <2>3 DEF Return, CallInv, CallShape
  <2>4. ASSUME NEW c \in Callers, NEW err, ProviderFails(c, err), pc[c] # "stream",
               UNCHANGED streamVars
        PROVE  StreamInv'
    <3>1. PICK at \in {"done", "try"} :
            pc' = [pc EXCEPT ![c] = at] /\ \A d \in Callers \ {c} : ret'[d] = ret[d]
      BY <2>3, <2>4 DEF ProviderFails, Continue
    <3> QED BY <2>2, <2>4, <3>1
  <2>5. ASSUME NEW c \in Callers, NEW n, NEW stream, Begin(c, n, stream) PROVE StreamInv'
    <3>1. PICK at \in {"done", "try"} :
            pc' = [pc EXCEPT ![c] = at] /\ \A d \in Callers \ {c} : ret'[d] = ret[d]
      BY <2>3, <2>5 DEF Begin, Continue
    <3>2. pc[c] # "stream" /\ UNCHANGED streamVars
      BY <2>5 DEF Begin
    <3> QED BY <2>2, <3>1, <3>2
  <2>6. ASSUME NEW c \in Callers, Exhausted(c) \/ Retry(c) \/ RetryCancelled(c)
        PROVE  StreamInv'
    <3>1. PICK at \in {"done", "try", "backoff"} :
            pc' = [pc EXCEPT ![c] = at] /\ \A d \in Callers \ {c} : ret'[d] = ret[d]
      BY <2>3, <2>6 DEF Exhausted, Retry, RetryCancelled, Continue
    <3>2. pc[c] # "stream" /\ UNCHANGED streamVars
      BY <2>6 DEF Exhausted, Retry, RetryCancelled
    <3> QED BY <2>2, <3>1, <3>2
  <2>7. ASSUME NEW c \in Callers, Send(c) PROVE StreamInv'
    <3>1. pc[c] # "stream" /\ UNCHANGED streamVars
      BY <2>7 DEF Send
    <3>2. CASE ~Admits(Chain[pos[c]])
      <4>1. ProviderFails(c, "Retriable")
        BY <2>7, <3>2 DEF Send
      <4> QED BY <2>4, <3>1, <4>1
    <3>3. CASE Admits(Chain[pos[c]])
      <4>1. PICK at \in {"doomed", "wire"} : pc' = [pc EXCEPT ![c] = at] /\ ret' = ret
        BY <2>7, <3>3 DEF Send
      <4> QED BY <2>2, <3>1, <4>1
    <3> QED BY <3>2, <3>3
  <2>8. ASSUME NEW c \in Callers, NEW status,
               \/ TransportFails(c) \/ StatusError(c, status) \/ BadBody(c) \/ Unbuildable(c)
        PROVE  StreamInv'
    <3>1. PICK err : /\ ProviderFails(c, err) /\ pc[c] # "stream" /\ UNCHANGED streamVars
      <4>1. CASE TransportFails(c)
        BY <4>1 DEF TransportFails
      <4>2. CASE StatusError(c, status)
        BY <4>2 DEF StatusError
      <4>3. CASE BadBody(c)
        BY <4>3 DEF BadBody
      <4>4. CASE Unbuildable(c)
        BY <4>4 DEF Unbuildable
      <4> QED BY <2>8, <4>1, <4>2, <4>3, <4>4
    <3> QED BY <2>4, <3>1
  <2>9. ASSUME NEW c \in Callers, NEW reply, Answer(c, reply) PROVE StreamInv'
    <3>1. PICK answer : Return(c, "done", "nil", answer)
      BY <2>9 DEF Answer
    <3>2. pc[c] # "stream" /\ UNCHANGED streamVars
      BY <2>9 DEF Answer
    <3> QED BY <2>2, <2>3, <3>1, <3>2
  <2>10. ASSUME NEW c \in Callers, OpenStream(c) PROVE StreamInv'
    <3> DEFINE answer == [from |-> Chain[pos[c]], parts |-> <<>>]
    <3>1. /\ pc[c] = "wire" /\ Return(c, "stream", "nil", answer)
          /\ open' = [open EXCEPT ![c] = TRUE]
          /\ UNCHANGED <<lines, todo, got, errCh>>
      BY <2>10 DEF OpenStream
    <3>2. answer.from \in Providers
      BY <3>1, AnswerIsFrom
    <3> HIDE DEF answer
    <3>3. /\ pc' = [pc EXCEPT ![c] = "stream"] /\ \A d \in Callers \ {c} : ret'[d] = ret[d]
          /\ ret'[c].answer = answer
      BY <3>1 DEF Return, CallInv, CallShape
    <3>4. pc'[c] = "stream" /\ \A d \in Callers \ {c} : pc'[d] = pc[d]
      BY <3>3 DEF CallInv, CallShape
    <3>5. open' \in [Callers -> BOOLEAN] /\ \A d \in Callers \ {c} : open'[d] = open[d]
      BY <3>1 DEF StreamInv, StreamShape
    <3> QED BY <3>1, <3>2, <3>3, <3>4, <3>5, CallKeepsStream
  <2>11. ASSUME NEW c \in Callers, NEW together, NEW reloaded, NextTurn(c, together, reloaded)
         PROVE  StreamInv'
    <3>1. /\ pc[c] = "done" /\ pc' = [pc EXCEPT ![c] = "idle"] /\ ret' = ret
          /\ UNCHANGED streamVars
      BY <2>11 DEF NextTurn
    <3> QED BY <2>2, <3>1
  <2>12. ASSUME NEW c \in Callers, StreamStep(c) PROVE StreamInv'
    BY <2>12, ScanKeeps, EndKeeps, ReceiveKeeps DEF StreamStep
  <2>13. ASSUME NEW c \in Callers, Cancel(c) \/ StopReading(c)
         PROVE  UNCHANGED <<pc, ret, lines, todo, got, errCh, open>>
    BY <2>13 DEF Cancel, StopReading, callVars, streamVars
  <2>14. ASSUME NEW p \in Providers, Expire(p)
         PROVE  UNCHANGED <<pc, ret, lines, todo, got, errCh, open>>
    BY <2>14 DEF Expire, callVars, streamVars
  <2>15. UNCHANGED vars => UNCHANGED <<pc, ret, lines, todo, got, errCh, open>>
    BY DEF vars, callVars, streamVars
  <2> QED
    BY <2>1, <2>5, <2>6, <2>7, <2>8, <2>9, <2>10, <2>11, <2>12, <2>13, <2>14, <2>15
       DEF Next, CallerStep
<1> QED BY <1>1, <1>2, CallsInductive, PTL DEF Spec

\* Whoever reads a stream gets what the service sent, once and in order, crowded
\* chunks of OpenAI excepted; Done comes last, and never beside an error
\* (openai.go:323-423, anthropic.go:310-377).
THEOREM StreamsComplete == Spec => []StreamComplete
<1>1. StreamInv => StreamComplete
  BY DEF StreamInv, Flow, Uncrowded, Said, StreamComplete
<1> QED BY <1>1, StreamsInductive, PTL
-----------------------------------------------------------------------------
(* More about concatenation *)

LEMMA FlattenEmpty == FlattenSeq(<<>>) = <<>>
BY DEF FlattenSeq

LEMMA FlattenAppendRaw ==
    ASSUME NEW X, NEW s \in Seq(Seq(X)), NEW e \in Seq(X), FlattenSeq(s) \in Seq(X)
    PROVE  FlattenSeq(Append(s, e)) = FlattenSeq(s) \o e
<1> DEFINE t == Append(s, e)
<1>1. /\ t \in Seq(Seq(X)) /\ Len(t) = Len(s) + 1 /\ t[Len(t)] = e
      /\ \A i \in 1..Len(s) : t[i] = s[i]
  OBVIOUS
<1>2. FlattenSeq(t) = IF s = <<>> THEN t[1] ELSE FlattenSeq(s) \o t[Len(t)]
  <2> HIDE DEF t
  <2> QED BY <1>1, FlattenGrows
<1>3. CASE s = <<>>
  <2>1. t[1] = e /\ FlattenSeq(s) = <<>>
    BY <1>1, <1>3, FlattenEmpty
  <2>2. <<>> \o e = e
    BY ConcatEmptySeq
  <2> QED BY <1>2, <1>3, <2>1, <2>2
<1> QED BY <1>1, <1>2, <1>3

LEMMA FlattenTyped ==
    ASSUME NEW X, NEW s \in Seq(Seq(X))
    PROVE  FlattenSeq(s) \in Seq(X)
<1> DEFINE S == {n \in Nat : \A t \in Seq(Seq(X)) : Len(t) = n => FlattenSeq(t) \in Seq(X)}
<1>1. 0 \in S
  <2>1. ASSUME NEW t \in Seq(Seq(X)), Len(t) = 0 PROVE FlattenSeq(t) \in Seq(X)
    <3>1. t = <<>>
      BY <2>1
    <3>2. FlattenSeq(t) = <<>>
      BY <3>1, FlattenEmpty, Zenon
    <3>3. <<>> \in Seq(X)
      OBVIOUS
    <3> QED BY <3>2, <3>3
  <2> QED BY <2>1
<1>2. ASSUME NEW n \in Nat, n \in S PROVE n + 1 \in S
  <2>1. ASSUME NEW t \in Seq(Seq(X)), Len(t) = n + 1 PROVE FlattenSeq(t) \in Seq(X)
    <3> DEFINE u == SubSeq(t, 1, n)
               e == t[n + 1]
    <3>1. u \in Seq(Seq(X)) /\ Len(u) = n /\ e \in Seq(X) /\ t = Append(u, e)
      BY <2>1
    <3>2. FlattenSeq(u) \in Seq(X)
      BY <1>2, <3>1
    <3> HIDE DEF u, e
    <3>3. FlattenSeq(t) = FlattenSeq(u) \o e
      BY <3>1, <3>2, FlattenAppendRaw
    <3> QED BY <3>1, <3>2, <3>3
  <2> QED BY <2>1
<1> HIDE DEF S
<1>3. \A n \in Nat : n \in S
  BY <1>1, <1>2, NumbersFromZero
<1>4. Len(s) \in Nat
  OBVIOUS
<1> QED BY <1>3, <1>4 DEF S

\* A sequence more at the end.
LEMMA FlattenAppend ==
    ASSUME NEW X, NEW s \in Seq(Seq(X)), NEW e \in Seq(X)
    PROVE  FlattenSeq(Append(s, e)) = FlattenSeq(s) \o e
BY FlattenTyped, FlattenAppendRaw

\* A sequence more at the beginning.
LEMMA FlattenPrepend ==
    ASSUME NEW X, NEW e \in Seq(X), NEW s \in Seq(Seq(X))
    PROVE  FlattenSeq(<<e>> \o s) = e \o FlattenSeq(s)
<1> DEFINE Holds(t) == FlattenSeq(<<e>> \o t) = e \o FlattenSeq(t)
           S == {n \in Nat : \A t \in Seq(Seq(X)) : Len(t) = n => Holds(t)}
<1>1. 0 \in S
  <2>1. ASSUME NEW t \in Seq(Seq(X)), Len(t) = 0 PROVE Holds(t)
    <3>1. t = <<>>
      BY <2>1
    <3>2. <<e>> \o t = <<e>> /\ <<e>> \in Seq(Seq(X)) /\ Len(<<e>>) = 1 /\ <<e>>[1] = e
      BY <3>1
    <3>3. FlattenSeq(<<e>>) = e
      BY <3>2, FlattenOne
    <3>4. e \o <<>> = e
      BY ConcatEmptySeq
    <3> QED BY <3>1, <3>2, <3>3, <3>4, FlattenEmpty
  <2> HIDE DEF Holds
  <2> QED BY <2>1
<1>2. ASSUME NEW n \in Nat, n \in S PROVE n + 1 \in S
  <2>1. ASSUME NEW t \in Seq(Seq(X)), Len(t) = n + 1 PROVE Holds(t)
    <3> DEFINE u == SubSeq(t, 1, n)
               x == t[n + 1]
               w == <<e>> \o u
    <3>1. u \in Seq(Seq(X)) /\ Len(u) = n /\ x \in Seq(X) /\ t = Append(u, x)
      BY <2>1
    <3>2. w \in Seq(Seq(X)) /\ <<e>> \o Append(u, x) = Append(w, x)
      BY <3>1
    <3>3. FlattenSeq(w) = e \o FlattenSeq(u)
      BY <1>2, <3>1
    <3> HIDE DEF u, x, w
    <3>4. FlattenSeq(Append(w, x)) = FlattenSeq(w) \o x
      BY <3>1, <3>2, FlattenAppend
    <3>5. FlattenSeq(t) = FlattenSeq(u) \o x
      BY <3>1, FlattenAppend
    <3>6. FlattenSeq(u) \in Seq(X)
      BY <3>1, FlattenTyped
    <3>7. (e \o FlattenSeq(u)) \o x = e \o (FlattenSeq(u) \o x)
      <4> DEFINE v == FlattenSeq(u)
      <4>1. e \in Seq(X) /\ v \in Seq(X) /\ x \in Seq(X)
        BY <3>1, <3>6
      <4> HIDE DEF v
      <4>2. \A a, b, c \in Seq(X) : (a \o b) \o c = a \o (b \o c)
        BY ONLY ConcatAssociative, SMTT(20)
      <4>3. (e \o v) \o x = e \o (v \o x)
        BY ONLY <4>1, <4>2, Zenon
      <4> QED BY <4>3 DEF v
    <3> QED BY <3>1, <3>2, <3>3, <3>4, <3>5, <3>7
  <2> HIDE DEF Holds
  <2> QED BY <2>1
<1> HIDE DEF S, Holds
<1>3. \A n \in Nat : n \in S
  BY <1>1, <1>2, NumbersFromZero
<1>4. Len(s) \in Nat
  OBVIOUS
<1>5. Holds(s)
  BY <1>3, <1>4 DEF S
<1> QED BY <1>5 DEF Holds

LEMMA ToSetConcat ==
    ASSUME NEW X, NEW s \in Seq(X), NEW t \in Seq(X), NEW x
    PROVE  x \in ToSet(s \o t) <=> x \in ToSet(s) \/ x \in ToSet(t)
<1>1. s \o t \in Seq(X) /\ Len(s \o t) = Len(s) + Len(t)
      /\ \A i \in 1..(Len(s) + Len(t)) : (s \o t)[i] = IF i <= Len(s) THEN s[i] ELSE t[i - Len(s)]
  OBVIOUS
<1>2. /\ DOMAIN s = 1..Len(s) /\ DOMAIN t = 1..Len(t)
      /\ DOMAIN (s \o t) = 1..(Len(s) + Len(t)) /\ Len(s) \in Nat /\ Len(t) \in Nat
  BY <1>1
<1>3. ASSUME x \in ToSet(s \o t) PROVE x \in ToSet(s) \/ x \in ToSet(t)
  <2>1. PICK i \in 1..(Len(s) + Len(t)) : x = (s \o t)[i]
    BY <1>2, <1>3 DEF ToSet
  <2>2. CASE i <= Len(s)
    BY <1>1, <1>2, <2>1, <2>2 DEF ToSet
  <2>3. CASE i > Len(s)
    <3>1. i - Len(s) \in 1..Len(t) /\ x = t[i - Len(s)]
      BY <1>1, <1>2, <2>1, <2>3
    <3> QED BY <1>2, <3>1 DEF ToSet
  <2> QED BY <1>2, <2>2, <2>3
<1>4. ASSUME x \in ToSet(s) PROVE x \in ToSet(s \o t)
  <2>1. PICK i \in 1..Len(s) : x = s[i]
    BY <1>2, <1>4 DEF ToSet
  <2>2. i \in 1..(Len(s) + Len(t)) /\ x = (s \o t)[i]
    BY <1>1, <1>2, <2>1
  <2> QED BY <1>2, <2>2 DEF ToSet
<1>5. ASSUME x \in ToSet(t) PROVE x \in ToSet(s \o t)
  <2>1. PICK i \in 1..Len(t) : x = t[i]
    BY <1>2, <1>5 DEF ToSet
  <2>2. i + Len(s) \in 1..(Len(s) + Len(t)) /\ x = (s \o t)[i + Len(s)]
    BY <1>1, <1>2, <2>1
  <2> QED BY <1>2, <2>2 DEF ToSet
<1> QED BY <1>3, <1>4, <1>5

\* What is in a concatenation is in one of its parts.
LEMMA FlattenHolds ==
    ASSUME NEW X, NEW s \in Seq(Seq(X)), NEW x
    PROVE  x \in ToSet(FlattenSeq(s)) <=> \E i \in 1..Len(s) : x \in ToSet(s[i])
<1> DEFINE Holds(t) == x \in ToSet(FlattenSeq(t)) <=> \E i \in 1..Len(t) : x \in ToSet(t[i])
           S == {n \in Nat : \A t \in Seq(Seq(X)) : Len(t) = n => Holds(t)}
<1>1. 0 \in S
  <2>1. ASSUME NEW t \in Seq(Seq(X)), Len(t) = 0 PROVE Holds(t)
    <3>1. t = <<>>
      BY <2>1
    <3>2. x \notin ToSet(<<>>)
      BY DEF ToSet
    <3> QED BY <2>1, <3>1, <3>2, FlattenEmpty
  <2> HIDE DEF Holds
  <2> QED BY <2>1
<1>2. ASSUME NEW n \in Nat, n \in S PROVE n + 1 \in S
  <2>1. ASSUME NEW t \in Seq(Seq(X)), Len(t) = n + 1 PROVE Holds(t)
    <3> DEFINE u == SubSeq(t, 1, n)
               e == t[n + 1]
    <3>1. u \in Seq(Seq(X)) /\ Len(u) = n /\ e \in Seq(X) /\ t = Append(u, e)
          /\ \A i \in 1..n : u[i] = t[i]
      BY <2>1
    <3>2. Holds(u)
      BY <1>2, <3>1
    <3>3. t[n + 1] = e
      OBVIOUS
    <3> HIDE DEF u, e
    <3>4. FlattenSeq(t) = FlattenSeq(u) \o e /\ FlattenSeq(u) \in Seq(X)
      BY <3>1, FlattenAppend, FlattenTyped
    <3>5. x \in ToSet(FlattenSeq(t)) <=> x \in ToSet(FlattenSeq(u)) \/ x \in ToSet(e)
      BY <3>1, <3>4, ToSetConcat
    <3>6. (\E i \in 1..(n + 1) : x \in ToSet(t[i]))
             <=> (\E i \in 1..n : x \in ToSet(u[i])) \/ x \in ToSet(e)
      <4>1. \A i \in 1..(n + 1) : i \in 1..n \/ i = n + 1
        OBVIOUS
      <4>2. 1..n \subseteq 1..(n + 1) /\ n + 1 \in 1..(n + 1)
        OBVIOUS
      <4> QED BY <3>1, <3>3, <4>1, <4>2
    <3> QED BY <2>1, <3>1, <3>2, <3>5, <3>6
  <2> HIDE DEF Holds
  <2> QED BY <2>1
<1> HIDE DEF S, Holds
<1>3. \A n \in Nat : n \in S
  BY <1>1, <1>2, NumbersFromZero
<1>4. Len(s) \in Nat
  OBVIOUS
<1>5. Holds(s)
  BY <1>3, <1>4 DEF S
<1> QED BY <1>5 DEF Holds
-----------------------------------------------------------------------------
(* Requests: what a filter keeps *)

LEMMA AmongHolds ==
    ASSUME NEW X, NEW s \in Seq(X), NEW P
    PROVE  /\ Among(s, P) \in Seq(X)
           /\ \A x : x \in ToSet(Among(s, P)) <=> \E i \in DOMAIN s : i \in P /\ x = s[i]
<1> DEFINE f == [i \in DOMAIN s |-> IF i \in P THEN <<s[i]>> ELSE <<>>]
<1>1. DOMAIN s = 1..Len(s) /\ Len(s) \in Nat
  OBVIOUS
<1>2. \A i \in 1..Len(s) : f[i] \in Seq(X)
  BY <1>1
<1>3. f \in Seq(Seq(X)) /\ Len(f) = Len(s)
  <2>1. f \in [1..Len(s) -> Seq(X)]
    BY <1>1, <1>2
  <2> HIDE DEF f
  <2> QED BY <1>1, <2>1
<1>4. Among(s, P) = FlattenSeq(f)
  BY DEF Among
<1>5. \A i \in 1..Len(s) : \A x : x \in ToSet(f[i]) <=> i \in P /\ x = s[i]
  <2> SUFFICES ASSUME NEW i \in 1..Len(s), NEW x
               PROVE  x \in ToSet(f[i]) <=> i \in P /\ x = s[i]
    OBVIOUS
  <2>1. CASE i \in P
    <3>1. f[i] = <<s[i]>>
      BY <1>1, <2>1
    <3>2. ToSet(<<s[i]>>) = {s[i]}
      BY DEF ToSet
    <3> HIDE DEF f
    <3> QED BY <2>1, <3>1, <3>2
  <2>2. CASE i \notin P
    <3>1. f[i] = <<>>
      BY <1>1, <2>2
    <3>2. ToSet(<<>>) = {}
      BY DEF ToSet
    <3> HIDE DEF f
    <3> QED BY <2>2, <3>1, <3>2
  <2> QED BY <2>1, <2>2
<1> HIDE DEF f
<1>6. FlattenSeq(f) \in Seq(X)
  BY <1>3, FlattenTyped
<1>7. ASSUME NEW x
      PROVE  x \in ToSet(FlattenSeq(f)) <=> \E i \in DOMAIN s : i \in P /\ x = s[i]
  <2>1. x \in ToSet(FlattenSeq(f)) <=> \E i \in 1..Len(f) : x \in ToSet(f[i])
    BY <1>3, FlattenHolds
  <2> QED BY <1>1, <1>3, <1>5, <2>1
<1> QED BY <1>4, <1>6, <1>7

\* A sequence whose elements are mapped one by one.
LEMMA MapTyped ==
    ASSUME NEW X, NEW Y, NEW s \in Seq(X), NEW f, DOMAIN f = DOMAIN s,
           f = [i \in DOMAIN f |-> f[i]], \A i \in DOMAIN s : f[i] \in Y
    PROVE  f \in Seq(Y) /\ Len(f) = Len(s)
<1>1. DOMAIN s = 1..Len(s) /\ Len(s) \in Nat
  OBVIOUS
<1>2. f \in [1..Len(s) -> Y]
  BY <1>1
<1> QED BY <1>1, <1>2

LEMMA Narrowed ==
    ASSUME NEW X, NEW Y, NEW s \in Seq(X), \A x \in ToSet(s) : x \in Y
    PROVE  s \in Seq(Y)
<1>1. s \in [1..Len(s) -> X] /\ Len(s) \in Nat /\ DOMAIN s = 1..Len(s)
  OBVIOUS
<1>2. \A i \in 1..Len(s) : s[i] \in Y
  BY <1>1 DEF ToSet
<1>3. s \in [1..Len(s) -> Y]
  BY <1>1, <1>2
<1> QED BY <1>1, <1>3

LEMMA OfTypeHolds ==
    ASSUME NEW parts, IsSeq(parts), NEW t
    PROVE  /\ IsSeq(OfType(parts, t))
           /\ \A p : p \in ToSet(OfType(parts, t)) <=> p \in ToSet(parts) /\ p.type = t
<1> DEFINE P == {i \in DOMAIN parts : parts[i].type = t}
           X == ToSet(parts)
<1>0. parts \in Seq(X)
  BY DEF IsSeq
<1>1. /\ Among(parts, P) \in Seq(X)
      /\ \A p : p \in ToSet(Among(parts, P)) <=> \E i \in DOMAIN parts : i \in P /\ p = parts[i]
  <2> HIDE DEF P, X
  <2> QED BY <1>0, AmongHolds
<1>2. \A p : p \in ToSet(parts) <=> \E i \in DOMAIN parts : p = parts[i]
  BY DEF ToSet
<1>3. OfType(parts, t) = Among(parts, P)
  BY DEF OfType
<1>4. ASSUME NEW p
      PROVE  (\E i \in DOMAIN parts : i \in P /\ p = parts[i]) <=> p \in ToSet(parts) /\ p.type = t
  BY <1>2
<1> HIDE DEF P, X
<1>5. IsSeq(OfType(parts, t))
  BY <1>1, <1>3, Narrowed DEF IsSeq
<1> QED BY <1>1, <1>3, <1>4, <1>5
-----------------------------------------------------------------------------
(* Requests: what they carry of a conversation *)

LEMMA IdsIn ==
    ASSUME NEW msgs, NEW t, NEW x
    PROVE  x \in IdsOf(msgs, t) <=>
             \E m \in ToSet(msgs) : \E p \in ToSet(m.parts) : p.type = t /\ x = p.id
BY DEF IdsOf, PartIds

\* System messages are those of the role System.
LEMMA SystemRole ==
    ASSUME NEW r, mapRole(r) = "system"
    PROVE  r = "System"
BY DEF mapRole, RoleNames

\* Roles and parts fit: calls and results are in messages that are sent.
LEMMA ToolPartsAreSent ==
    ASSUME NEW msgs, Sound(msgs), NEW m \in ToSet(msgs), NEW p \in ToSet(m.parts),
           p.type \in {"ToolCall", "ToolResult"}
    PROVE  mapRole(m.role) \notin {"unknown", "system"}
<1>1. mapRole(m.role) # "unknown"
  BY DEF Sound
<1>2. m.role = "System" => p.type = "Text"
  BY DEF Sound, Validate
<1> QED BY <1>1, <1>2, SystemRole

SystemMessage(sysPrompt) ==
    [role |-> "system", toolCalls |-> <<>>, toolCallID |-> "", content |-> <<sysPrompt>>]

\* mapMessages sends every message of a known role, and beside them no other
\* than the prompt (openai.go:118-157).
LEMMA OpenAIMessagesHold ==
    ASSUME NEW msgs, IsSeq(msgs), NEW sysPrompt, NEW e
    PROVE  /\ e \in ToSet(mapMessages(msgs, sysPrompt)) =>
                \/ e = SystemMessage(sysPrompt)
                \/ \E m \in ToSet(msgs) : e = mapMessage(m)
           /\ (\E m \in ToSet(msgs) : mapRole(m.role) # "unknown" /\ e = mapMessage(m)) =>
                e \in ToSet(mapMessages(msgs, sysPrompt))
<1> DEFINE system == [role |-> "system", toolCalls |-> <<>>, toolCallID |-> "",
                      content |-> <<sysPrompt>>]
           Y == {mapMessage(m) : m \in ToSet(msgs)} \cup {system}
           f == [i \in DOMAIN msgs |-> mapMessage(msgs[i])]
           P == {i \in DOMAIN msgs : mapRole(msgs[i].role) # "unknown"}
           first == IF sysPrompt = "" THEN <<>> ELSE <<system>>
           rest == Among(f, P)
<1>0. msgs \in Seq(ToSet(msgs)) /\ \A i \in DOMAIN msgs : msgs[i] \in ToSet(msgs)
  BY DEF IsSeq, ToSet
<1>1. DOMAIN f = DOMAIN msgs /\ f = [i \in DOMAIN f |-> f[i]] /\ \A i \in DOMAIN msgs : f[i] \in Y
  BY <1>0
<1>2. mapMessages(msgs, sysPrompt) = first \o rest
  BY DEF mapMessages
<1>3. \A i \in DOMAIN msgs : /\ f[i] = mapMessage(msgs[i])
                             /\ i \in P <=> mapRole(msgs[i].role) # "unknown"
  OBVIOUS
<1>4. first \in Seq(Y) /\ (e \in ToSet(first) <=> sysPrompt # "" /\ e = system)
  <2>1. system \in Y
    OBVIOUS
  <2> HIDE DEF system, Y, f, P, rest
  <2>2. ToSet(<<>>) = {} /\ ToSet(<<system>>) = {system}
    BY DEF ToSet
  <2>3. CASE sysPrompt = ""
    <3>1. first = <<>>
      BY <2>3, Zenon
    <3>2. <<>> \in Seq(Y)
      OBVIOUS
    <3> HIDE DEF first
    <3> QED BY <2>2, <2>3, <3>1, <3>2, Zenon
  <2>4. CASE sysPrompt # ""
    <3>1. first = <<system>>
      BY <2>4, Zenon
    <3>2. <<system>> \in Seq(Y)
      BY <2>1
    <3> HIDE DEF first
    <3> QED BY <2>2, <2>4, <3>1, <3>2, Zenon
  <2> QED BY <2>3, <2>4
<1> HIDE DEF f, P, Y, first
<1>5. f \in Seq(Y)
  BY <1>0, <1>1, MapTyped
<1>6. rest \in Seq(Y) /\ (e \in ToSet(rest) <=> \E i \in DOMAIN f : i \in P /\ e = f[i])
  BY <1>5, AmongHolds
<1>7. (\E i \in DOMAIN f : i \in P /\ e = f[i]) <=>
        \E m \in ToSet(msgs) : mapRole(m.role) # "unknown" /\ e = mapMessage(m)
  BY <1>1, <1>3 DEF ToSet
<1> HIDE DEF rest, system
<1>8. e \in ToSet(first \o rest) <=> e \in ToSet(first) \/ e \in ToSet(rest)
  BY <1>4, <1>6, ToSetConcat
<1>9. e \in ToSet(first) => e = system
  BY <1>4, Zenon
<1>10. system = SystemMessage(sysPrompt)
  BY Zenon DEF system, SystemMessage
<1> QED BY <1>2, <1>6, <1>7, <1>8, <1>9, <1>10

\* The Anthropic provider sends every message of a known role but System that
\* keeps a part (anthropic.go:108-148).
LEMMA AnthropicMessagesHold ==
    ASSUME NEW msgs, IsSeq(msgs), NEW e
    PROVE  e \in ToSet(AnthropicMessages(msgs)) <=>
             \E m \in ToSet(msgs) : /\ mapRole(m.role) \notin {"unknown", "system"}
                                    /\ AnthropicMessage(m).content # <<>>
                                    /\ e = AnthropicMessage(m)
<1> DEFINE Y == {AnthropicMessage(m) : m \in ToSet(msgs)}
           f == [i \in DOMAIN msgs |-> AnthropicMessage(msgs[i])]
           P == {i \in DOMAIN msgs : /\ mapRole(msgs[i].role) \notin {"unknown", "system"}
                                     /\ f[i].content # <<>>}
<1>0. msgs \in Seq(ToSet(msgs)) /\ \A i \in DOMAIN msgs : msgs[i] \in ToSet(msgs)
  BY DEF IsSeq, ToSet
<1>1. DOMAIN f = DOMAIN msgs /\ f = [i \in DOMAIN f |-> f[i]] /\ \A i \in DOMAIN msgs : f[i] \in Y
  BY <1>0
<1>2. AnthropicMessages(msgs) = Among(f, P)
  BY DEF AnthropicMessages
<1>3. \A i \in DOMAIN msgs :
         /\ f[i] = AnthropicMessage(msgs[i])
         /\ i \in P <=> /\ mapRole(msgs[i].role) \notin {"unknown", "system"}
                        /\ AnthropicMessage(msgs[i]).content # <<>>
  OBVIOUS
<1> HIDE DEF f, P, Y
<1>4. f \in Seq(Y)
  BY <1>0, <1>1, MapTyped
<1>5. e \in ToSet(Among(f, P)) <=> \E i \in DOMAIN f : i \in P /\ e = f[i]
  BY <1>4, AmongHolds
<1>6. (\E i \in DOMAIN f : i \in P /\ e = f[i]) <=>
        \E m \in ToSet(msgs) : /\ mapRole(m.role) \notin {"unknown", "system"}
                               /\ AnthropicMessage(m).content # <<>>
                               /\ e = AnthropicMessage(m)
  BY <1>1, <1>3 DEF ToSet
<1> QED BY <1>2, <1>5, <1>6

\* An Anthropic message keeps the calls and the results of its message.
LEMMA AnthropicKeeps ==
    ASSUME NEW m, IsSeq(m.parts), NEW p, p.type \in {"ToolCall", "ToolResult"}
    PROVE  p \in ToSet(AnthropicMessage(m).content) <=> p \in ToSet(m.parts)
<1> DEFINE s == m.parts
           P == {i \in DOMAIN s : s[i].type \in {"Text", "ToolCall", "ToolResult"}}
<1>1. s \in Seq(ToSet(s))
  BY DEF IsSeq
<1>2. AnthropicMessage(m).content = Among(s, P)
  BY DEF AnthropicMessage
<1>3. \A i \in DOMAIN s : i \in P <=> s[i].type \in {"Text", "ToolCall", "ToolResult"}
  OBVIOUS
<1> HIDE DEF s, P
<1>4. p \in ToSet(Among(s, P)) <=> \E i \in DOMAIN s : i \in P /\ p = s[i]
  BY <1>1, AmongHolds
<1>5. p \in ToSet(s) <=> \E i \in DOMAIN s : p = s[i]
  BY DEF ToSet
<1>6. p \in ToSet(Among(s, P)) <=> p \in ToSet(s)
  BY <1>3, <1>4, <1>5
<1> QED BY <1>2, <1>6 DEF s

\* A message that is sent stands for one of the conversation or is the prompt,
\* which has neither calls nor a result.
LEMMA OpenAIMessageOf ==
    ASSUME NEW msgs, IsSeq(msgs), NEW sysPrompt, NEW e \in ToSet(mapMessages(msgs, sysPrompt))
    PROVE  \/ e.toolCalls = <<>> /\ e.toolCallID = ""
           \/ \E m \in ToSet(msgs) : e = mapMessage(m)
<1>1. SystemMessage(sysPrompt).toolCalls = <<>> /\ SystemMessage(sysPrompt).toolCallID = ""
  BY DEF SystemMessage
<1>2. e = SystemMessage(sysPrompt) \/ \E m \in ToSet(msgs) : e = mapMessage(m)
  BY OpenAIMessagesHold
<1> QED BY <1>1, <1>2, Zenon

\* The OpenAI provider sends every call (openai.go:137-145).
LEMMA OpenAICalls ==
    ASSUME NEW msgs, Sound(msgs), NEW sysPrompt, NEW r, r.to = "openai",
           r.body.messages = mapMessages(msgs, sysPrompt)
    PROVE  CallsSent(r) = IdsOf(msgs, "ToolCall")
<1>1. IsSeq(msgs) /\ \A m \in ToSet(msgs) : IsSeq(m.parts)
  BY DEF Sound
<1>2. \A x : x \in CallsSent(r) <=>
         \E e \in ToSet(mapMessages(msgs, sysPrompt)) : \E p \in ToSet(e.toolCalls) :
            p.type = "ToolCall" /\ x = p.id
  BY Zenon DEF CallsSent, PartIds
<1>3. ASSUME NEW m, IsSeq(m.parts), NEW p
      PROVE  p \in ToSet(mapMessage(m).toolCalls) <=> p \in ToSet(m.parts) /\ p.type = "ToolCall"
  <2>2. mapMessage(m).toolCalls = OfType(m.parts, "ToolCall")
    BY DEF mapMessage
  <2> QED BY <1>3, <2>2, OfTypeHolds
<1>4. ASSUME NEW x, x \in CallsSent(r) PROVE x \in IdsOf(msgs, "ToolCall")
  <2>1. PICK e \in ToSet(mapMessages(msgs, sysPrompt)) : \E p \in ToSet(e.toolCalls) :
            p.type = "ToolCall" /\ x = p.id
    BY <1>2, <1>4
  <2>2. e.toolCalls # <<>>
    BY <2>1 DEF ToSet
  <2>3. PICK m \in ToSet(msgs) : e = mapMessage(m)
    BY <1>1, <2>2, OpenAIMessageOf
  <2> QED BY <1>1, <1>3, <2>1, <2>3, IdsIn
<1>5. ASSUME NEW x, x \in IdsOf(msgs, "ToolCall") PROVE x \in CallsSent(r)
  <2>1. PICK m \in ToSet(msgs) : \E p \in ToSet(m.parts) : p.type = "ToolCall" /\ x = p.id
    BY <1>5, IdsIn
  <2>2. PICK p \in ToSet(m.parts) : p.type = "ToolCall" /\ x = p.id
    BY <2>1
  <2>3. mapMessage(m) \in ToSet(mapMessages(msgs, sysPrompt))
    BY <1>1, <2>2, OpenAIMessagesHold, ToolPartsAreSent
  <2>4. p \in ToSet(mapMessage(m).toolCalls)
    BY <1>1, <1>3, <2>2
  <2> QED BY <1>2, <2>2, <2>3, <2>4
<1> QED BY <1>4, <1>5

\* The ids of calls and results are not empty.
LEMMA ResultsNamed ==
    ASSUME NEW msgs, Sound(msgs)
    PROVE  "" \notin IdsOf(msgs, "ToolResult")
<1>1. "" \notin IdsOf(msgs, "ToolCall")
  <2>1. \A m \in ToSet(msgs) : \A p \in ToSet(m.parts) : p.type = "ToolCall" => p.id # ""
    BY Zenon DEF Sound, Named
  <2> QED BY <2>1, Zenon DEF IdsOf, PartIds
<1> QED BY <1>1 DEF Sound

\* The result that mapMessage keeps is one of the message (openai.go:146-148).
LEMMA ResultKept ==
    ASSUME NEW m, IsSeq(m.parts)
    PROVE  LET results == OfType(m.parts, "ToolResult") IN
           /\ results = <<>> => mapMessage(m).toolCallID = ""
           /\ results # <<>> =>
                \E p \in ToSet(m.parts) : p.type = "ToolResult" /\ mapMessage(m).toolCallID = p.id
           /\ Len(results) <= 1 =>
                \A p \in ToSet(m.parts) :
                   p.type = "ToolResult" => mapMessage(m).toolCallID = p.id
<1> DEFINE results == OfType(m.parts, "ToolResult")
           last == IF results = <<>> THEN ToolResult("", "") ELSE Last(results)
<1>2. /\ results \in Seq(ToSet(results))
      /\ \A p : p \in ToSet(results) <=> p \in ToSet(m.parts) /\ p.type = "ToolResult"
  BY OfTypeHolds DEF IsSeq
<1>3. mapMessage(m).toolCallID = last.id
  BY DEF mapMessage
<1> HIDE DEF results
<1>4. CASE results = <<>>
  <2>1. last.id = ""
    BY <1>4 DEF ToolResult
  <2>2. ToSet(results) = {}
    BY <1>4 DEF ToSet
  <2> HIDE DEF last
  <2> QED BY <1>2, <1>3, <1>4, <2>1, <2>2 DEF results
<1>5. CASE results # <<>>
  <2>1. last = results[Len(results)] /\ Len(results) \in DOMAIN results
    BY <1>2, <1>5 DEF Last
  <2>2. last \in ToSet(results)
    BY <2>1 DEF ToSet
  <2>3. Len(results) <= 1 => \A p \in ToSet(results) : p = last
    BY <1>2, <1>5, <2>1 DEF ToSet
  <2> HIDE DEF last
  <2> QED BY <1>2, <1>3, <1>5, <2>2, <2>3 DEF results
<1> QED BY <1>4, <1>5

\* It sends every result of a conversation none of whose messages holds several.
LEMMA OpenAIResults ==
    ASSUME NEW msgs, Sound(msgs), NEW sysPrompt, NEW r, r.to = "openai",
           r.body.messages = mapMessages(msgs, sysPrompt),
           \A m \in ToSet(msgs) : ~(Len(OfType(m.parts, "ToolResult")) > 1)
    PROVE  ResultsSent(r) = IdsOf(msgs, "ToolResult")
<1>1. IsSeq(msgs) /\ \A m \in ToSet(msgs) : IsSeq(m.parts)
  BY DEF Sound
<1>2. \A x : x \in ResultsSent(r) <=>
         x # "" /\ \E e \in ToSet(mapMessages(msgs, sysPrompt)) : x = e.toolCallID
  BY Zenon DEF ResultsSent
<1>3. ASSUME NEW x, x \in ResultsSent(r) PROVE x \in IdsOf(msgs, "ToolResult")
  <2>1. PICK e \in ToSet(mapMessages(msgs, sysPrompt)) : x = e.toolCallID
    BY <1>2, <1>3
  <2>2. e.toolCallID # ""
    BY <1>2, <1>3, <2>1, Zenon
  <2>3. PICK m \in ToSet(msgs) : e = mapMessage(m)
    BY <1>1, <2>2, OpenAIMessageOf, Zenon
  <2>4. IsSeq(m.parts)
    BY <1>1
  <2>5. \E p \in ToSet(m.parts) : p.type = "ToolResult" /\ e.toolCallID = p.id
    BY <2>2, <2>3, <2>4, ResultKept
  <2> QED BY <2>1, <2>5, IdsIn
<1>4. ASSUME NEW x, x \in IdsOf(msgs, "ToolResult") PROVE x \in ResultsSent(r)
  <2>1. PICK m \in ToSet(msgs) : \E p \in ToSet(m.parts) : p.type = "ToolResult" /\ x = p.id
    BY <1>4, IdsIn
  <2>2. PICK p \in ToSet(m.parts) : p.type = "ToolResult" /\ x = p.id
    BY <2>1
  <2>3. mapMessage(m) \in ToSet(mapMessages(msgs, sysPrompt))
    BY <1>1, <2>2, OpenAIMessagesHold, ToolPartsAreSent
  <2>4. IsSeq(m.parts)
    BY <1>1
  <2>5. Len(OfType(m.parts, "ToolResult")) <= 1
    <3> DEFINE results == OfType(m.parts, "ToolResult")
    <3>1. results \in Seq(ToSet(results)) /\ ~(Len(results) > 1)
      BY <2>4, OfTypeHolds DEF IsSeq
    <3> HIDE DEF results
    <3>2. Len(results) <= 1
      BY <3>1
    <3> QED BY <3>2 DEF results
  <2>6. mapMessage(m).toolCallID = x
    BY <2>2, <2>4, <2>5, ResultKept
  <2>7. x # ""
    BY <1>4, ResultsNamed
  <2> QED BY <1>2, <2>3, <2>6, <2>7
<1> QED BY <1>3, <1>4

\* The Anthropic provider sends every call and every result (anthropic.go:124-142).
LEMMA AnthropicParts ==
    ASSUME NEW msgs, Sound(msgs), NEW r, r.to # "openai",
           r.body.messages = AnthropicMessages(msgs)
    PROVE  /\ CallsSent(r) = IdsOf(msgs, "ToolCall")
           /\ ResultsSent(r) = IdsOf(msgs, "ToolResult")
<1>1. IsSeq(msgs) /\ \A m \in ToSet(msgs) : IsSeq(m.parts)
  BY DEF Sound
<1> DEFINE Sent(t) == PartIds(UNION {ToSet(e.content) : e \in ToSet(AnthropicMessages(msgs))}, t)
<1>2. ASSUME NEW t \in {"ToolCall", "ToolResult"}, NEW x
      PROVE  x \in Sent(t) <=> x \in IdsOf(msgs, t)
  <2>1. x \in Sent(t) <=>
           \E e \in ToSet(AnthropicMessages(msgs)) : \E p \in ToSet(e.content) :
              p.type = t /\ x = p.id
    BY Zenon DEF PartIds
  <2>2. ASSUME x \in Sent(t) PROVE x \in IdsOf(msgs, t)
    <3>1. PICK e \in ToSet(AnthropicMessages(msgs)) : \E p \in ToSet(e.content) :
              p.type = t /\ x = p.id
      BY <2>1, <2>2
    <3>2. PICK p \in ToSet(e.content) : p.type = t /\ x = p.id
      BY <3>1
    <3>3. PICK m \in ToSet(msgs) : e = AnthropicMessage(m)
      BY <1>1, AnthropicMessagesHold
    <3>4. IsSeq(m.parts)
      BY <1>1
    <3>5. p \in ToSet(m.parts)
      BY <3>2, <3>3, <3>4, AnthropicKeeps
    <3> QED BY <3>2, <3>5, IdsIn
  <2>3. ASSUME x \in IdsOf(msgs, t) PROVE x \in Sent(t)
    <3>1. PICK m \in ToSet(msgs) : \E p \in ToSet(m.parts) : p.type = t /\ x = p.id
      BY <2>3, IdsIn
    <3>2. PICK p \in ToSet(m.parts) : p.type = t /\ x = p.id
      BY <3>1
    <3>3. IsSeq(m.parts)
      BY <1>1
    <3>4. p \in ToSet(AnthropicMessage(m).content)
      BY <3>2, <3>3, AnthropicKeeps
    <3>5. AnthropicMessage(m).content # <<>>
      BY <3>4 DEF ToSet
    <3>6. mapRole(m.role) \notin {"unknown", "system"}
      BY <3>2, ToolPartsAreSent
    <3>7. AnthropicMessage(m) \in ToSet(AnthropicMessages(msgs))
      BY <1>1, <3>5, <3>6, AnthropicMessagesHold
    <3> HIDE DEF Sent
    <3> QED BY <2>1, <3>2, <3>4, <3>7
  <2> QED BY <2>2, <2>3
<1>3. CallsSent(r) = Sent("ToolCall") /\ ResultsSent(r) = Sent("ToolResult")
  BY Zenon DEF CallsSent, ResultsSent
<1> HIDE DEF Sent
<1> QED BY <1>2, <1>3
-----------------------------------------------------------------------------
(* Requests: how a conversation grows *)

\* What an answer is: texts and calls with ids.
SaidPart(p) == p.type \in {"Text", "ToolCall"} /\ (p.type = "ToolCall" => p.id # "")

Spoken(parts) == IsSeq(parts) /\ \A p \in ToSet(parts) : SaidPart(p)

LEMMA CallSaid ==
    ASSUME NEW id, NEW a, id # ""
    PROVE  SaidPart(ToolCall(id, a))
<1>1. ToolCall(id, a).type = "ToolCall" /\ ToolCall(id, a).id = id
  BY DEF ToolCall
<1>2. ToolCall(id, a).type \in {"Text", "ToolCall"}
  BY <1>1
<1> QED BY <1>1, <1>2, Zenon DEF SaidPart

LEMMA TextSaid ==
    ASSUME NEW p, p.type = "Text"
    PROVE  SaidPart(p)
<1>1. "Text" # "ToolCall"
  OBVIOUS
<1> QED BY <1>1, Zenon DEF SaidPart

\* mapResponse hands on the text and the calls (openai.go:280-304).
LEMMA OpenAIAnswers ==
    ASSUME NEW choice \in Replies["openai"]
    PROVE  Spoken(OpenAIResponse(choice))
<1> DEFINE calls == choice.toolCalls
           f == [i \in DOMAIN calls |-> ToolCall(calls[i].id, ParseArgs(calls[i].text))]
           text == Text(choice.content)
           first == IF choice.content = "" THEN <<>> ELSE <<text>>
           Y == {f[i] : i \in DOMAIN calls} \cup {text}
<1>0. calls \in Seq(ToSet(calls))
  BY ConversationAssumption, Zenon DEF IsSeq
<1>1. \A call \in ToSet(calls) : call.id # ""
  BY ConversationAssumption, Zenon
<1>2. OpenAIResponse(choice) = first \o f
  BY DEF OpenAIResponse
<1>3. \A i \in DOMAIN calls : f[i] = ToolCall(calls[i].id, ParseArgs(calls[i].text))
  OBVIOUS
<1>4. \A i \in DOMAIN calls : SaidPart(f[i])
  <2> SUFFICES ASSUME NEW i \in DOMAIN calls PROVE SaidPart(f[i])
    OBVIOUS
  <2>1. calls[i] \in ToSet(calls)
    BY DEF ToSet
  <2>2. calls[i].id # ""
    BY <1>1, <2>1, Zenon
  <2> HIDE DEF f, calls
  <2> QED BY <1>3, <2>2, CallSaid, Zenon
<1>5. DOMAIN f = DOMAIN calls /\ f = [i \in DOMAIN f |-> f[i]] /\ \A i \in DOMAIN calls : f[i] \in Y
  OBVIOUS
<1>6. SaidPart(text)
  BY TextSaid DEF Text
<1>7. first = <<>> \/ first = <<text>>
  BY Zenon
<1>8. \A y \in Y : SaidPart(y)
  <2> HIDE DEF f, text
  <2> QED BY <1>4, <1>6
<1>9. text \in Y
  OBVIOUS
<1> HIDE DEF f, first, calls, text, Y
<1>10. first \in Seq(Y)
  <2>1. <<>> \in Seq(Y) /\ <<text>> \in Seq(Y)
    BY <1>9
  <2> QED BY <1>7, <2>1, Zenon
<1>11. f \in Seq(Y)
  BY <1>0, <1>5, MapTyped
<1>12. first \o f \in Seq(Y)
  BY <1>10, <1>11
<1>13. \A p \in ToSet(first \o f) : p \in Y
  <2> DEFINE all == first \o f
  <2>1. all \in Seq(Y)
    BY <1>12
  <2> HIDE DEF all
  <2>2. \A p \in ToSet(all) : p \in Y
    BY <2>1 DEF ToSet
  <2> QED BY <2>2 DEF all
<1>14. IsSeq(first \o f)
  BY <1>12, Narrowed DEF IsSeq
<1> QED BY <1>2, <1>8, <1>13, <1>14 DEF Spoken

\* Generate hands on the blocks it knows (anthropic.go:241-262).
LEMMA AnthropicAnswers ==
    ASSUME NEW blocks \in Replies["anthropic"]
    PROVE  Spoken(AnthropicResponse(blocks))
<1> DEFINE f == [i \in DOMAIN blocks |->
                   IF blocks[i].type = "Text" THEN blocks[i]
                   ELSE ToolCall(blocks[i].id, ParseArgs(blocks[i].text))]
           P == {i \in DOMAIN blocks : blocks[i].type \in {"Text", "ToolCall"}}
           Y == {f[i] : i \in DOMAIN blocks}
<1>1. IsSeq(blocks) /\ Named(blocks)
  BY ConversationAssumption
<1>2. AnthropicResponse(blocks) = Among(f, P)
  BY DEF AnthropicResponse
<1>3. ASSUME NEW i \in DOMAIN blocks, i \in P PROVE SaidPart(f[i])
  <2>1. CASE blocks[i].type = "Text"
    <3>1. f[i] = blocks[i]
      BY <2>1
    <3> HIDE DEF f
    <3> QED BY <2>1, <3>1, TextSaid
  <2>2. CASE blocks[i].type # "Text"
    <3>1. f[i] = ToolCall(blocks[i].id, ParseArgs(blocks[i].text))
      BY <2>2
    <3>2. blocks[i].type = "ToolCall"
      BY <1>3, <2>2
    <3>3. blocks[i] \in ToSet(blocks)
      BY DEF ToSet
    <3>4. blocks[i].id # ""
      BY <1>1, <3>2, <3>3, Zenon DEF Named
    <3> HIDE DEF f, P
    <3> QED BY <3>1, <3>4, CallSaid, Zenon
  <2> QED BY <2>1, <2>2
<1>4. DOMAIN f = DOMAIN blocks /\ f = [i \in DOMAIN f |-> f[i]] /\ \A i \in DOMAIN blocks : f[i] \in Y
  OBVIOUS
<1> HIDE DEF f, P, Y
<1>5. f \in Seq(Y)
  BY <1>1, <1>4, MapTyped DEF IsSeq
<1>6. /\ Among(f, P) \in Seq(Y)
      /\ \A x : x \in ToSet(Among(f, P)) <=> \E i \in DOMAIN f : i \in P /\ x = f[i]
  BY <1>5, AmongHolds
<1>7. \A x \in ToSet(Among(f, P)) : SaidPart(x)
  BY <1>3, <1>4, <1>6
<1>8. IsSeq(Among(f, P))
  BY <1>6, Narrowed DEF IsSeq
<1> QED BY <1>2, <1>7, <1>8 DEF Spoken

LEMMA KnownRoles ==
    mapRole("Assistant") # "unknown" /\ mapRole("Tool") # "unknown"
BY DEF mapRole, RoleNames

\* What an answer and the messages that reply to it add to a conversation.
LEMMA SoundGrows ==
    ASSUME NEW msgs, Sound(msgs), NEW parts, Spoken(parts), NEW replies, IsSeq(replies),
           \A m \in ToSet(replies) : /\ m.role = "Tool" /\ IsSeq(m.parts)
                                     /\ \A p \in ToSet(m.parts) : p.type = "ToolResult",
           \A x : x \in IdsOf(replies, "ToolResult") <=>
                     \E p \in ToSet(parts) : p.type = "ToolCall" /\ x = p.id
    PROVE  Sound((msgs \o <<[role |-> "Assistant", parts |-> parts]>>) \o replies)
<1> DEFINE said == [role |-> "Assistant", parts |-> parts]
           all == (msgs \o <<said>>) \o replies
           Z == ToSet(msgs) \cup {said} \cup ToSet(replies)
<1>1. said.role = "Assistant" /\ said.parts = parts
  OBVIOUS
<1>2. msgs \in Seq(Z) /\ <<said>> \in Seq(Z) /\ replies \in Seq(Z)
  <2>1. \A x \in ToSet(msgs) : x \in Z
    OBVIOUS
  <2>2. \A x \in ToSet(replies) : x \in Z
    OBVIOUS
  <2>3. said \in Z
    OBVIOUS
  <2>4. msgs \in Seq(ToSet(msgs)) /\ replies \in Seq(ToSet(replies))
    BY DEF Sound, IsSeq
  <2> HIDE DEF Z, said
  <2>5. msgs \in Seq(Z) /\ replies \in Seq(Z)
    BY <2>1, <2>2, <2>4, Narrowed
  <2>6. <<said>> \in Seq(Z)
    BY <2>3
  <2> QED BY <2>5, <2>6
<1> HIDE DEF said, Z
<1>3. all \in Seq(Z) /\ msgs \o <<said>> \in Seq(Z)
  BY <1>2
<1>4. \A m : m \in ToSet(all) <=> m \in ToSet(msgs) \/ m = said \/ m \in ToSet(replies)
  <2>1. ASSUME NEW m
        PROVE  m \in ToSet(all) <=> m \in ToSet(msgs) \/ m \in ToSet(<<said>>) \/ m \in ToSet(replies)
    <3> DEFINE front == msgs \o <<said>>
    <3>1. m \in ToSet(front) <=> m \in ToSet(msgs) \/ m \in ToSet(<<said>>)
      BY <1>2, ToSetConcat
    <3>2. front \in Seq(Z) /\ replies \in Seq(Z)
      BY <1>2, <1>3
    <3>3. all = front \o replies
      OBVIOUS
    <3> HIDE DEF front, all
    <3>4. m \in ToSet(all) <=> m \in ToSet(front) \/ m \in ToSet(replies)
      BY <3>2, <3>3, ToSetConcat
    <3> QED BY <3>1, <3>4
  <2>2. ToSet(<<said>>) = {said}
    BY DEF ToSet
  <2> HIDE DEF all
  <2> QED BY <2>1, <2>2
<1>5. IsSeq(all)
  BY <1>3, Narrowed DEF IsSeq
<1> HIDE DEF all
<1> DEFINE Fits(m) == /\ IsSeq(m.parts) /\ Validate(m) /\ Named(m.parts)
                      /\ mapRole(m.role) = "unknown" =>
                            \A p \in ToSet(m.parts) : p.type \notin {"ToolCall", "ToolResult"}
<1>6. ASSUME NEW m \in ToSet(msgs) PROVE Fits(m)
  BY <1>6 DEF Sound
<1>7. Fits(said)
  <2>1. IsSeq(said.parts) /\ \A p \in ToSet(said.parts) : SaidPart(p)
    BY <1>1 DEF Spoken
  <2>2. Named(said.parts)
    BY <2>1, Zenon DEF Named, SaidPart
  <2>3. \A p \in ToSet(said.parts) : p.type \in {"Text", "ToolCall"}
    BY <2>1, Zenon DEF SaidPart
  <2>4. Validate(said)
    BY <1>1, <2>3 DEF Validate
  <2> QED BY <1>1, <2>1, <2>2, <2>4, KnownRoles
<1>8. ASSUME NEW m \in ToSet(replies) PROVE Fits(m)
  <2>1. m.role = "Tool" /\ IsSeq(m.parts) /\ \A p \in ToSet(m.parts) : p.type = "ToolResult"
    BY <1>8
  <2>2. Validate(m)
    BY <2>1 DEF Validate
  <2>3. \A p \in ToSet(m.parts) : p.type # "ToolCall"
    BY <2>1
  <2>4. Named(m.parts)
    BY <2>3, Zenon DEF Named
  <2> QED BY <2>1, <2>2, <2>4, KnownRoles
<1>9. \A m \in ToSet(all) : Fits(m)
  <2> HIDE DEF Fits
  <2> QED BY <1>4, <1>6, <1>7, <1>8
<1>10. ASSUME NEW x
       PROVE  x \in IdsOf(all, "ToolResult") <=> x \in IdsOf(all, "ToolCall")
  <2> DEFINE answered == \E p \in ToSet(parts) : p.type = "ToolCall" /\ x = p.id
  <2>1. ASSUME NEW t
        PROVE  x \in IdsOf(all, t) <=>
                 \/ x \in IdsOf(msgs, t)
                 \/ \E p \in ToSet(said.parts) : p.type = t /\ x = p.id
                 \/ x \in IdsOf(replies, t)
    BY <1>4, IdsIn
  <2>2. \A p \in ToSet(said.parts) : p.type # "ToolResult"
    <3>1. \A p \in ToSet(said.parts) : p.type \in {"Text", "ToolCall"}
      BY <1>1, Zenon DEF Spoken, SaidPart
    <3> QED BY <3>1
  <2>3. x \notin IdsOf(replies, "ToolCall")
    BY IdsIn
  <2>4. x \in IdsOf(msgs, "ToolResult") <=> x \in IdsOf(msgs, "ToolCall")
    BY DEF Sound
  <2>5. x \in IdsOf(replies, "ToolResult") <=> answered
    OBVIOUS
  <2>6. (\E p \in ToSet(said.parts) : p.type = "ToolCall" /\ x = p.id) <=> answered
    BY <1>1
  <2> HIDE DEF answered
  <2> QED BY <2>1, <2>2, <2>3, <2>4, <2>5, <2>6
<1>11. IdsOf(all, "ToolResult") = IdsOf(all, "ToolCall")
  BY <1>10
<1>12. Sound(all)
  BY <1>5, <1>9, <1>11, Zenon DEF Sound
<1> QED BY <1>12 DEF all, said

\* A caller answers every call of the model, in one message or in one for each.
LEMMA RepliesAnswer ==
    ASSUME NEW parts, Spoken(parts), NEW calls, calls = OfType(parts, "ToolCall"),
           NEW results, results = [i \in DOMAIN calls |-> ToolResult(calls[i].id, "r")],
           NEW replies,
           \/ results # <<>> /\ replies = <<[role |-> "Tool", parts |-> results]>>
           \/ replies = [i \in DOMAIN results |-> [role |-> "Tool", parts |-> <<results[i]>>]]
    PROVE  /\ IsSeq(replies)
           /\ \A m \in ToSet(replies) : /\ m.role = "Tool" /\ IsSeq(m.parts)
                                        /\ \A p \in ToSet(m.parts) : p.type = "ToolResult"
           /\ \A x : x \in IdsOf(replies, "ToolResult") <=>
                        \E p \in ToSet(parts) : p.type = "ToolCall" /\ x = p.id
<1>1. /\ IsSeq(calls)
      /\ \A p : p \in ToSet(calls) <=> p \in ToSet(parts) /\ p.type = "ToolCall"
  BY OfTypeHolds DEF Spoken
<1>2. /\ DOMAIN results = DOMAIN calls /\ results = [i \in DOMAIN results |-> results[i]]
      /\ \A i \in DOMAIN calls : results[i].type = "ToolResult" /\ results[i].id = calls[i].id
  BY DEF ToolResult
<1> DEFINE R == {results[i] : i \in DOMAIN calls}
<1>3. results \in Seq(R) /\ Len(results) = Len(calls)
  <2>1. \A i \in DOMAIN calls : results[i] \in R
    OBVIOUS
  <2> HIDE DEF R
  <2> QED BY <1>1, <1>2, <2>1, MapTyped DEF IsSeq
<1>4. IsSeq(results)
  BY <1>3, Narrowed DEF IsSeq
<1>5. \A p : p \in ToSet(results) <=> \E i \in DOMAIN calls : p = results[i]
  BY <1>2 DEF ToSet
<1>6. \A p \in ToSet(results) : p.type = "ToolResult"
  BY <1>2, <1>5
<1>7. \A x : (\E p \in ToSet(results) : x = p.id) <=>
                \E p \in ToSet(parts) : p.type = "ToolCall" /\ x = p.id
  <2>1. \A p : p \in ToSet(calls) <=> \E i \in DOMAIN calls : p = calls[i]
    BY DEF ToSet
  <2>2. ASSUME NEW x
        PROVE  (\E p \in ToSet(results) : x = p.id) <=> \E i \in DOMAIN calls : x = calls[i].id
    <3>1. (\E p \in ToSet(results) : x = p.id) <=> \E i \in DOMAIN calls : x = results[i].id
      BY ONLY <1>5
    <3> QED BY ONLY <1>2, <3>1
  <2>3. ASSUME NEW x
        PROVE  (\E p \in ToSet(parts) : p.type = "ToolCall" /\ x = p.id)
                  <=> \E i \in DOMAIN calls : x = calls[i].id
    <3>1. (\E p \in ToSet(parts) : p.type = "ToolCall" /\ x = p.id)
             <=> \E p \in ToSet(calls) : x = p.id
      BY ONLY <1>1
    <3> QED BY ONLY <2>1, <3>1
  <2> QED BY ONLY <2>2, <2>3
<1>8. CASE results # <<>> /\ replies = <<[role |-> "Tool", parts |-> results]>>
  <2> DEFINE m == [role |-> "Tool", parts |-> results]
  <2>1. m.role = "Tool" /\ m.parts = results /\ replies = <<m>>
    BY <1>8
  <2> HIDE DEF m
  <2>2. ToSet(replies) = {m} /\ IsSeq(replies)
    BY <2>1 DEF ToSet, IsSeq
  <2>3. ASSUME NEW x
        PROVE  x \in IdsOf(replies, "ToolResult") <=> \E p \in ToSet(results) : x = p.id
    BY <1>6, <2>1, <2>2, IdsIn
  <2> QED BY <1>4, <1>6, <1>7, <2>1, <2>2, <2>3
<1>9. CASE replies = [i \in DOMAIN results |-> [role |-> "Tool", parts |-> <<results[i]>>]]
  <2>1. /\ DOMAIN replies = DOMAIN results /\ replies = [i \in DOMAIN replies |-> replies[i]]
        /\ \A i \in DOMAIN results : replies[i].role = "Tool" /\ replies[i].parts = <<results[i]>>
    BY <1>9
  <2> DEFINE Q == {replies[i] : i \in DOMAIN results}
  <2>2. replies \in Seq(Q)
    <3>1. \A i \in DOMAIN results : replies[i] \in Q
      OBVIOUS
    <3> HIDE DEF Q
    <3> QED BY <1>3, <2>1, <3>1, MapTyped
  <2>3. IsSeq(replies)
    BY <2>2, Narrowed DEF IsSeq
  <2>4. \A m : m \in ToSet(replies) <=> \E i \in DOMAIN results : m = replies[i]
    BY <2>1 DEF ToSet
  <2>5. \A i \in DOMAIN results : IsSeq(<<results[i]>>) /\ ToSet(<<results[i]>>) = {results[i]}
    BY DEF IsSeq, ToSet
  <2>6. \A m \in ToSet(replies) : /\ m.role = "Tool" /\ IsSeq(m.parts)
                                  /\ \A p \in ToSet(m.parts) : p.type = "ToolResult"
    BY <1>2, <2>1, <2>4, <2>5
  <2>7. ASSUME NEW x
        PROVE  x \in IdsOf(replies, "ToolResult") <=> \E p \in ToSet(results) : x = p.id
    <3> DEFINE answered == \E i \in DOMAIN results : x = results[i].id
    <3>1. x \in IdsOf(replies, "ToolResult") <=>
            \E m \in ToSet(replies) : \E p \in ToSet(m.parts) : p.type = "ToolResult" /\ x = p.id
      BY IdsIn
    <3>2. (\E m \in ToSet(replies) : \E p \in ToSet(m.parts) : p.type = "ToolResult" /\ x = p.id)
             <=> answered
      BY <1>2, <2>1, <2>4, <2>5
    <3>3. (\E p \in ToSet(results) : x = p.id) <=> answered
      BY ONLY <1>2, <1>5
    <3> HIDE DEF answered
    <3>4. x \in IdsOf(replies, "ToolResult") <=> answered
      BY ONLY <3>1, <3>2, Zenon
    <3> QED BY ONLY <3>3, <3>4, Zenon
  <2>8. \A x : x \in IdsOf(replies, "ToolResult") <=>
                 \E p \in ToSet(parts) : p.type = "ToolCall" /\ x = p.id
    BY ONLY <1>7, <2>7
  <2> QED BY ONLY <2>3, <2>6, <2>8
<1> QED BY <1>8, <1>9
-----------------------------------------------------------------------------
(* Requests: the invariant *)

PromptShape ==
    /\ conv = [c \in Callers |-> conv[c]]
    /\ typed = [c \in Callers |-> typed[c]]
    /\ prompt = [c \in Callers |-> prompt[c]]

\* The conversation of a caller and the answer that will join it are sound, and a
\* request that is out was made from the conversation as it is.
Prompted(c) ==
    /\ Sound(conv[c])
    /\ Spoken(ret[c].answer.parts)
    /\ pc[c] \in {"wire", "doomed"} =>
          \E p \in Providers : prompt[c] = [to |-> p, body |-> Request(c, p)]

PromptInv == PromptShape /\ \A c \in Callers : Prompted(c)

\* Nothing happens to the conversations, the answers are sound, and a request
\* that is out was out before or is made now.
LEMMA PromptsMove ==
    ASSUME PromptInv, UNCHANGED <<conv, typed>>, prompt' = [c \in Callers |-> prompt'[c]],
           \A c \in Callers : Spoken(ret'[c].answer.parts),
           \A c \in Callers : pc'[c] \in {"wire", "doomed"} =>
              \/ pc[c] \in {"wire", "doomed"} /\ prompt'[c] = prompt[c]
              \/ \E p \in Providers : prompt'[c] = [to |-> p, body |-> Request(c, p)]
    PROVE  PromptInv'
<1>1. PromptShape'
  BY DEF PromptInv, PromptShape
<1>2. \A c, p : Request(c, p)' = Request(c, p)
  BY DEF Request
<1>3. ASSUME NEW c \in Callers PROVE Prompted(c)'
  <2>1. Sound(conv[c])'
    BY DEF PromptInv, Prompted
  <2>2. Spoken(ret[c].answer.parts)'
    OBVIOUS
  <2>3. ASSUME pc'[c] \in {"wire", "doomed"}
        PROVE  \E p \in Providers : prompt'[c] = [to |-> p, body |-> Request(c, p)']
    <3>1. \E p \in Providers : prompt'[c] = [to |-> p, body |-> Request(c, p)]
      BY <2>3 DEF PromptInv, Prompted
    <3> QED BY <1>2, <3>1
  <2> QED BY <2>1, <2>2, <2>3 DEF Prompted
<1> QED BY <1>1, <1>3 DEF PromptInv

LEMMA NothingSpoken == Spoken(<<>>) /\ Spoken(NoAnswer.parts)
<1>1. IsSeq(<<>>) /\ ToSet(<<>>) = {}
  BY DEF IsSeq, ToSet
<1>2. Spoken(<<>>)
  BY <1>1, Zenon DEF Spoken
<1>3. NoAnswer.parts = <<>>
  BY DEF NoAnswer
<1> QED BY <1>2, <1>3

\* A call that returns has no request out.
LEMMA ReturnPrompts ==
    ASSUME CallInv, PromptInv, NEW c \in Callers, NEW at \in {"done", "stream"}, NEW err,
           NEW answer, Spoken(answer.parts), Return(c, at, err, answer), UNCHANGED <<conv, typed>>
    PROVE  PromptInv'
<1>1. /\ pc' = [pc EXCEPT ![c] = at]
      /\ ret' = [ret EXCEPT ![c] = [err |-> err, answer |-> answer]]
      /\ prompt' = [prompt EXCEPT ![c] = NoPrompt]
  BY DEF Return
<1>2. pc'[c] = at /\ ret'[c].answer = answer
  BY <1>1 DEF CallInv, CallShape
<1>3. \A d \in Callers \ {c} : pc'[d] = pc[d] /\ ret'[d] = ret[d] /\ prompt'[d] = prompt[d]
  BY <1>1 DEF CallInv, CallShape, PromptInv, PromptShape
<1>4. prompt' = [d \in Callers |-> prompt'[d]]
  BY <1>1 DEF PromptInv, PromptShape
<1>5. ASSUME NEW d \in Callers PROVE Spoken(ret'[d].answer.parts)
  BY <1>2, <1>3 DEF PromptInv, Prompted
<1>6. ASSUME NEW d \in Callers, pc'[d] \in {"wire", "doomed"}
      PROVE  pc[d] \in {"wire", "doomed"} /\ prompt'[d] = prompt[d]
  BY <1>2, <1>3, <1>6
<1> QED BY <1>4, <1>5, <1>6, PromptsMove

\* A call that goes on without a request.
LEMMA ContinuePrompts ==
    ASSUME CallInv, PromptInv, NEW c \in Callers, NEW at \in {"try", "backoff"},
           Continue(c, at), UNCHANGED <<conv, typed>>
    PROVE  PromptInv'
<1>1. pc' = [pc EXCEPT ![c] = at] /\ ret' = ret /\ prompt' = prompt
  BY DEF Continue
<1>2. pc'[c] = at /\ \A d \in Callers \ {c} : pc'[d] = pc[d]
  BY <1>1 DEF CallInv, CallShape
<1>3. prompt' = [d \in Callers |-> prompt'[d]]
  BY <1>1 DEF PromptInv, PromptShape
<1>4. \A d \in Callers : Spoken(ret'[d].answer.parts)
  BY <1>1 DEF PromptInv, Prompted
<1>5. ASSUME NEW d \in Callers, pc'[d] \in {"wire", "doomed"}
      PROVE  pc[d] \in {"wire", "doomed"} /\ prompt'[d] = prompt[d]
  BY <1>1, <1>2, <1>5
<1> QED BY <1>3, <1>4, <1>5, PromptsMove

LEMMA FailPrompts ==
    ASSUME CallInv, PromptInv, NEW c \in Callers, NEW err, ProviderFails(c, err),
           UNCHANGED <<conv, typed>>
    PROVE  PromptInv'
<1>1. CASE err = "Fatal"
  BY <1>1, NothingSpoken, ReturnPrompts DEF ProviderFails
<1>2. CASE err # "Fatal"
  BY <1>2, ContinuePrompts DEF ProviderFails
<1> QED BY <1>1, <1>2

\* The request of a caller is made from its conversation (openai.go:160-198,
\* anthropic.go:93-171).
LEMMA SendPrompts ==
    ASSUME CallInv, PromptInv, NEW c \in Callers, Send(c)
    PROVE  PromptInv'
<1> DEFINE p == Chain[pos[c]]
           request == [to |-> p, body |-> Request(c, p)]
<1>1. pc[c] = "try" /\ pos[c] <= Len(Chain) /\ UNCHANGED <<conv, typed>>
  BY DEF Send
<1>2. p \in Providers
  <2>1. pos[c] \in 1..Len(Chain)
    BY <1>1, ChainLength DEF CallInv, CallShape
  <2> QED BY <2>1, ChainLength
<1>3. CASE ~Admits(p)
  BY <1>1, <1>3, FailPrompts DEF Send
<1>4. CASE Admits(p)
  <2>1. /\ prompt' = [prompt EXCEPT ![c] = request] /\ ret' = ret
        /\ pc' = [pc EXCEPT ![c] = IF cancelled[c] THEN "doomed" ELSE "wire"]
    BY <1>4 DEF Send
  <2>2. \E q \in Providers : request = [to |-> q, body |-> Request(c, q)]
    BY <1>2
  <2> HIDE DEF request, p
  <2>3. prompt' = [d \in Callers |-> prompt'[d]] /\ prompt'[c] = request
    BY <2>1 DEF PromptInv, PromptShape
  <2>4. \A d \in Callers \ {c} : pc'[d] = pc[d] /\ prompt'[d] = prompt[d]
    BY <2>1 DEF CallInv, CallShape, PromptInv, PromptShape
  <2>5. \A d \in Callers : Spoken(ret'[d].answer.parts)
    BY <2>1 DEF PromptInv, Prompted
  <2>6. ASSUME NEW d \in Callers, pc'[d] \in {"wire", "doomed"}
        PROVE  \/ pc[d] \in {"wire", "doomed"} /\ prompt'[d] = prompt[d]
               \/ \E q \in Providers : prompt'[d] = [to |-> q, body |-> Request(d, q)]
    <3>1. CASE d = c
      BY <2>2, <2>3, <3>1
    <3>2. CASE d # c
      BY <2>4, <2>6, <3>2
    <3> QED BY <3>1, <3>2
  <2> QED BY <1>1, <2>3, <2>5, <2>6, PromptsMove
<1> QED BY <1>3, <1>4

\* The answer of a service is one that the conversation can take.
LEMMA AnswerPrompts ==
    ASSUME CallInv, PromptInv, NEW c \in Callers, pc[c] = "wire",
           NEW reply \in Replies[Chain[pos[c]]], Answer(c, reply)
    PROVE  PromptInv'
<1> DEFINE p == Chain[pos[c]]
           parts == IF p = "openai" THEN OpenAIResponse(reply) ELSE AnthropicResponse(reply)
           answer == [from |-> p, parts |-> parts]
<1>1. p \in {"openai", "anthropic"} /\ reply \in Replies[p]
  BY AnswerIsFrom DEF Providers
<1>2. Return(c, "done", "nil", answer) /\ UNCHANGED <<conv, typed>>
  BY DEF Answer
<1>3. Spoken(parts)
  <2>1. CASE p = "openai"
    BY <1>1, <2>1, OpenAIAnswers
  <2>2. CASE p = "anthropic"
    <3>1. parts = AnthropicResponse(reply) /\ reply \in Replies["anthropic"]
      BY <1>1, <2>2
    <3> HIDE DEF parts
    <3> QED BY <3>1, AnthropicAnswers
  <2> QED BY <1>1, <2>1, <2>2
<1> HIDE DEF parts, p
<1>4. answer.parts = parts
  OBVIOUS
<1> HIDE DEF answer
<1> QED BY <1>2, <1>3, <1>4, ReturnPrompts

\* The answer and the results join the conversation.
LEMMA TurnPrompts ==
    ASSUME CallInv, PromptInv, NEW c \in Callers, NEW together, NEW reloaded,
           NextTurn(c, together, reloaded)
    PROVE  PromptInv'
<1> DEFINE parts   == ret[c].answer.parts
           calls   == OfType(parts, "ToolCall")
           results == [i \in DOMAIN calls |-> ToolResult(calls[i].id, "r")]
           said    == [role |-> "Assistant", parts |-> parts]
           replies == IF together /\ results # <<>>
                      THEN <<[role |-> "Tool", parts |-> results]>>
                      ELSE [i \in DOMAIN results |-> [role |-> "Tool", parts |-> <<results[i]>>]]
           grown   == (conv[c] \o <<said>>) \o replies
<1>1. /\ conv' = [conv EXCEPT ![c] = grown]
      /\ typed' = [typed EXCEPT ![c] = @ /\ ~reloaded]
      /\ pc' = [pc EXCEPT ![c] = "idle"]
      /\ UNCHANGED <<ret, prompt>>
  BY DEF NextTurn
<1>2. Spoken(parts) /\ Sound(conv[c])
  BY DEF PromptInv, Prompted
<1>3. \/ results # <<>> /\ replies = <<[role |-> "Tool", parts |-> results]>>
      \/ replies = [i \in DOMAIN results |-> [role |-> "Tool", parts |-> <<results[i]>>]]
  BY Zenon
<1>4. calls = OfType(parts, "ToolCall")
      /\ results = [i \in DOMAIN calls |-> ToolResult(calls[i].id, "r")]
  OBVIOUS
<1>5. Sound(grown)
  <2> HIDE DEF parts, calls, results, replies
  <2>1. /\ IsSeq(replies)
        /\ \A m \in ToSet(replies) : /\ m.role = "Tool" /\ IsSeq(m.parts)
                                     /\ \A p \in ToSet(m.parts) : p.type = "ToolResult"
        /\ \A x : x \in IdsOf(replies, "ToolResult") <=>
                     \E p \in ToSet(parts) : p.type = "ToolCall" /\ x = p.id
    BY <1>2, <1>3, <1>4, RepliesAnswer
  <2> QED BY <1>2, <2>1, SoundGrows
<1> HIDE DEF grown
<1>6. PromptShape'
  BY <1>1 DEF PromptInv, PromptShape
<1>7. conv'[c] = grown /\ pc'[c] = "idle"
  BY <1>1 DEF PromptInv, PromptShape, CallInv, CallShape
<1>8. \A d \in Callers \ {c} : conv'[d] = conv[d] /\ typed'[d] = typed[d] /\ pc'[d] = pc[d]
  BY <1>1 DEF PromptInv, PromptShape, CallInv, CallShape
<1>9. Prompted(c)'
  <2>1. Sound(conv[c])' /\ Spoken(ret[c].answer.parts)'
    BY <1>1, <1>2, <1>5, <1>7
  <2> QED BY <1>7, <2>1 DEF Prompted
<1>10. ASSUME NEW d \in Callers \ {c} PROVE Prompted(d)'
  <2>1. Prompted(d)
    BY DEF PromptInv
  <2>2. \A p : Request(d, p)' = Request(d, p)
    BY <1>8 DEF Request
  <2> QED BY <1>1, <1>8, <2>1, <2>2 DEF Prompted
<1> QED BY <1>6, <1>9, <1>10 DEF PromptInv

\* Through fallbacks, retries and turns every request is made from the sound
\* conversation it goes on with.
LEMMA PromptsInductive == Spec => []PromptInv
<1>1. Init => PromptInv
  <2> SUFFICES ASSUME Init PROVE PromptInv
    OBVIOUS
  <2>1. /\ conv \in [Callers -> UNION {Conversations[c] : c \in Callers}]
        /\ \A c \in Callers : conv[c] \in Conversations[c]
    BY DEF Init
  <2>2. PromptShape
    BY <2>1 DEF Init, PromptShape
  <2>3. ASSUME NEW c \in Callers PROVE Prompted(c)
    <3>1. Sound(conv[c])
      BY <2>1, ConversationAssumption, Zenon
    <3>2. pc[c] = "idle" /\ ret[c].answer = NoAnswer
      BY DEF Init
    <3> QED BY <3>1, <3>2, NothingSpoken DEF Prompted
  <2> QED BY <2>2, <2>3 DEF PromptInv
<1>2. CallInv /\ PromptInv /\ [Next]_vars => PromptInv'
  <2> SUFFICES ASSUME CallInv, PromptInv, [Next]_vars PROVE PromptInv'
    OBVIOUS
  <2>1. CASE UNCHANGED <<pc, ret, conv, typed, prompt>>
    BY <2>1 DEF PromptInv, PromptShape, Prompted, Request
  <2>2. ASSUME NEW c \in Callers, NEW n \in Policies[c], NEW stream \in BOOLEAN,
               Begin(c, n, stream)
        PROVE  PromptInv'
    <3>1. UNCHANGED <<conv, typed>>
      BY <2>2 DEF Begin
    <3>2. CASE n = 0
      BY <2>2, <3>1, <3>2, NothingSpoken, ReturnPrompts DEF Begin
    <3>3. CASE n # 0
      BY <2>2, <3>1, <3>3, ContinuePrompts DEF Begin
    <3> QED BY <3>2, <3>3
  <2>3. ASSUME NEW c \in Callers, Exhausted(c) PROVE PromptInv'
    <3>1. UNCHANGED <<conv, typed>>
      BY <2>3 DEF Exhausted
    <3>2. \/ \E err : Return(c, "done", err, NoAnswer)
          \/ Continue(c, "backoff")
      BY <2>3 DEF Exhausted
    <3> QED BY <3>1, <3>2, NothingSpoken, ReturnPrompts, ContinuePrompts
  <2>4. ASSUME NEW c \in Callers, Retry(c) PROVE PromptInv'
    BY <2>4, ContinuePrompts DEF Retry
  <2>5. ASSUME NEW c \in Callers, RetryCancelled(c) PROVE PromptInv'
    BY <2>5, NothingSpoken, ReturnPrompts DEF RetryCancelled
  <2>6. ASSUME NEW c \in Callers, NEW status,
               Unbuildable(c) \/ TransportFails(c) \/ StatusError(c, status) \/ BadBody(c)
        PROVE  PromptInv'
    <3>1. PICK err : ProviderFails(c, err) /\ UNCHANGED <<conv, typed>>
      <4>1. CASE Unbuildable(c)
        BY <4>1 DEF Unbuildable
      <4>2. CASE TransportFails(c)
        BY <4>2 DEF TransportFails
      <4>3. CASE StatusError(c, status)
        BY <4>3 DEF StatusError
      <4>4. CASE BadBody(c)
        BY <4>4 DEF BadBody
      <4> QED BY <2>6, <4>1, <4>2, <4>3, <4>4
    <3> QED BY <3>1, FailPrompts
  <2>7. ASSUME NEW c \in Callers, Send(c) PROVE PromptInv'
    BY <2>7, SendPrompts
  <2>8. ASSUME NEW c \in Callers, pc[c] = "wire", NEW reply \in Replies[Chain[pos[c]]],
               Answer(c, reply)
        PROVE  PromptInv'
    BY <2>8, AnswerPrompts
  <2>9. ASSUME NEW c \in Callers, OpenStream(c) PROVE PromptInv'
    <3> DEFINE answer == [from |-> Chain[pos[c]], parts |-> <<>>]
    <3>1. Return(c, "stream", "nil", answer) /\ UNCHANGED <<conv, typed>>
      BY <2>9 DEF OpenStream
    <3>2. answer.parts = <<>>
      OBVIOUS
    <3> HIDE DEF answer
    <3> QED BY <3>1, <3>2, NothingSpoken, ReturnPrompts
  <2>10. ASSUME NEW c \in Callers, NEW together, NEW reloaded, NextTurn(c, together, reloaded)
         PROVE  PromptInv'
    BY <2>10, TurnPrompts
  <2>11. ASSUME NEW c \in Callers, StreamStep(c) \/ Cancel(c) \/ StopReading(c)
         PROVE  UNCHANGED <<pc, ret, conv, typed, prompt>>
    BY <2>11 DEF StreamStep, ScanLine, ScanEnds, Receive, Cancel, StopReading, callVars, convVars
  <2>12. ASSUME NEW p \in Providers, Expire(p)
         PROVE  UNCHANGED <<pc, ret, conv, typed, prompt>>
    BY <2>12 DEF Expire, callVars, convVars
  <2>13. UNCHANGED vars => UNCHANGED <<pc, ret, conv, typed, prompt>>
    BY DEF vars, callVars, convVars
  <2> QED
    BY <2>1, <2>2, <2>3, <2>4, <2>5, <2>6, <2>7, <2>8, <2>9, <2>10, <2>11, <2>12, <2>13
       DEF Next, CallerStep
<1> QED BY <1>1, <1>2, CallsInductive, PTL DEF Spec

\* A request that is out, to whichever provider of the chain, carries every call
\* of the conversation and an answer to each, up to the results that mapMessages
\* drops from a message with several, and offers the tools of a state that was
\* not reloaded (openai.go:118-198, anthropic.go:93-171).
THEOREM RequestsComplete == Spec => []PromptComplete
<1>1. PromptInv => PromptComplete
  <2> SUFFICES ASSUME PromptInv, NEW c \in Callers, pc[c] \in {"wire", "doomed"}
               PROVE  LET several == \E m \in ToSet(conv[c]) :
                                        Len(OfType(m.parts, "ToolResult")) > 1
                      IN /\ CallsSent(prompt[c]) = IdsOf(conv[c], "ToolCall")
                         /\ \/ ResultsSent(prompt[c]) = CallsSent(prompt[c])
                            \/ prompt[c].to = "openai" /\ several
                         /\ typed[c] => prompt[c].body.tools = Tools
    BY DEF PromptComplete
  <2> DEFINE several == \E m \in ToSet(conv[c]) : Len(OfType(m.parts, "ToolResult")) > 1
             r == prompt[c]
             msgs == conv[c]
  <2>1. Sound(msgs) /\ \E p \in Providers : r = [to |-> p, body |-> Request(c, p)]
    BY DEF PromptInv, Prompted
  <2>2. IdsOf(msgs, "ToolResult") = IdsOf(msgs, "ToolCall")
    BY <2>1, Zenon DEF Sound
  <2>3. PICK p \in Providers : r = [to |-> p, body |-> Request(c, p)]
    BY <2>1
  <2>4. r.to = p /\ r.body = Request(c, p)
    <3> HIDE DEF r
    <3> QED BY <2>3
  <2>5. CASE p = "openai"
    <3>1. r.body = OpenAIRequest(msgs, SystemPrompt, Tools, typed[c])
      BY <2>4, <2>5 DEF Request
    <3> DEFINE none == ""
    <3>2. r.body = [messages |-> mapMessages(msgs, SystemPrompt), system |-> none,
                    tools |-> IF typed[c] THEN Tools ELSE {}]
      BY <3>1, Zenon DEF OpenAIRequest
    <3> HIDE DEF none
    <3>3. /\ r.to = "openai" /\ r.body.messages = mapMessages(msgs, SystemPrompt)
          /\ typed[c] => r.body.tools = Tools
      BY <2>4, <2>5, <3>2
    <3> HIDE DEF r, msgs
    <3>4. CallsSent(r) = IdsOf(msgs, "ToolCall")
      BY <2>1, <3>3, OpenAICalls
    <3>5. ~several => ResultsSent(r) = IdsOf(msgs, "ToolResult")
      <4> SUFFICES ASSUME ~several PROVE ResultsSent(r) = IdsOf(msgs, "ToolResult")
        OBVIOUS
      <4>1. \A m \in ToSet(msgs) : ~(Len(OfType(m.parts, "ToolResult")) > 1)
        BY DEF msgs
      <4> QED BY <2>1, <3>3, <4>1, OpenAIResults
    <3> HIDE DEF several
    <3>6. /\ CallsSent(r) = IdsOf(msgs, "ToolCall")
          /\ ResultsSent(r) = CallsSent(r) \/ (r.to = "openai" /\ several)
          /\ typed[c] => r.body.tools = Tools
      BY <2>2, <3>3, <3>4, <3>5
    <3> QED BY <3>6 DEF r, msgs, several
  <2>6. CASE p # "openai"
    <3>1. r.body = AnthropicRequest(msgs, SystemPrompt, Tools, typed[c])
      BY <2>4, <2>6 DEF Request
    <3>2. r.to # "openai" /\ r.body.messages = AnthropicMessages(msgs)
      BY <2>4, <2>6, <3>1 DEF AnthropicRequest
    <3>3. typed[c] => r.body.tools = Tools
      BY <3>1 DEF AnthropicRequest
    <3> HIDE DEF r, msgs, several
    <3>4. CallsSent(r) = IdsOf(msgs, "ToolCall") /\ ResultsSent(r) = IdsOf(msgs, "ToolResult")
      BY <2>1, <3>2, AnthropicParts
    <3>5. /\ CallsSent(r) = IdsOf(msgs, "ToolCall")
          /\ ResultsSent(r) = CallsSent(r)
          /\ typed[c] => r.body.tools = Tools
      BY <2>2, <3>3, <3>4
    <3> QED BY <3>5 DEF r, msgs, several
  <2> QED BY <2>5, <2>6
<1> QED BY <1>1, PromptsInductive, PTL
-----------------------------------------------------------------------------
(* Delegation: the dispatcher *)

HookJob == [pc : {"none", "lookup", "send", "done"}, todo : Seq(Hooks), tries : Nat,
            saw : SUBSET Hooks]

\* Events as a run publishes them: only NodeCompleted carries an artifact.
Emitted == {ev \in Event : ev.type # "NodeCompleted" => ev.artifact = 0}

DispatchShape ==
    /\ setting \in Settings
    /\ published \in Seq(Emitted)
    /\ webhooks \in Seq(Hooks)
    /\ job \in [1..MaxEvents -> HookJob]
    /\ fate \in [1..MaxEvents -> [Hooks -> {"none", "notified", "tried"}]]

\* A dispatch has notified the webhooks that it is through with, and will notify
\* those it has before it.
Dispatched(i) ==
    /\ i > Len(published) => job[i].pc = "none"
    /\ job[i].pc \in {"none", "lookup"} => \A h \in Hooks : fate[i][h] = "none"
    /\ job[i].pc = "send" => job[i].todo # <<>>
    /\ job[i].pc = "done" => job[i].todo = <<>>
    /\ job[i].pc \in {"send", "done"} =>
          \A h \in Hooks : (fate[i][h] # "none" \/ h \in ToSet(job[i].todo))
                              <=> (h \in job[i].saw /\ Matches(h, published[i]))

DispatchInv == DispatchShape /\ \A i \in 1..MaxEvents : Dispatched(i)

\* dispatch passes over the webhooks whose filter does not let the event pass,
\* and no others (webhook.go:80-92).
LEMMA NotifiableHolds ==
    ASSUME NEW hooks \in Seq(Hooks), NEW ev
    PROVE  /\ Notifiable(hooks, ev) \in Seq(Hooks)
           /\ \A h \in Hooks : h \in ToSet(Notifiable(hooks, ev))
                                  <=> h \in ToSet(hooks) /\ Matches(h, ev)
<1> DEFINE s == [i \in DOMAIN hooks |-> IF Matches(hooks[i], ev) THEN <<hooks[i]>> ELSE <<>>]
<1>1. DOMAIN hooks = 1..Len(hooks) /\ Len(hooks) \in Nat
  OBVIOUS
<1>2. \A i \in 1..Len(hooks) : s[i] \in Seq(Hooks)
  BY <1>1
<1>3. s \in Seq(Seq(Hooks)) /\ Len(s) = Len(hooks)
  <2>1. s \in [1..Len(hooks) -> Seq(Hooks)]
    BY <1>1, <1>2
  <2> HIDE DEF s
  <2> QED BY <1>1, <2>1
<1>4. Notifiable(hooks, ev) = FlattenSeq(s)
  BY DEF Notifiable
<1>5. \A h \in Hooks, i \in 1..Len(hooks) : h \in ToSet(s[i]) <=> h = hooks[i] /\ Matches(h, ev)
  <2> TAKE h \in Hooks, i \in 1..Len(hooks)
  <2>1. CASE Matches(hooks[i], ev)
    <3>1. s[i] = <<hooks[i]>>
      BY <1>1, <2>1
    <3>2. ToSet(<<hooks[i]>>) = {hooks[i]}
      BY DEF ToSet
    <3> HIDE DEF s
    <3> QED BY <2>1, <3>1, <3>2
  <2>2. CASE ~Matches(hooks[i], ev)
    <3>1. s[i] = <<>>
      BY <1>1, <2>2
    <3>2. ToSet(<<>>) = {}
      BY DEF ToSet
    <3> HIDE DEF s
    <3> QED BY <2>2, <3>1, <3>2
  <2> QED BY <2>1, <2>2
<1> HIDE DEF s
<1>6. FlattenSeq(s) \in Seq(Hooks)
  BY <1>3, FlattenTyped
<1>7. ASSUME NEW h \in Hooks
      PROVE  h \in ToSet(FlattenSeq(s)) <=> h \in ToSet(hooks) /\ Matches(h, ev)
  <2>1. h \in ToSet(FlattenSeq(s)) <=> \E i \in 1..Len(s) : h \in ToSet(s[i])
    BY <1>3, FlattenHolds
  <2>2. h \in ToSet(hooks) <=> \E i \in 1..Len(hooks) : h = hooks[i]
    BY <1>1 DEF ToSet
  <2> QED BY <1>3, <1>5, <2>1, <2>2
<1> QED BY <1>4, <1>6, <1>7

\* What a run publishes is an event as Emitted says.
LEMMA RunEmits ==
    ASSUME setting \in Settings, published \in Seq(Emitted), Len(published) < MaxEvents,
           NEW ev \in RunEvents
    PROVE  ev \in Emitted
<1> DEFINE carried == [none |-> 0, artifact |-> Len(published) + 1, unnamed |-> Unnamed]
<1>1. setting.payloads \subseteq {"none", "artifact", "unnamed"}
  BY DelegationAssumption DEF Setting
<1>2. Len(published) \in Nat /\ MaxEvents \in Nat
  BY DelegationAssumption
<1>3. \A p \in setting.payloads : carried[p] \in 0..Unnamed
  BY <1>1, <1>2 DEF Unnamed
<1>4. \/ ev \in [type : {"NodeCompleted"}, artifact : {carried[p] : p \in setting.payloads},
                 hasTask : {TRUE}]
      \/ ev \in [type : {"TaskCompleted"}, artifact : {0}, hasTask : {TRUE}]
      \/ ev \in [type : {"AgentPaused"}, artifact : {0}, hasTask : {FALSE}]
  BY DEF RunEvents
<1>5. 0 \in 0..Unnamed
  BY <1>2 DEF Unnamed
<1> HIDE DEF carried
<1> QED BY <1>3, <1>4, <1>5 DEF Emitted, Event, EventTypes

\* A step of one dispatch leaves the others alone.
LEMMA OneDispatch ==
    ASSUME DispatchInv, NEW i \in 1..MaxEvents, NEW j \in HookJob,
           NEW f \in [Hooks -> {"none", "notified", "tried"}],
           job' = [job EXCEPT ![i] = j], fate' = [fate EXCEPT ![i] = f],
           UNCHANGED <<setting, published, webhooks>>, Dispatched(i)'
    PROVE  DispatchInv'
<1>1. DispatchShape'
  BY DEF DispatchInv, DispatchShape
<1>2. ASSUME NEW k \in 1..MaxEvents, k # i PROVE Dispatched(k)'
  <2>1. job'[k] = job[k] /\ fate'[k] = fate[k]
    BY <1>2 DEF DispatchInv, DispatchShape
  <2> QED BY <2>1 DEF DispatchInv, Dispatched
<1> QED BY <1>1, <1>2 DEF DispatchInv

LEMMA HeadOrTail ==
    ASSUME NEW X, NEW s \in Seq(X), s # <<>>, NEW x
    PROVE  /\ Head(s) \in X /\ Tail(s) \in Seq(X)
           /\ x \in ToSet(s) <=> x = Head(s) \/ x \in ToSet(Tail(s))
<1>1. Head(s) \in X /\ Tail(s) \in Seq(X) /\ <<Head(s)>> \in Seq(X) /\ s = <<Head(s)>> \o Tail(s)
  OBVIOUS
<1>2. x \in ToSet(<<Head(s)>> \o Tail(s)) <=> x \in ToSet(<<Head(s)>>) \/ x \in ToSet(Tail(s))
  BY <1>1, ToSetConcat
<1>3. ToSet(<<Head(s)>>) = {Head(s)}
  BY DEF ToSet
<1> QED BY <1>1, <1>2, <1>3

LEMMA LookupKeeps ==
    ASSUME DispatchInv, NEW i \in 1..MaxEvents, Lookup(i)
    PROVE  DispatchInv'
<1>1. /\ job[i].pc = "lookup" /\ UNCHANGED <<setting, published, webhooks, fate>>
      /\ \E hooks, saw :
            /\ \/ hooks = <<>> /\ saw = {}
               \/ hooks = Notifiable(webhooks, published[i]) /\ saw = ToSet(webhooks)
            /\ SendTo(i, hooks, saw)
  BY DEF Lookup, nodeVars, runVars
<1>2. PICK hooks, saw :
            /\ \/ hooks = <<>> /\ saw = {}
               \/ hooks = Notifiable(webhooks, published[i]) /\ saw = ToSet(webhooks)
            /\ SendTo(i, hooks, saw)
  BY <1>1
<1>3. webhooks \in Seq(Hooks) /\ ToSet(webhooks) \subseteq Hooks
  BY DEF DispatchInv, DispatchShape, ToSet
<1>4. /\ hooks \in Seq(Hooks) /\ saw \in SUBSET Hooks
      /\ \A h \in Hooks : h \in ToSet(hooks) <=> (h \in saw /\ Matches(h, published[i]))
  <2>1. ToSet(<<>>) = {} /\ <<>> \in Seq(Hooks)
    BY DEF ToSet
  <2>2. CASE hooks = <<>> /\ saw = {}
    BY <2>1, <2>2
  <2>3. CASE hooks = Notifiable(webhooks, published[i]) /\ saw = ToSet(webhooks)
    <3>1. /\ Notifiable(webhooks, published[i]) \in Seq(Hooks)
          /\ \A h \in Hooks : h \in ToSet(Notifiable(webhooks, published[i]))
                                 <=> h \in ToSet(webhooks) /\ Matches(h, published[i])
      BY <1>3, NotifiableHolds
    <3> QED BY <1>3, <2>3, <3>1, Zenon
  <2> QED BY <1>2, <2>2, <2>3
<1> DEFINE j == [pc |-> IF hooks = <<>> THEN "done" ELSE "send", todo |-> hooks, tries |-> 0,
                 saw |-> saw]
<1>5. j \in HookJob /\ job' = [job EXCEPT ![i] = j]
  BY <1>2, <1>4 DEF HookJob, SendTo
<1>6. fate[i] \in [Hooks -> {"none", "notified", "tried"}] /\ fate' = [fate EXCEPT ![i] = fate[i]]
  BY <1>1 DEF DispatchInv, DispatchShape
<1>7. job'[i] = j /\ fate'[i] = fate[i] /\ published' = published
  BY <1>1, <1>5 DEF DispatchInv, DispatchShape
<1>8. ~(i > Len(published)) /\ \A h \in Hooks : fate[i][h] = "none"
  BY <1>1 DEF DispatchInv, Dispatched
<1>9. Dispatched(i)'
  BY <1>4, <1>7, <1>8 DEF Dispatched, Matches
<1> HIDE DEF j
<1> QED BY <1>1, <1>5, <1>6, <1>9, OneDispatch

\* A webhook is settled, one way or the other, and the dispatch goes on to the
\* next one.
LEMMA SettleKeeps ==
    ASSUME DispatchInv, NEW i \in 1..MaxEvents, job[i].pc = "send",
           NEW v \in {"notified", "tried"},
           fate' = [fate EXCEPT ![i][Head(job[i].todo)] = v],
           SendTo(i, Tail(job[i].todo), job[i].saw),
           UNCHANGED <<setting, published, webhooks>>
    PROVE  DispatchInv'
<1> DEFINE todo1 == job[i].todo
           rest == Tail(todo1)
           f == [fate[i] EXCEPT ![Head(todo1)] = v]
           j == [pc |-> IF rest = <<>> THEN "done" ELSE "send", todo |-> rest, tries |-> 0,
                 saw |-> job[i].saw]
<1>1. todo1 \in Seq(Hooks) /\ todo1 # <<>> /\ job[i].saw \in SUBSET Hooks
  BY DEF DispatchInv, DispatchShape, Dispatched, HookJob
<1>2. /\ Head(todo1) \in Hooks /\ rest \in Seq(Hooks)
      /\ \A h \in Hooks : h \in ToSet(todo1) <=> h = Head(todo1) \/ h \in ToSet(rest)
  <2> HIDE DEF todo1
  <2> QED BY <1>1, HeadOrTail
<1>3. fate[i] \in [Hooks -> {"none", "notified", "tried"}] /\ fate' = [fate EXCEPT ![i] = f]
  BY DEF DispatchInv, DispatchShape
<1>4. f \in [Hooks -> {"none", "notified", "tried"}]
  BY <1>2, <1>3
<1>5. j \in HookJob /\ job' = [job EXCEPT ![i] = j]
  BY <1>1, <1>2 DEF HookJob, SendTo
<1>6. job'[i] = j /\ fate'[i] = f
  BY <1>3, <1>5 DEF DispatchInv, DispatchShape
<1>7. \A h \in Hooks : f[h] # "none" <=> (h = Head(todo1) \/ fate[i][h] # "none")
  BY <1>2, <1>3
<1>8. ~(i > Len(published))
      /\ \A h \in Hooks : (fate[i][h] # "none" \/ h \in ToSet(todo1))
                             <=> (h \in job[i].saw /\ Matches(h, published[i]))
  BY DEF DispatchInv, Dispatched
<1>9. j.pc \in {"send", "done"} /\ (j.pc = "done" <=> rest = <<>>) /\ j.todo = rest
      /\ j.saw = job[i].saw
  OBVIOUS
<1> HIDE DEF todo1, rest, f, j
<1>10. \A h \in Hooks : (f[h] # "none" \/ h \in ToSet(rest))
                             <=> (h \in job[i].saw /\ Matches(h, published[i]))
  BY <1>2, <1>7, <1>8
<1>11. Dispatched(i)'
  BY <1>6, <1>8, <1>9, <1>10 DEF Dispatched, Matches
<1> QED BY <1>3, <1>4, <1>5, <1>11, OneDispatch

LEMMA DispatchInductive == DelegationSpec => []DispatchInv
<1>1. DelegationInit => DispatchInv
  <2> SUFFICES ASSUME DelegationInit PROVE DispatchInv
    OBVIOUS
  <2>1. Idle \in HookJob
    BY DEF Idle, HookJob
  <2>2. DispatchShape
    BY <2>1 DEF DelegationInit, DispatchShape
  <2>3. \A i \in 1..MaxEvents : job[i] = Idle /\ \A h \in Hooks : fate[i][h] = "none"
    BY DEF DelegationInit
  <2>4. \A i \in 1..MaxEvents : Dispatched(i)
    BY <2>3 DEF Dispatched, Idle
  <2> QED BY <2>2, <2>4 DEF DispatchInv
<1>2. DispatchInv /\ [DelegationNext]_delegationVars => DispatchInv'
  <2> SUFFICES ASSUME DispatchInv, [DelegationNext]_delegationVars PROVE DispatchInv'
    OBVIOUS
  <2>1. CASE UNCHANGED <<setting, published, webhooks, job, fate>>
    <3>1. DispatchShape'
      BY <2>1 DEF DispatchInv, DispatchShape
    <3>2. \A i \in 1..MaxEvents : Dispatched(i)'
      BY <2>1 DEF DispatchInv, Dispatched, Matches
    <3> QED BY <3>1, <3>2 DEF DispatchInv
  <2>2. ASSUME NEW ev \in RunEvents, Publish(ev) PROVE DispatchInv'
    <3> DEFINE n == Len(published) + 1
    <3>1. /\ Len(published) < MaxEvents /\ published' = Append(published, ev)
          /\ job' = IF setting.hooks = {} THEN job ELSE [job EXCEPT ![n].pc = "lookup"]
          /\ UNCHANGED <<setting, webhooks, fate>>
      BY <2>2 DEF Publish, nodeVars
    <3>2. /\ published \in Seq(Emitted) /\ setting \in Settings /\ webhooks \in Seq(Hooks)
          /\ job \in [1..MaxEvents -> HookJob] /\ Len(published) \in Nat /\ MaxEvents \in Nat
      BY DelegationAssumption DEF DispatchInv, DispatchShape
    <3>3. ev \in Emitted
      BY <3>1, <3>2, RunEmits
    <3>4. /\ published' \in Seq(Emitted) /\ Len(published') = n
          /\ \A i \in 1..Len(published) : published'[i] = published[i]
      BY <3>1, <3>2, <3>3
    <3>5. n \in 1..MaxEvents /\ job[n] \in HookJob
      BY <3>1, <3>2
    <3>6. job' \in [1..MaxEvents -> HookJob]
      BY <3>1, <3>2, <3>5 DEF HookJob
    <3>7. DispatchShape'
      BY <3>1, <3>2, <3>4, <3>6 DEF DispatchInv, DispatchShape
    <3>8. ASSUME NEW i \in 1..MaxEvents PROVE Dispatched(i)'
      <4>1. Dispatched(i) /\ fate'[i] = fate[i]
        BY <3>1 DEF DispatchInv
      <4>2. CASE i = n
        <5>1. job[i].pc = "none"
          BY <3>2, <4>1, <4>2 DEF Dispatched
        <5>2. job'[i].pc \in {"none", "lookup"} /\ ~(i > Len(published'))
          BY <3>1, <3>2, <3>4, <3>5, <4>2, <5>1 DEF HookJob
        <5> QED BY <4>1, <5>1, <5>2 DEF Dispatched
      <4>3. CASE i # n
        <5>1. job'[i] = job[i]
          BY <3>1, <3>2, <4>3
        <5>2. CASE i > Len(published)
          <6>1. job[i].pc = "none"
            BY <4>1, <5>2 DEF Dispatched
          <6> QED BY <4>1, <5>1, <6>1 DEF Dispatched
        <5>3. CASE ~(i > Len(published))
          <6>1. published'[i] = published[i] /\ ~(i > Len(published'))
            BY <3>2, <3>4, <5>3
          <6> QED BY <4>1, <5>1, <6>1 DEF Dispatched, Matches
        <5> QED BY <5>2, <5>3
      <4> QED BY <4>2, <4>3
    <3> QED BY <3>7, <3>8 DEF DispatchInv
  <2>3. ASSUME NEW h \in Hooks, AddWebhook(h) PROVE DispatchInv'
    <3>1. webhooks' = Append(webhooks, h) /\ UNCHANGED <<setting, published, job, fate>>
      BY <2>3 DEF AddWebhook, nodeVars, runVars
    <3>2. DispatchShape'
      BY <3>1 DEF DispatchInv, DispatchShape
    <3>3. \A i \in 1..MaxEvents : Dispatched(i)'
      BY <3>1 DEF DispatchInv, Dispatched, Matches
    <3> QED BY <3>2, <3>3 DEF DispatchInv
  <2>4. ASSUME NEW i \in 1..MaxEvents, Lookup(i) PROVE DispatchInv'
    BY <2>4, LookupKeeps
  <2>5. ASSUME NEW i \in 1..MaxEvents, Notified(i) PROVE DispatchInv'
    <3>1. /\ job[i].pc = "send" /\ fate' = [fate EXCEPT ![i][Head(job[i].todo)] = "notified"]
          /\ SendTo(i, Tail(job[i].todo), job[i].saw)
          /\ UNCHANGED <<setting, published, webhooks>>
      BY <2>5 DEF Notified, nodeVars, runVars
    <3> QED BY <3>1, SettleKeeps
  <2>6. ASSUME NEW i \in 1..MaxEvents, NotifyFails(i) PROVE DispatchInv'
    <3>1. job[i].pc = "send" /\ UNCHANGED <<setting, published, webhooks>>
      BY <2>6 DEF NotifyFails, nodeVars, runVars
    <3>2. CASE job[i].tries + 1 < 3
      <4> DEFINE j == [job[i] EXCEPT !.tries = @ + 1]
      <4>1. job' = [job EXCEPT ![i] = j] /\ fate' = fate
        BY <2>6, <3>2 DEF NotifyFails
      <4>2. job[i] \in HookJob /\ job \in [1..MaxEvents -> HookJob]
            /\ fate \in [1..MaxEvents -> [Hooks -> {"none", "notified", "tried"}]]
        BY DEF DispatchInv, DispatchShape
      <4>3. /\ j \in HookJob /\ j.pc = job[i].pc /\ j.todo = job[i].todo
            /\ j.saw = job[i].saw
        BY <4>2 DEF HookJob
      <4> HIDE DEF j
      <4>4. fate[i] \in [Hooks -> {"none", "notified", "tried"}]
            /\ fate' = [fate EXCEPT ![i] = fate[i]] /\ job'[i] = j /\ fate'[i] = fate[i]
        BY <4>1, <4>2
      <4>5. Dispatched(i)
        BY DEF DispatchInv
      <4>6. Dispatched(i)'
        BY <3>1, <4>3, <4>4, <4>5 DEF Dispatched, Matches
      <4> QED BY <3>1, <4>1, <4>3, <4>4, <4>6, OneDispatch
    <3>3. CASE ~(job[i].tries + 1 < 3)
      <4>1. /\ fate' = [fate EXCEPT ![i][Head(job[i].todo)] = "tried"]
            /\ SendTo(i, Tail(job[i].todo), job[i].saw)
        BY <2>6, <3>3 DEF NotifyFails
      <4> QED BY <3>1, <4>1, SettleKeeps
    <3> QED BY <3>2, <3>3
  <2>7. \/ UNCHANGED <<setting, published, webhooks, job, fate>>
        \/ \E ev \in RunEvents : Publish(ev)
        \/ \E h \in Hooks : AddWebhook(h)
        \/ \E i \in 1..MaxEvents : Lookup(i) \/ Notified(i) \/ NotifyFails(i)
    <3>1. CASE Process
      BY <3>1 DEF Process, Discover, ProcessFails, SendMessage, StartRun, SendFails, StreamEvents,
                  StreamFails, Consume, RangeEnds, hookVars, runVars
    <3>2. CASE CancelRun \/ Cut \/ KeepAlive
      BY <3>2 DEF CancelRun, Cut, KeepAlive, nodeVars, hookVars, runVars
    <3>3. CASE Stream \/ Serve
      BY <3>3 DEF Stream, ReadLine, Put, PutCancelled, ReadFails, Serve, Subscribe, ServeEvent,
                  ServerGone, nodeVars, hookVars, runVars
    <3>4. CASE UNCHANGED delegationVars
      BY <3>4 DEF delegationVars, nodeVars, hookVars, runVars
    <3> QED BY <3>1, <3>2, <3>3, <3>4 DEF DelegationNext, Dispatch
  <2> QED BY <2>1, <2>2, <2>3, <2>4, <2>5, <2>6, <2>7
<1> QED BY <1>1, <1>2, PTL DEF DelegationSpec

\* A dispatch that is over has settled exactly the webhooks that the task had when
\* it looked and whose filter lets the event pass, for any number of webhooks,
\* in any order of dispatches and whichever receivers fail (webhook.go:55-137).
THEOREM DispatchesComplete == DelegationSpec => []DispatchComplete
<1>1. DispatchInv => DispatchComplete
  <2> SUFFICES ASSUME DispatchInv, NEW i \in 1..MaxEvents, NEW h \in Hooks, job[i].pc = "done"
               PROVE  (fate[i][h] # "none") = (h \in job[i].saw /\ Matches(h, published[i]))
    BY DEF DispatchComplete
  <2>1. /\ job[i].todo = <<>>
        /\ (fate[i][h] # "none" \/ h \in ToSet(job[i].todo))
              <=> (h \in job[i].saw /\ Matches(h, published[i]))
    BY DEF DispatchInv, Dispatched
  <2>2. ToSet(<<>>) = {}
    BY DEF ToSet
  <2>3. (fate[i][h] # "none") <=> (h \in job[i].saw /\ Matches(h, published[i]))
    BY <2>1, <2>2
  <2> QED BY <2>3 DEF Matches
<1> QED BY <1>1, DispatchInductive, PTL
-----------------------------------------------------------------------------
(* Delegation: the stream *)

\* What is written to the connection, and what a line of it carries.
Traffic   == Emitted \cup {Ping}
Cargo(ev) == IF ev.type = "ping" THEN <<>> ELSE Carried(ev)
Ids(evs)  == FlattenSeq([i \in DOMAIN evs |-> Cargo(evs[i])])

InHand == IF gpc = "put" THEN <<held>> ELSE <<>>

\* The artifacts that the node has, and those on their way to it, in order.
Arriving == ((artifacts \o Ids(out)) \o Ids(InHand)) \o Ids(wire)

Finished(evs) == \E i \in 1..Len(evs) : evs[i].type = "TaskCompleted"

Undisturbed == ~broken /\ npc # "panic"

PipeShape ==
    /\ setting \in Settings
    /\ broken \in BOOLEAN
    /\ npc \in {"discover", "send", "stream", "range", "over", "panic"}
    /\ gpc \in {"none", "read", "put", "done"}
    /\ conn \in {"none", "open", "eof", "cut"}
    /\ spc \in {"none", "subscribing", "serving", "gone"}
    /\ artifacts \in Seq(Nat)
    /\ out \in Seq(Emitted)
    /\ wire \in Seq(Traffic)
    /\ gpc = "put" => held \in Emitted
    /\ eventChan \in Seq(Emitted)
    /\ accepted \in Seq(Emitted)
    /\ published \in Seq(Emitted)

\* Where the node, the goroutine, the connection and the handler are together.
Places ==
    /\ npc \in {"discover", "send", "stream"} => conn = "none"
    /\ conn = "none" =>
          /\ gpc = "none" /\ spc = "none" /\ subs = {}
          /\ artifacts = <<>> /\ out = <<>> /\ wire = <<>> /\ eventChan = <<>> /\ accepted = <<>>
    /\ conn # "none" => gpc # "none" /\ spc # "none"
    /\ gpc = "done" => conn = "cut" /\ wire = <<>>
    /\ ctxDone => broken
    /\ conn = "cut" /\ Undisturbed => gpc = "done"
    /\ spc = "gone" => conn \in {"eof", "cut"}
    /\ npc = "over" /\ conn # "none" /\ ~broken => out = <<>> /\ gpc = "done"

\* TaskCompleted is the last event, wherever it is.
LastOfAll ==
    /\ \A i \in 1..Len(out) : out[i].type = "TaskCompleted" => i = Len(out) /\ gpc = "done"
    /\ gpc = "put" /\ held.type = "TaskCompleted" => wire = <<>> /\ conn # "open"
    /\ \A i \in 1..Len(wire) : wire[i].type = "TaskCompleted" => i = Len(wire) /\ conn # "open"
    /\ \A i \in 1..Len(eventChan) : eventChan[i].type = "TaskCompleted" =>
          i = Len(eventChan) /\ Finished(published)

\* Nothing overtakes and nothing is lost in the middle.
InLine ==
    /\ \E rest \in Seq(Nat) : Ids(accepted) = Arriving \o rest
    /\ conn = "open" => Ids(accepted) = Arriving \o Ids(eventChan)
    /\ conn \in {"eof", "cut"} /\ Undisturbed => Ids(accepted) = Arriving /\ Finished(published)

\* The subscription takes in what is published from its beginning to its end.
TakenIn ==
    /\ subs # {} => "NodeCompleted" \in subs
    /\ spc # "gone" /\ subs = {} => accepted = <<>>
    /\ spc # "gone" \/ Undisturbed =>
          \E before \in Seq(Nat) : Ids(published) = before \o Ids(accepted)

PipeInv == PipeShape /\ Places /\ LastOfAll /\ InLine /\ TakenIn

LEMMA CargoTyped ==
    ASSUME NEW ev
    PROVE  Cargo(ev) \in Seq(Nat)
BY DEF Cargo, Carried

LEMMA PingIsNoEvent ==
    /\ Ping.type = "ping" /\ Cargo(Ping) = <<>>
    /\ \A ev \in Emitted : ev.type \in EventTypes /\ ev.type # "ping" /\ ev # Ping
BY DEF Ping, Cargo, Emitted, Event, EventTypes

\* What the lines of a sequence carry, one after the other.
Cargos(evs) == [i \in DOMAIN evs |-> Cargo(evs[i])]

LEMMA CargosTyped ==
    ASSUME NEW evs \in Seq(Traffic)
    PROVE  /\ Cargos(evs) \in Seq(Seq(Nat)) /\ Len(Cargos(evs)) = Len(evs)
           /\ \A i \in 1..Len(evs) : Cargos(evs)[i] = Cargo(evs[i])
           /\ Ids(evs) = FlattenSeq(Cargos(evs))
<1>1. DOMAIN evs = 1..Len(evs) /\ Len(evs) \in Nat
  OBVIOUS
<1>2. \A i \in 1..Len(evs) : Cargo(evs[i]) \in Seq(Nat)
  BY CargoTyped
<1>3. Cargos(evs) \in [1..Len(evs) -> Seq(Nat)]
  BY <1>1, <1>2 DEF Cargos
<1>4. \A i \in 1..Len(evs) : Cargos(evs)[i] = Cargo(evs[i])
  BY <1>1 DEF Cargos
<1>5. Cargos(evs) \in Seq(Seq(Nat)) /\ Len(Cargos(evs)) = Len(evs)
  BY <1>1, <1>3
<1> QED BY <1>4, <1>5 DEF Cargos, Ids

LEMMA IdsTyped ==
    ASSUME NEW evs \in Seq(Traffic)
    PROVE  Ids(evs) \in Seq(Nat)
BY CargosTyped, FlattenTyped

LEMMA IdsEmpty == Ids(<<>>) = <<>>
<1>1. <<>> \in Seq(Traffic)
  OBVIOUS
<1>2. Cargos(<<>>) \in Seq(Seq(Nat)) /\ Len(Cargos(<<>>)) = 0 /\ Ids(<<>>) = FlattenSeq(Cargos(<<>>))
  BY <1>1, CargosTyped
<1>3. Cargos(<<>>) = <<>>
  BY <1>2
<1> QED BY <1>2, <1>3, FlattenEmpty

LEMMA IdsAppend ==
    ASSUME NEW evs \in Seq(Traffic), NEW ev \in Traffic
    PROVE  Ids(Append(evs, ev)) = Ids(evs) \o Cargo(ev)
<1> DEFINE evs1 == Append(evs, ev)
<1>1. /\ evs1 \in Seq(Traffic) /\ Len(evs1) = Len(evs) + 1 /\ evs1[Len(evs1)] = ev
      /\ \A i \in 1..Len(evs) : evs1[i] = evs[i]
  OBVIOUS
<1> HIDE DEF evs1
<1>2. /\ Cargos(evs1) \in Seq(Seq(Nat)) /\ Len(Cargos(evs1)) = Len(evs) + 1
      /\ \A i \in 1..Len(evs1) : Cargos(evs1)[i] = Cargo(evs1[i])
      /\ Ids(evs1) = FlattenSeq(Cargos(evs1))
  BY <1>1, CargosTyped
<1>3. /\ Cargos(evs) \in Seq(Seq(Nat)) /\ Len(Cargos(evs)) = Len(evs)
      /\ \A i \in 1..Len(evs) : Cargos(evs)[i] = Cargo(evs[i])
      /\ Ids(evs) = FlattenSeq(Cargos(evs))
  BY CargosTyped
<1>4. Cargo(ev) \in Seq(Nat)
  BY CargoTyped
<1>5. Cargos(evs1) = Append(Cargos(evs), Cargo(ev))
  <2> DEFINE t == Append(Cargos(evs), Cargo(ev))
  <2>1. /\ t \in Seq(Seq(Nat)) /\ Len(t) = Len(evs) + 1 /\ t[Len(evs) + 1] = Cargo(ev)
        /\ \A i \in 1..Len(evs) : t[i] = Cargo(evs[i])
    BY <1>3, <1>4
  <2>2. \A i \in 1..(Len(evs) + 1) : Cargos(evs1)[i] = t[i]
    <3> TAKE i \in 1..(Len(evs) + 1)
    <3>1. CASE i = Len(evs) + 1
      BY <1>1, <1>2, <2>1, <3>1
    <3>2. CASE i # Len(evs) + 1
      <4>1. i \in 1..Len(evs) /\ i \in 1..Len(evs1)
        BY <1>1, <3>2
      <4> QED BY <1>1, <1>2, <2>1, <4>1
    <3> QED BY <3>1, <3>2
  <2> HIDE DEF t
  <2>3. Cargos(evs1) = t
    BY <1>2, <2>1, <2>2, SeqEqual
  <2> QED BY <2>3 DEF t
<1>6. FlattenSeq(Append(Cargos(evs), Cargo(ev))) = FlattenSeq(Cargos(evs)) \o Cargo(ev)
  BY <1>3, <1>4, FlattenAppend
<1> QED BY <1>2, <1>3, <1>5, <1>6 DEF evs1

LEMMA IdsOne ==
    ASSUME NEW ev \in Traffic
    PROVE  Ids(<<ev>>) = Cargo(ev)
<1>1. <<>> \in Seq(Traffic) /\ <<ev>> = Append(<<>>, ev)
  OBVIOUS
<1>2. Ids(Append(<<>>, ev)) = Ids(<<>>) \o Cargo(ev)
  BY <1>1, IdsAppend
<1>3. <<>> \o Cargo(ev) = Cargo(ev)
  BY CargoTyped, ConcatEmptySeq
<1> QED BY <1>1, <1>2, <1>3, IdsEmpty

LEMMA IdsHead ==
    ASSUME NEW evs \in Seq(Traffic), evs # <<>>
    PROVE  /\ Head(evs) \in Traffic /\ Tail(evs) \in Seq(Traffic)
           /\ Ids(evs) = Cargo(Head(evs)) \o Ids(Tail(evs))
<1> DEFINE ev == Head(evs)
           rest == Tail(evs)
<1>1. /\ ev \in Traffic /\ rest \in Seq(Traffic) /\ Len(evs) = Len(rest) + 1 /\ evs[1] = ev
      /\ \A i \in 1..Len(rest) : evs[i + 1] = rest[i]
  OBVIOUS
<1> HIDE DEF ev, rest
<1>2. /\ Cargos(evs) \in Seq(Seq(Nat)) /\ Len(Cargos(evs)) = Len(evs)
      /\ \A i \in 1..Len(evs) : Cargos(evs)[i] = Cargo(evs[i])
      /\ Ids(evs) = FlattenSeq(Cargos(evs))
  BY CargosTyped
<1>3. /\ Cargos(rest) \in Seq(Seq(Nat)) /\ Len(Cargos(rest)) = Len(rest)
      /\ \A i \in 1..Len(rest) : Cargos(rest)[i] = Cargo(rest[i])
      /\ Ids(rest) = FlattenSeq(Cargos(rest))
  BY <1>1, CargosTyped
<1>4. Cargo(ev) \in Seq(Nat)
  BY CargoTyped
<1>5. Cargos(evs) = <<Cargo(ev)>> \o Cargos(rest)
  <2> DEFINE t == <<Cargo(ev)>> \o Cargos(rest)
  <2>1. /\ t \in Seq(Seq(Nat)) /\ Len(t) = Len(rest) + 1 /\ t[1] = Cargo(ev)
        /\ \A i \in 2..(Len(rest) + 1) : t[i] = Cargos(rest)[i - 1]
    BY <1>3, <1>4
  <2>2. \A i \in 1..(Len(rest) + 1) : Cargos(evs)[i] = t[i]
    <3> TAKE i \in 1..(Len(rest) + 1)
    <3>1. CASE i = 1
      BY <1>1, <1>2, <2>1, <3>1
    <3>2. CASE i # 1
      <4>1. i - 1 \in 1..Len(rest) /\ i \in 1..Len(evs) /\ (i - 1) + 1 = i
            /\ i \in 2..(Len(rest) + 1)
        BY <1>1, <3>2
      <4>2. evs[i] = rest[i - 1]
        BY <1>1, <4>1
      <4> QED BY <1>2, <1>3, <2>1, <4>1, <4>2
    <3> QED BY <3>1, <3>2
  <2> HIDE DEF t
  <2>3. Cargos(evs) = t
    BY <1>1, <1>2, <2>1, <2>2, SeqEqual
  <2> QED BY <2>3 DEF t
<1>6. FlattenSeq(<<Cargo(ev)>> \o Cargos(rest)) = Cargo(ev) \o FlattenSeq(Cargos(rest))
  BY <1>3, <1>4, FlattenPrepend
<1> QED BY <1>1, <1>2, <1>3, <1>5, <1>6 DEF ev, rest

\* Among events alone, Ids are the ArtifactIds that the property is about.
LEMMA IdsAreArtifacts ==
    ASSUME NEW evs \in Seq(Emitted)
    PROVE  ArtifactIds(evs) = Ids(evs)
<1>1. \A i \in DOMAIN evs : evs[i].type # "ping"
  BY PingIsNoEvent
<1>2. [i \in DOMAIN evs |-> Cargo(evs[i])] = [i \in DOMAIN evs |-> Carried(evs[i])]
  BY <1>1 DEF Cargo
<1> QED BY <1>2 DEF ArtifactIds, Ids

LEMMA Associative ==
    \A a, b, c \in Seq(Nat) : (a \o b) \o c = a \o (b \o c)
<1> DEFINE Numbers == Nat
<1> HIDE DEF Numbers
<1>1. \A a, b, c \in Seq(Numbers) : (a \o b) \o c = a \o (b \o c)
  BY ConcatAssociative, SMTT(20)
<1> QED BY <1>1 DEF Numbers

LEMMA Joined ==
    \A a, b \in Seq(Nat) : a \o b \in Seq(Nat)
OBVIOUS

LEMMA Regroup ==
    ASSUME NEW a \in Seq(Nat), NEW b \in Seq(Nat), NEW c \in Seq(Nat)
    PROVE  /\ a \o b \in Seq(Nat) /\ (a \o b) \o c = a \o (b \o c)
           /\ a \o <<>> = a /\ <<>> \o a = a
<1>1. a \o b \in Seq(Nat)
  BY Joined
<1>2. (a \o b) \o c = a \o (b \o c)
  BY Associative, Zenon
<1>3. a \o <<>> = a /\ <<>> \o a = a
  BY ConcatEmptySeq
<1> QED BY <1>1, <1>2, <1>3

LEMMA TrafficSeqs ==
    ASSUME NEW evs \in Seq(Emitted)
    PROVE  evs \in Seq(Traffic) /\ Ids(evs) \in Seq(Nat)
<1>1. evs \in Seq(Traffic)
  BY DEF Traffic
<1> QED BY <1>1, IdsTyped

LEMMA PipeTyped ==
    ASSUME PipeShape
    PROVE  /\ Ids(out) \in Seq(Nat) /\ Ids(InHand) \in Seq(Nat) /\ Ids(wire) \in Seq(Nat)
           /\ Ids(eventChan) \in Seq(Nat) /\ Ids(accepted) \in Seq(Nat)
           /\ Ids(published) \in Seq(Nat)
           /\ artifacts \o Ids(out) \in Seq(Nat)
           /\ (artifacts \o Ids(out)) \o Ids(InHand) \in Seq(Nat)
           /\ Arriving \in Seq(Nat)
<1>1. InHand \in Seq(Emitted)
  BY DEF PipeShape, InHand
<1>2. /\ Ids(out) \in Seq(Nat) /\ Ids(InHand) \in Seq(Nat) /\ Ids(wire) \in Seq(Nat)
      /\ Ids(eventChan) \in Seq(Nat) /\ Ids(accepted) \in Seq(Nat)
      /\ Ids(published) \in Seq(Nat)
  BY <1>1, TrafficSeqs, IdsTyped DEF PipeShape
<1>3. artifacts \in Seq(Nat)
  BY DEF PipeShape
<1>4. artifacts \o Ids(out) \in Seq(Nat)
  BY <1>2, <1>3, Regroup
<1>5. (artifacts \o Ids(out)) \o Ids(InHand) \in Seq(Nat)
  BY <1>2, <1>4, Regroup
<1>6. Arriving \in Seq(Nat)
  BY <1>2, <1>5, Regroup DEF Arriving
<1> QED BY <1>2, <1>4, <1>5, <1>6

\* A step that only hands artifacts on.
LEMMA InLineSame ==
    ASSUME InLine, Arriving' = Arriving, UNCHANGED <<accepted, eventChan, published>>,
           conn' = "open" => conn = "open",
           conn' \in {"eof", "cut"} /\ Undisturbed' => conn \in {"eof", "cut"} /\ Undisturbed
    PROVE  InLine'
BY DEF InLine, Finished

\* A step that loses the latest artifacts, which only a broken connection, a
\* context that is done or a panic do.
LEMMA InLineLost ==
    ASSUME InLine, NEW lost \in Seq(Nat), Arriving' \in Seq(Nat), Arriving = Arriving' \o lost,
           accepted' = accepted, conn' # "open", ~Undisturbed'
    PROVE  InLine'
<1>1. PICK rest \in Seq(Nat) : Ids(accepted) = Arriving \o rest
  BY DEF InLine
<1>2. lost \o rest \in Seq(Nat) /\ (Arriving' \o lost) \o rest = Arriving' \o (lost \o rest)
  <2> DEFINE left == Arriving'
  <2>1. left \in Seq(Nat) /\ lost \in Seq(Nat) /\ rest \in Seq(Nat)
    OBVIOUS
  <2> HIDE DEF left
  <2>2. (left \o lost) \o rest = left \o (lost \o rest)
    BY ONLY <2>1, Associative, Zenon
  <2>3. lost \o rest \in Seq(Nat)
    BY ONLY <2>1, Joined
  <2> QED BY <2>2, <2>3 DEF left
<1>3. Ids(accepted') = Arriving' \o (lost \o rest)
  BY <1>1, <1>2
<1>4. \E r \in Seq(Nat) : Ids(accepted') = Arriving' \o r
  BY <1>2, <1>3
<1> QED BY <1>4 DEF InLine

LEMMA TakenInSame ==
    ASSUME TakenIn, UNCHANGED <<subs, accepted, published>>,
           spc' = spc, Undisturbed' => Undisturbed
    PROVE  TakenIn'
BY DEF TakenIn

\* The node returns, or goes on to its next request.
LEMMA NodeKeeps ==
    ASSUME PipeInv,
           UNCHANGED <<setting, artifacts, ctxDone, broken, clientVars, connVars, serverVars,
                       published>>,
           npc' = npc \/ npc' = "over" \/ (npc \in {"discover", "send"} /\ npc' \in {"send", "stream"}),
           npc = "panic" => npc' = "panic",
           npc' = "over" => npc \in {"discover", "send", "stream", "over"}
                            \/ (out = <<>> /\ gpc = "done")
    PROVE  PipeInv'
<1> USE DEF clientVars, connVars, serverVars
<1>1. PipeShape'
  BY DEF PipeInv, PipeShape
<1>2. Undisturbed' = Undisturbed
  BY DEF Undisturbed, PipeInv, PipeShape
<1>3. Places'
  BY <1>2 DEF PipeInv, PipeShape, Places
<1>4. LastOfAll'
  BY DEF PipeInv, LastOfAll, Finished
<1>5. Arriving' = Arriving
  BY DEF Arriving, InHand
<1>6. InLine'
  BY <1>2, <1>5, InLineSame DEF PipeInv
<1>7. TakenIn'
  BY <1>2, TakenInSame DEF PipeInv
<1> QED BY <1>1, <1>3, <1>4, <1>6, <1>7 DEF PipeInv

\* StreamEvents starts everything empty (client.go:91-119).
LEMMA OpenKeeps ==
    ASSUME PipeInv, StreamEvents
    PROVE  PipeInv'
<1>1. /\ npc = "stream" /\ npc' = "range" /\ gpc' = "read" /\ conn' = "open"
      /\ spc' = "subscribing" /\ ~ctxDone
      /\ UNCHANGED <<setting, artifacts, ctxDone, broken, held, out, wire, subs, eventChan, accepted,
                     published>>
  BY DEF StreamEvents, runVars
<1>2. /\ conn = "none" /\ gpc = "none" /\ spc = "none" /\ subs = {}
      /\ artifacts = <<>> /\ out = <<>> /\ wire = <<>> /\ eventChan = <<>> /\ accepted = <<>>
  BY <1>1 DEF PipeInv, Places
<1>3. PipeShape'
  BY <1>1 DEF PipeInv, PipeShape
<1>4. Places'
  BY <1>1, <1>2 DEF PipeInv, Places
<1>5. LastOfAll'
  BY <1>1, <1>2 DEF LastOfAll
<1>6. Arriving' = <<>> /\ Ids(accepted') = <<>> /\ Ids(eventChan') = <<>>
  <2>1. InHand' = <<>>
    BY <1>1 DEF InHand
  <2>2. <<>> \o <<>> = <<>>
    BY Regroup
  <2> QED BY <1>1, <1>2, <2>1, <2>2, IdsEmpty DEF Arriving
<1>7. <<>> \in Seq(Nat) /\ <<>> \o <<>> = <<>>
  BY Regroup
<1>8. InLine'
  BY <1>1, <1>6, <1>7 DEF InLine
<1>9. TakenIn'
  BY <1>1, <1>2 DEF PipeInv, TakenIn
<1> QED BY <1>3, <1>4, <1>5, <1>8, <1>9 DEF PipeInv

LEMMA TailIsLast ==
    ASSUME NEW X, NEW evs \in Seq(X), evs # <<>>,
           \A i \in 1..Len(evs) : evs[i].type = "TaskCompleted" => i = Len(evs)
    PROVE  /\ Tail(evs) \in Seq(X) /\ Head(evs) \in X
           /\ 1 \in 1..Len(evs) /\ Head(evs) = evs[1]
           /\ Head(evs).type = "TaskCompleted" => Tail(evs) = <<>>
           /\ \A i \in 1..Len(Tail(evs)) :
                 /\ i + 1 \in 1..Len(evs) /\ Tail(evs)[i] = evs[i + 1]
                 /\ Tail(evs)[i].type = "TaskCompleted" => i = Len(Tail(evs))
<1> DEFINE rest == Tail(evs)
           n == Len(rest)
<1>1. /\ rest \in Seq(X) /\ n \in Nat /\ Len(evs) = n + 1 /\ Head(evs) = evs[1]
      /\ \A i \in 1..n : rest[i] = evs[i + 1]
      /\ Head(evs) \in X /\ (n = 0 => rest = <<>>)
  <2>1. Len(evs) \in Nat \ {0} /\ rest \in Seq(X) /\ n = Len(evs) - 1 /\ Head(evs) = evs[1]
        /\ Head(evs) \in X /\ \A i \in 1..n : rest[i] = evs[i + 1]
    BY HeadTailProperties
  <2>2. n = 0 => rest = <<>>
    <3>1. \A t \in Seq(X) : Len(t) = 0 => t = <<>>
      OBVIOUS
    <3> HIDE DEF rest
    <3> QED BY <2>1, <3>1
  <2> HIDE DEF rest, n
  <2> QED BY <2>1, <2>2
<1> HIDE DEF rest, n
<1>2. 1 \in 1..Len(evs) /\ \A i \in 1..n : i + 1 \in 1..Len(evs)
  BY <1>1
<1>3. ASSUME Head(evs).type = "TaskCompleted" PROVE rest = <<>>
  <2>1. 1 = Len(evs)
    BY <1>1, <1>2, <1>3
  <2>2. n = 0
    BY <1>1, <2>1
  <2> QED BY <1>1, <2>2
<1>4. ASSUME NEW i \in 1..n, rest[i].type = "TaskCompleted" PROVE i = n
  <2>1. i + 1 = Len(evs)
    BY <1>1, <1>2, <1>4
  <2> QED BY <1>1, <2>1
<1> QED BY <1>1, <1>2, <1>3, <1>4 DEF rest, n

\* The node takes an event from its channel (delegate_node.go:71-89).
LEMMA ConsumeKeeps ==
    ASSUME PipeInv, Consume
    PROVE  PipeInv'
<1> DEFINE ev == Head(out)
           kept == ev.type = "NodeCompleted" /\ ev.artifact \in 1..MaxEvents
           panics == ev.type = "NodeCompleted" /\ ev.artifact = Unnamed
<1>1. /\ npc = "range" /\ out # <<>> /\ out' = Tail(out)
      /\ artifacts' = IF kept THEN Append(artifacts, ev.artifact) ELSE artifacts
      /\ npc' = IF panics THEN "panic" ELSE IF ev.type = "TaskCompleted" THEN "over" ELSE "range"
      /\ IF npc' = "panic" THEN Ends ELSE UNCHANGED <<gpc, held, conn, wire>>
      /\ UNCHANGED <<setting, ctxDone, broken, spc, subs, eventChan, accepted, published>>
  BY DEF Consume, connVars, serverVars, runVars
<1>2. /\ PipeShape /\ Places /\ LastOfAll /\ InLine /\ TakenIn
      /\ out \in Seq(Emitted) /\ artifacts \in Seq(Nat) /\ wire \in Seq(Traffic)
  BY DEF PipeInv, PipeShape
<1>3. /\ Tail(out) \in Seq(Emitted) /\ ev \in Emitted
      /\ ev.type = "TaskCompleted" => Tail(out) = <<>> /\ gpc = "done"
      /\ \A i \in 1..Len(Tail(out)) :
            Tail(out)[i].type = "TaskCompleted" => i = Len(Tail(out)) /\ gpc = "done"
  <2>1. \A i \in 1..Len(out) : out[i].type = "TaskCompleted" => i = Len(out) /\ gpc = "done"
    BY <1>2 DEF LastOfAll
  <2>2. /\ Tail(out) \in Seq(Emitted) /\ ev \in Emitted
        /\ 1 \in 1..Len(out) /\ ev = out[1]
        /\ ev.type = "TaskCompleted" => Tail(out) = <<>>
        /\ \A i \in 1..Len(Tail(out)) :
              /\ i + 1 \in 1..Len(out) /\ Tail(out)[i] = out[i + 1]
              /\ Tail(out)[i].type = "TaskCompleted" => i = Len(Tail(out))
    BY <1>1, <1>2, <2>1, TailIsLast
  <2> HIDE DEF ev
  <2> QED BY <2>1, <2>2
<1>4. Cargo(ev) = IF kept THEN <<ev.artifact>> ELSE <<>>
  <2>1. ev.type # "NodeCompleted" => ev.artifact \notin 1..MaxEvents
    BY <1>3 DEF Emitted
  <2>2. ev.type # "ping"
    BY <1>3, PingIsNoEvent
  <2> QED BY <2>1, <2>2 DEF Cargo, Carried
<1>5. artifacts' = artifacts \o Cargo(ev) /\ artifacts' \in Seq(Nat)
  <2>1. CASE kept
    <3>1. ev.artifact \in Nat
      BY <2>1, DelegationAssumption
    <3> HIDE DEF ev
    <3> QED BY <1>1, <1>2, <1>4, <2>1, <3>1
  <2>2. CASE ~kept
    <3>1. artifacts' = artifacts /\ Cargo(ev) = <<>>
      BY <1>1, <1>4, <2>2
    <3> HIDE DEF ev
    <3> QED BY <1>2, <3>1, Regroup
  <2> QED BY <2>1, <2>2
<1>6. Ids(out) = Cargo(ev) \o Ids(out') /\ Ids(out') \in Seq(Nat) /\ Cargo(ev) \in Seq(Nat)
  BY <1>1, <1>2, <1>3, TrafficSeqs, IdsHead, CargoTyped
<1>7. artifacts' \o Ids(out') = artifacts \o Ids(out)
  <2> DEFINE x == Cargo(ev)
             y == Ids(out')
  <2>1. artifacts \in Seq(Nat) /\ x \in Seq(Nat) /\ y \in Seq(Nat)
    BY <1>2, <1>6
  <2> HIDE DEF x, y
  <2>2. (artifacts \o x) \o y = artifacts \o (x \o y)
    BY ONLY <2>1, Associative, Zenon
  <2> QED BY <1>5, <1>6, <2>2 DEF x, y
<1> HIDE DEF ev, kept
<1>8. CASE panics
  <2>1. /\ npc' = "panic" /\ gpc' = "done" /\ conn' = "cut" /\ wire' = <<>>
    BY <1>1, <1>8 DEF Ends
  <2>2. PipeShape'
    BY <1>1, <1>2, <1>3, <1>5, <2>1 DEF PipeShape
  <2>3. Places'
    BY <1>1, <1>2, <2>1 DEF Places, Undisturbed
  <2>4. LastOfAll'
    <3>1. \A i \in 1..Len(out') :
            out'[i].type = "TaskCompleted" => i = Len(out') /\ gpc' = "done"
      BY <1>1, <1>3, <2>1
    <3> QED BY <1>1, <1>2, <2>1, <3>1 DEF LastOfAll, Finished
  <2>5. InLine'
    <3> DEFINE A == artifacts \o Ids(out)
               lost == Ids(InHand) \o Ids(wire)
    <3>1. A \in Seq(Nat) /\ Ids(InHand) \in Seq(Nat) /\ Ids(wire) \in Seq(Nat)
      BY <1>2, PipeTyped
    <3>2. lost \in Seq(Nat)
      BY <3>1, Joined
    <3>3. Arriving' = A
      <4>1. InHand' = <<>>
        BY <2>1 DEF InHand
      <4>2. Arriving' = (A \o <<>>) \o <<>>
        BY <1>7, <2>1, <4>1, IdsEmpty DEF Arriving
      <4>3. A \o <<>> = A
        BY <3>1, Regroup
      <4> HIDE DEF A
      <4> QED BY <4>2, <4>3
    <3>4. Arriving = A \o lost
      <4>1. (A \o Ids(InHand)) \o Ids(wire) = A \o lost
        <5> HIDE DEF A
        <5> QED BY <3>1, Associative, Zenon
      <4> QED BY <4>1 DEF Arriving
    <3>5. ~Undisturbed' /\ conn' # "open"
      BY <2>1 DEF Undisturbed
    <3> HIDE DEF A, lost
    <3> QED BY <1>1, <1>2, <3>1, <3>2, <3>3, <3>4, <3>5, InLineLost
  <2>6. TakenIn'
    BY <1>1, <1>2, <2>1, TakenInSame DEF Undisturbed
  <2> QED BY <2>2, <2>3, <2>4, <2>5, <2>6 DEF PipeInv
<1>9. CASE ~panics
  <2>1. /\ npc' \in {"range", "over"} /\ (npc' = "over" <=> ev.type = "TaskCompleted")
        /\ UNCHANGED <<gpc, held, conn, wire>>
    BY <1>1, <1>9
  <2>2. PipeShape'
    BY <1>1, <1>2, <1>3, <1>5, <2>1 DEF PipeShape
  <2>3. Undisturbed' = Undisturbed
    BY <1>1, <2>1 DEF Undisturbed
  <2>4. conn # "none"
    BY <1>1, <1>2 DEF Places
  <2>5. Places'
    BY <1>1, <1>2, <1>3, <2>1, <2>3, <2>4 DEF Places
  <2>6. LastOfAll'
    <3>1. \A i \in 1..Len(out') :
            out'[i].type = "TaskCompleted" => i = Len(out') /\ gpc' = "done"
      BY <1>1, <1>3, <2>1
    <3> QED BY <1>1, <1>2, <2>1, <3>1 DEF LastOfAll, Finished
  <2>7. Arriving' = Arriving
    <3>1. InHand' = InHand
      BY <2>1 DEF InHand
    <3> QED BY <1>7, <2>1, <3>1 DEF Arriving
  <2>8. InLine'
    BY <1>1, <1>2, <2>1, <2>3, <2>7, InLineSame
  <2>9. TakenIn'
    BY <1>1, <1>2, <2>3, TakenInSame
  <2> QED BY <2>2, <2>5, <2>6, <2>8, <2>9 DEF PipeInv
<1> QED BY <1>8, <1>9

\* The connection breaks.
LEMMA CutKeeps ==
    ASSUME PipeInv, broken' = TRUE, conn' = IF conn = "open" THEN "cut" ELSE conn,
           ctxDone' \in {ctxDone, TRUE},
           UNCHANGED <<npc, setting, artifacts, clientVars, wire, serverVars, published>>
    PROVE  PipeInv'
<1> USE DEF clientVars, serverVars
<1>1. PipeShape'
  BY DEF PipeInv, PipeShape
<1>2. ~Undisturbed'
  BY DEF Undisturbed
<1>3. Places'
  BY <1>2 DEF PipeInv, Places
<1>4. LastOfAll'
  BY DEF PipeInv, LastOfAll, Finished
<1>5. Arriving' = Arriving
  BY DEF Arriving, InHand
<1>6. InLine'
  BY <1>2, <1>5, InLineSame DEF PipeInv
<1>7. TakenIn'
  BY <1>2, TakenInSame DEF PipeInv
<1> QED BY <1>1, <1>3, <1>4, <1>6, <1>7 DEF PipeInv

\* The goroutine ends: nothing is left in its hands, and what is lost is lost
\* because the stream was disturbed (client.go:119-128, 140-142).
LEMMA EndsKeeps ==
    ASSUME PipeInv, Ends, gpc \in {"read", "put"},
           UNCHANGED <<nodeVars, out, serverVars, published>>,
           ~Undisturbed \/ (conn \in {"eof", "cut"} /\ wire = <<>> /\ gpc = "read")
    PROVE  PipeInv'
<1>1. /\ gpc' = "done" /\ conn' = "cut" /\ wire' = <<>>
      /\ UNCHANGED <<npc, setting, artifacts, ctxDone, broken, out, spc, subs, eventChan, accepted,
                     published>>
  BY DEF Ends, nodeVars, serverVars
<1>2. PipeShape /\ Places /\ LastOfAll /\ InLine /\ TakenIn
  BY DEF PipeInv
<1>3. Undisturbed' = Undisturbed
  BY <1>1 DEF Undisturbed
<1>4. PipeShape'
  BY <1>1, <1>2 DEF PipeShape
<1>5. Places'
  BY <1>1, <1>2, <1>3 DEF Places
<1>6. LastOfAll'
  BY <1>1, <1>2 DEF LastOfAll, Finished
<1>7. InLine'
  <2> DEFINE A == artifacts \o Ids(out)
             lost == Ids(InHand) \o Ids(wire)
  <2>1. A \in Seq(Nat) /\ Ids(InHand) \in Seq(Nat) /\ Ids(wire) \in Seq(Nat)
    BY <1>2, PipeTyped
  <2>2. lost \in Seq(Nat)
    BY <2>1, Joined
  <2>3. Arriving' = A
    <3>1. InHand' = <<>>
      BY <1>1 DEF InHand
    <3>2. Arriving' = (A \o <<>>) \o <<>>
      BY <1>1, <3>1, IdsEmpty DEF Arriving
    <3>3. A \o <<>> = A
      BY <2>1, Regroup
    <3> HIDE DEF A
    <3> QED BY <3>2, <3>3
  <2>4. Arriving = A \o lost
    <3>1. (A \o Ids(InHand)) \o Ids(wire) = A \o lost
      <4> HIDE DEF A
      <4> QED BY <2>1, Associative, Zenon
    <3> QED BY <3>1 DEF Arriving
  <2>5. CASE ~Undisturbed
    <3> HIDE DEF A, lost
    <3> QED BY <1>1, <1>2, <1>3, <2>1, <2>2, <2>3, <2>4, <2>5, InLineLost
  <2>6. CASE conn \in {"eof", "cut"} /\ wire = <<>> /\ gpc = "read"
    <3>1. Ids(InHand) = <<>> /\ Ids(wire) = <<>>
      BY <2>6, IdsEmpty DEF InHand
    <3>2. A \o <<>> = A /\ <<>> \o <<>> = <<>>
      BY <2>1, Regroup
    <3>3. lost = <<>>
      BY <3>1, <3>2
    <3> HIDE DEF A, lost
    <3>4. Arriving' = Arriving
      BY <2>3, <2>4, <3>2, <3>3
    <3> QED BY <1>1, <1>2, <1>3, <2>6, <3>4, InLineSame
  <2> QED BY <2>5, <2>6
<1>8. TakenIn'
  BY <1>1, <1>2, <1>3, TakenInSame
<1> QED BY <1>4, <1>5, <1>6, <1>7, <1>8 DEF PipeInv

\* The goroutine reads a line (client.go:122-137).
LEMMA ReadKeeps ==
    ASSUME PipeInv, ReadLine
    PROVE  PipeInv'
<1> DEFINE line == Head(wire)
<1>1. /\ gpc = "read" /\ wire # <<>> /\ wire' = Tail(wire)
      /\ IF line = Ping THEN UNCHANGED <<gpc, held>> ELSE gpc' = "put" /\ held' = line
      /\ UNCHANGED <<npc, setting, artifacts, ctxDone, broken, out, conn, spc, subs, eventChan,
                     accepted, published>>
  BY DEF ReadLine, nodeVars, serverVars, runVars
<1>2. PipeShape /\ Places /\ LastOfAll /\ InLine /\ TakenIn /\ wire \in Seq(Traffic)
  BY DEF PipeInv, PipeShape
<1>3. /\ Tail(wire) \in Seq(Traffic) /\ line \in Traffic
      /\ line.type = "TaskCompleted" => Tail(wire) = <<>> /\ conn # "open"
      /\ \A i \in 1..Len(Tail(wire)) :
            Tail(wire)[i].type = "TaskCompleted" => i = Len(Tail(wire)) /\ conn # "open"
  <2>1. \A i \in 1..Len(wire) : wire[i].type = "TaskCompleted" => i = Len(wire) /\ conn # "open"
    BY <1>2 DEF LastOfAll
  <2>2. /\ Tail(wire) \in Seq(Traffic) /\ line \in Traffic
        /\ 1 \in 1..Len(wire) /\ line = wire[1]
        /\ line.type = "TaskCompleted" => Tail(wire) = <<>>
        /\ \A i \in 1..Len(Tail(wire)) :
              /\ i + 1 \in 1..Len(wire) /\ Tail(wire)[i] = wire[i + 1]
              /\ Tail(wire)[i].type = "TaskCompleted" => i = Len(Tail(wire))
    <3>1. \A i \in 1..Len(wire) : wire[i].type = "TaskCompleted" => i = Len(wire)
      BY <2>1
    <3> QED BY <1>1, <1>2, <3>1, TailIsLast
  <2> HIDE DEF line
  <2> QED BY <2>1, <2>2
<1>4. Ids(wire) = Cargo(line) \o Ids(wire') /\ Ids(wire') \in Seq(Nat) /\ Cargo(line) \in Seq(Nat)
  BY <1>1, <1>2, <1>3, IdsHead, IdsTyped, CargoTyped
<1> HIDE DEF line
<1>5. line # Ping => line \in Emitted
  BY <1>3 DEF Traffic
<1>6. PipeShape'
  BY <1>1, <1>2, <1>3, <1>5 DEF PipeShape
<1>7. Undisturbed' = Undisturbed
  BY <1>1 DEF Undisturbed
<1>8. Places'
  BY <1>1, <1>2, <1>7 DEF Places
<1>9. LastOfAll'
  <2>1. gpc' = "put" /\ held'.type = "TaskCompleted" => wire' = <<>> /\ conn' # "open"
    BY <1>1, <1>3
  <2>2. \A i \in 1..Len(wire') :
          wire'[i].type = "TaskCompleted" => i = Len(wire') /\ conn' # "open"
    BY <1>1, <1>3
  <2>3. \A i \in 1..Len(out') :
          out'[i].type = "TaskCompleted" => i = Len(out') /\ gpc' = "done"
    BY <1>1, <1>2 DEF LastOfAll
  <2> QED BY <1>1, <1>2, <2>1, <2>2, <2>3 DEF LastOfAll, Finished
<1>10. Arriving' = Arriving
  <2> DEFINE A == artifacts \o Ids(out)
  <2>1. A \in Seq(Nat)
    BY <1>2, PipeTyped
  <2>2. Ids(InHand) = <<>> /\ A \o <<>> = A
    BY <1>1, <2>1, IdsEmpty, Regroup DEF InHand
  <2>3. Arriving = A \o (Cargo(line) \o Ids(wire'))
    BY <1>4, <2>2 DEF Arriving
  <2>4. Arriving' = (A \o Ids(InHand')) \o Ids(wire')
    BY <1>1 DEF Arriving
  <2>5. Ids(InHand') = Cargo(line)
    <3>1. CASE line = Ping
      <4>1. InHand' = <<>>
        BY <1>1, <3>1 DEF InHand
      <4> QED BY <3>1, <4>1, IdsEmpty, PingIsNoEvent
    <3>2. CASE line # Ping
      <4>1. InHand' = <<line>>
        BY <1>1, <3>2 DEF InHand
      <4> QED BY <1>3, <4>1, IdsOne
    <3> QED BY <3>1, <3>2
  <2> HIDE DEF A
  <2>6. (A \o Cargo(line)) \o Ids(wire') = A \o (Cargo(line) \o Ids(wire'))
    <3>1. Ids(wire') \in Seq(Nat) /\ Cargo(line) \in Seq(Nat)
      BY <1>4
    <3> DEFINE x == Cargo(line)
               y == Ids(wire')
    <3>2. x \in Seq(Nat) /\ y \in Seq(Nat)
      BY <3>1
    <3> HIDE DEF x, y
    <3>3. (A \o x) \o y = A \o (x \o y)
      BY ONLY <2>1, <3>2, Associative, Zenon
    <3> QED BY <3>3 DEF x, y
  <2> QED BY <2>3, <2>4, <2>5, <2>6
<1>11. InLine'
  BY <1>1, <1>2, <1>7, <1>10, InLineSame
<1>12. TakenIn'
  BY <1>1, <1>2, <1>7, TakenInSame
<1> QED BY <1>6, <1>8, <1>9, <1>11, <1>12 DEF PipeInv

\* The goroutine hands an event to the node, and ends after TaskCompleted, when
\* nothing is left to be read (client.go:138-146).
LEMMA PutKeeps ==
    ASSUME PipeInv, Put
    PROVE  PipeInv'
<1>1. /\ gpc = "put" /\ out' = Append(out, held)
      /\ IF held.type = "TaskCompleted" THEN Ends
         ELSE gpc' = "read" /\ held' = NoEvent /\ UNCHANGED <<conn, wire>>
      /\ UNCHANGED <<npc, setting, artifacts, ctxDone, broken, spc, subs, eventChan, accepted,
                     published>>
  BY DEF Put, nodeVars, connVars, serverVars, runVars
<1>2. /\ PipeShape /\ Places /\ LastOfAll /\ InLine /\ TakenIn
      /\ out \in Seq(Emitted) /\ held \in Emitted /\ artifacts \in Seq(Nat)
  BY <1>1 DEF PipeInv, PipeShape
<1>3. /\ out' \in Seq(Emitted) /\ Len(out') = Len(out) + 1 /\ out'[Len(out')] = held
      /\ Len(out) \in Nat /\ \A i \in 1..Len(out) : out'[i] = out[i]
  BY <1>1, <1>2
<1>4. \A i \in 1..Len(out) : out[i].type # "TaskCompleted"
  BY <1>1, <1>2 DEF LastOfAll
<1>5. ASSUME NEW i \in 1..Len(out'), out'[i].type = "TaskCompleted"
      PROVE  i = Len(out') /\ held.type = "TaskCompleted"
  <2>1. i \in 1..Len(out) \/ i = Len(out')
    BY <1>3
  <2> QED BY <1>3, <1>4, <1>5, <2>1
<1>6. gpc' \in {"read", "done"} /\ (held.type = "TaskCompleted" => gpc' = "done")
  BY <1>1 DEF Ends
<1>7. wire' = wire
  BY <1>1, <1>2 DEF Ends, LastOfAll
<1>8. Undisturbed' = Undisturbed
  BY <1>1 DEF Undisturbed
<1>9. Arriving' = Arriving
  <2>1. /\ Ids(out) \in Seq(Nat) /\ Cargo(held) \in Seq(Nat)
        /\ Ids(out') = Ids(out) \o Cargo(held) /\ Ids(InHand) = Cargo(held)
    <3>1. out \in Seq(Traffic) /\ held \in Traffic
      BY <1>2 DEF Traffic
    <3>2. InHand = <<held>>
      BY <1>1 DEF InHand
    <3> QED BY <1>1, <3>1, <3>2, IdsTyped, IdsAppend, IdsOne, CargoTyped
  <2>2. Ids(InHand') = <<>>
    BY <1>6, IdsEmpty DEF InHand
  <2>3. /\ (artifacts \o Ids(out)) \o Cargo(held) = artifacts \o (Ids(out) \o Cargo(held))
        /\ Ids(out) \o Cargo(held) \in Seq(Nat)
    <3> DEFINE x == Ids(out)
               y == Cargo(held)
    <3>1. artifacts \in Seq(Nat) /\ x \in Seq(Nat) /\ y \in Seq(Nat)
      BY <1>2, <2>1
    <3> HIDE DEF x, y
    <3>2. (artifacts \o x) \o y = artifacts \o (x \o y)
      BY ONLY <3>1, Associative, Zenon
    <3>3. x \o y \in Seq(Nat)
      BY ONLY <3>1, Joined
    <3> QED BY <3>2, <3>3 DEF x, y
  <2> DEFINE A == artifacts \o (Ids(out) \o Cargo(held))
  <2>4. A \o <<>> = A
    BY <1>2, <2>3, Regroup
  <2>5. Arriving = A \o Ids(wire)
    BY <2>1, <2>3 DEF Arriving
  <2>6. Arriving' = (A \o <<>>) \o Ids(wire)
    BY <1>1, <1>7, <2>1, <2>2 DEF Arriving
  <2> HIDE DEF A
  <2> QED BY <2>4, <2>5, <2>6
<1>10. conn # "none" /\ conn' \in {conn, "cut"}
       /\ (conn' # conn => held.type = "TaskCompleted")
  BY <1>1, <1>2 DEF Places, Ends
<1>11. held.type = "TaskCompleted" => wire = <<>> /\ conn # "open"
  BY <1>1, <1>2 DEF LastOfAll
<1>12. PipeShape'
  BY <1>1, <1>2, <1>3, <1>6, <1>7, <1>10 DEF PipeShape
<1>13. npc = "over" => broken
  BY <1>1, <1>2, <1>10 DEF Places, PipeShape
<1>14. gpc' = "done" => conn' = "cut" /\ wire' = <<>>
  BY <1>1 DEF Ends
<1>15. Places'
  <2>1. conn' = "cut" /\ Undisturbed' => gpc' = "done"
    BY <1>1, <1>2, <1>6, <1>8, <1>10 DEF Places
  <2> QED BY <1>1, <1>2, <1>6, <1>10, <1>13, <1>14, <2>1 DEF Places
<1>16. LastOfAll'
  <2>1. \A i \in 1..Len(out') :
          out'[i].type = "TaskCompleted" => i = Len(out') /\ gpc' = "done"
    BY <1>5, <1>6
  <2>2. \A i \in 1..Len(wire') :
          wire'[i].type = "TaskCompleted" => i = Len(wire') /\ conn' # "open"
    BY <1>2, <1>7, <1>10 DEF LastOfAll
  <2> QED BY <1>1, <1>2, <1>6, <2>1, <2>2 DEF LastOfAll, Finished
<1>17. InLine'
  <2>1. conn \in {"none", "open", "eof", "cut"}
    BY <1>2 DEF PipeShape
  <2> QED BY <1>1, <1>2, <1>8, <1>9, <1>10, <1>11, <2>1, InLineSame
<1>18. TakenIn'
  BY <1>1, <1>2, <1>8, TakenInSame
<1> QED BY <1>12, <1>15, <1>16, <1>17, <1>18 DEF PipeInv

\* The handler makes its subscriptions, NodeCompleted first (server.go:320-335).
LEMMA SubscribeKeeps ==
    ASSUME PipeInv, Subscribe
    PROVE  PipeInv'
<1>1. /\ spc = "subscribing" /\ spc' \in {"subscribing", "serving"} /\ subs \subseteq subs'
      /\ subs = {} => "NodeCompleted" \in subs'
      /\ subs' # {}
      /\ UNCHANGED <<npc, setting, artifacts, ctxDone, broken, gpc, held, out, conn, wire, eventChan,
                     accepted, published>>
  BY DEF Subscribe, nodeVars, clientVars, connVars, runVars
<1>2. PipeShape /\ Places /\ LastOfAll /\ InLine /\ TakenIn
  BY DEF PipeInv
<1>3. PipeShape'
  BY <1>1, <1>2 DEF PipeShape
<1>4. Undisturbed' = Undisturbed
  BY <1>1 DEF Undisturbed
<1>5. Places'
  BY <1>1, <1>2, <1>4 DEF Places
<1>6. LastOfAll'
  BY <1>1, <1>2 DEF LastOfAll, Finished
<1>7. Arriving' = Arriving
  BY <1>1 DEF Arriving, InHand
<1>8. InLine'
  BY <1>1, <1>2, <1>4, <1>7, InLineSame
<1>9. TakenIn'
  BY <1>1, <1>2 DEF TakenIn
<1> QED BY <1>3, <1>5, <1>6, <1>8, <1>9 DEF PipeInv

\* A comment on an open connection (server.go:337-347).
LEMMA KeepAliveKeeps ==
    ASSUME PipeInv, KeepAlive
    PROVE  PipeInv'
<1>1. /\ conn = "open" /\ wire' = Append(wire, Ping)
      /\ UNCHANGED <<npc, setting, artifacts, ctxDone, broken, gpc, held, out, conn, spc, subs,
                     eventChan, accepted, published>>
  BY DEF KeepAlive, nodeVars, clientVars, serverVars, runVars
<1>2. PipeShape /\ Places /\ LastOfAll /\ InLine /\ TakenIn /\ wire \in Seq(Traffic)
  BY DEF PipeInv, PipeShape
<1>3. /\ wire' \in Seq(Traffic) /\ Len(wire') = Len(wire) + 1 /\ wire'[Len(wire')] = Ping
      /\ Len(wire) \in Nat /\ \A i \in 1..Len(wire) : wire'[i] = wire[i]
  BY <1>1, <1>2 DEF Traffic
<1>4. PipeShape'
  BY <1>1, <1>2, <1>3 DEF PipeShape
<1>5. Undisturbed' = Undisturbed
  BY <1>1 DEF Undisturbed
<1>6. Places'
  BY <1>1, <1>2, <1>5 DEF Places
<1>7. \A i \in 1..Len(wire') : wire'[i].type # "TaskCompleted"
  <2> TAKE i \in 1..Len(wire')
  <2>1. i \in 1..Len(wire) \/ i = Len(wire')
    BY <1>3
  <2>2. ASSUME i \in 1..Len(wire) PROVE wire'[i].type # "TaskCompleted"
    BY <1>1, <1>2, <1>3, <2>2 DEF LastOfAll
  <2> QED BY <1>3, <2>1, <2>2, PingIsNoEvent
<1>8. LastOfAll'
  BY <1>1, <1>2, <1>7 DEF LastOfAll, Finished
<1>9. Arriving' = Arriving
  <2>1. Ids(wire') = Ids(wire) \o Cargo(Ping) /\ Ids(wire) \in Seq(Nat)
    BY <1>1, <1>2, IdsAppend, IdsTyped DEF Traffic
  <2>2. Ids(wire) \o <<>> = Ids(wire)
    BY <2>1, Regroup
  <2>3. Ids(wire') = Ids(wire)
    BY <2>1, <2>2, PingIsNoEvent
  <2> QED BY <1>1, <2>3 DEF Arriving, InHand
<1>10. InLine'
  BY <1>1, <1>2, <1>5, <1>9, InLineSame
<1>11. TakenIn'
  BY <1>1, <1>2, <1>5, TakenInSame
<1> QED BY <1>4, <1>6, <1>8, <1>10, <1>11 DEF PipeInv

\* The handler leaves when its request is over (server.go:343).
LEMMA ServerGoneKeeps ==
    ASSUME PipeInv, ServerGone
    PROVE  PipeInv'
<1>1. /\ spc = "serving" /\ conn = "cut" /\ spc' = "gone" /\ subs' = {} /\ eventChan' = <<>>
      /\ UNCHANGED <<npc, setting, artifacts, ctxDone, broken, gpc, held, out, conn, wire,
                     accepted, published>>
  BY DEF ServerGone, nodeVars, clientVars, connVars, runVars
<1>2. PipeShape /\ Places /\ LastOfAll /\ InLine /\ TakenIn
  BY DEF PipeInv
<1>3. PipeShape'
  BY <1>1, <1>2 DEF PipeShape
<1>4. Undisturbed' = Undisturbed
  BY <1>1 DEF Undisturbed
<1>5. Places'
  BY <1>1, <1>2, <1>4 DEF Places
<1>6. LastOfAll'
  BY <1>1, <1>2 DEF LastOfAll
<1>7. Arriving' = Arriving
  BY <1>1 DEF Arriving, InHand
<1>8. InLine'
  BY <1>1, <1>2, <1>4, <1>7 DEF InLine, Finished
<1>9. TakenIn'
  BY <1>1, <1>2, <1>4 DEF TakenIn
<1> QED BY <1>3, <1>5, <1>6, <1>8, <1>9 DEF PipeInv

\* The handler writes an event, and returns after TaskCompleted
\* (server.go:348-357).
LEMMA ServeKeeps ==
    ASSUME PipeInv, ServeEvent
    PROVE  PipeInv'
<1> DEFINE ev == Head(eventChan)
           last == ev.type = "TaskCompleted"
<1>1. /\ spc = "serving" /\ eventChan # <<>> /\ eventChan' = Tail(eventChan)
      /\ wire' = IF conn = "open" THEN Append(wire, ev) ELSE wire
      /\ conn' = IF last /\ conn = "open" THEN "eof" ELSE conn
      /\ spc' = IF last THEN "gone" ELSE spc
      /\ subs' = IF last THEN {} ELSE subs
      /\ UNCHANGED <<npc, setting, artifacts, ctxDone, broken, gpc, held, out, accepted, published>>
  BY DEF ServeEvent, nodeVars, clientVars, runVars
<1>2. /\ PipeShape /\ Places /\ LastOfAll /\ InLine /\ TakenIn
      /\ eventChan \in Seq(Emitted) /\ wire \in Seq(Traffic)
      /\ conn \in {"none", "open", "eof", "cut"}
  BY DEF PipeInv, PipeShape
<1>3. /\ Tail(eventChan) \in Seq(Emitted) /\ ev \in Emitted
      /\ last => Tail(eventChan) = <<>> /\ Finished(published)
      /\ \A i \in 1..Len(Tail(eventChan)) : Tail(eventChan)[i].type = "TaskCompleted" =>
            i = Len(Tail(eventChan)) /\ Finished(published)
  <2>1. \A i \in 1..Len(eventChan) :
          eventChan[i].type = "TaskCompleted" => i = Len(eventChan) /\ Finished(published)
    BY <1>2 DEF LastOfAll
  <2>2. \A i \in 1..Len(eventChan) : eventChan[i].type = "TaskCompleted" => i = Len(eventChan)
    BY <2>1
  <2>3. /\ Tail(eventChan) \in Seq(Emitted) /\ ev \in Emitted
        /\ 1 \in 1..Len(eventChan) /\ ev = eventChan[1]
        /\ ev.type = "TaskCompleted" => Tail(eventChan) = <<>>
        /\ \A i \in 1..Len(Tail(eventChan)) :
              /\ i + 1 \in 1..Len(eventChan) /\ Tail(eventChan)[i] = eventChan[i + 1]
              /\ Tail(eventChan)[i].type = "TaskCompleted" => i = Len(Tail(eventChan))
    BY <1>1, <1>2, <2>2, TailIsLast
  <2> HIDE DEF ev
  <2> QED BY <2>1, <2>3
<1>4. ev \in Traffic /\ Cargo(ev) \in Seq(Nat) /\ Ids(eventChan') \in Seq(Nat)
      /\ Ids(eventChan) = Cargo(ev) \o Ids(eventChan')
  <2>1. eventChan \in Seq(Traffic) /\ eventChan' \in Seq(Traffic)
    BY <1>1, <1>2, <1>3, TrafficSeqs
  <2> QED BY <1>1, <1>3, <2>1, IdsHead, IdsTyped, CargoTyped DEF Traffic
<1> HIDE DEF ev
<1>5. conn # "none"
  BY <1>1, <1>2 DEF Places
<1>6. wire' \in Seq(Traffic)
  BY <1>1, <1>2, <1>4
<1>7. PipeShape'
  BY <1>1, <1>2, <1>3, <1>6 DEF PipeShape
<1>8. Undisturbed' = Undisturbed
  BY <1>1 DEF Undisturbed
<1>9. Places'
  BY <1>1, <1>2, <1>5, <1>8 DEF Places
<1>10. TakenIn'
  BY <1>1, <1>2, <1>8 DEF TakenIn
<1>11. \A i \in 1..Len(eventChan') : eventChan'[i].type = "TaskCompleted" =>
            i = Len(eventChan') /\ Finished(published')
  BY <1>1, <1>3 DEF Finished
<1>12. CASE conn = "open"
  <2>1. wire' = Append(wire, ev) /\ conn' = IF last THEN "eof" ELSE "open"
    BY <1>1, <1>12
  <2>2. LastOfAll'
    <3>1. /\ Len(wire') = Len(wire) + 1 /\ wire'[Len(wire')] = ev
          /\ Len(wire) \in Nat /\ \A i \in 1..Len(wire) : wire'[i] = wire[i]
      BY <1>2, <1>4, <2>1
    <3>2. ASSUME NEW i \in 1..Len(wire'), wire'[i].type = "TaskCompleted"
          PROVE  i = Len(wire') /\ conn' # "open"
      <4>1. i \in 1..Len(wire) \/ i = Len(wire')
        BY <3>1
      <4>2. i \notin 1..Len(wire)
        BY <1>2, <1>12, <3>1, <3>2 DEF LastOfAll
      <4> QED BY <2>1, <3>1, <3>2, <4>1, <4>2
    <3>3. ~(gpc' = "put" /\ held'.type = "TaskCompleted")
      BY <1>1, <1>2, <1>12 DEF LastOfAll
    <3>4. \A i \in 1..Len(out') : out'[i].type = "TaskCompleted" => i = Len(out') /\ gpc' = "done"
      BY <1>1, <1>2 DEF LastOfAll
    <3> QED BY <1>11, <3>2, <3>3, <3>4 DEF LastOfAll
  <2>3. Arriving' = Arriving \o Cargo(ev) /\ Arriving \in Seq(Nat)
    <3> DEFINE A == (artifacts \o Ids(out)) \o Ids(InHand)
    <3>1. A \in Seq(Nat) /\ Ids(wire) \in Seq(Nat) /\ Arriving \in Seq(Nat)
      BY <1>2, PipeTyped
    <3>2. Ids(wire') = Ids(wire) \o Cargo(ev)
      BY <1>2, <1>4, <2>1, IdsAppend
    <3>3. Arriving = A \o Ids(wire)
      BY DEF Arriving
    <3>4. Arriving' = A \o (Ids(wire) \o Cargo(ev))
      BY <1>1, <3>2 DEF Arriving, InHand
    <3>5. (A \o Ids(wire)) \o Cargo(ev) = A \o (Ids(wire) \o Cargo(ev))
      <4> DEFINE y == Ids(wire)
                 z == Cargo(ev)
      <4>1. A \in Seq(Nat) /\ y \in Seq(Nat) /\ z \in Seq(Nat)
        BY <1>4, <3>1
      <4> HIDE DEF A, y, z
      <4>2. (A \o y) \o z = A \o (y \o z)
        BY ONLY <4>1, Associative, Zenon
      <4> QED BY <4>2 DEF y, z
    <3> HIDE DEF A
    <3> QED BY <3>1, <3>3, <3>4, <3>5
  <2>4. Ids(accepted') = Arriving' \o Ids(eventChan')
    <3>1. Ids(accepted) = Arriving \o (Cargo(ev) \o Ids(eventChan'))
      BY <1>2, <1>4, <1>12 DEF InLine
    <3>2. (Arriving \o Cargo(ev)) \o Ids(eventChan') = Arriving \o (Cargo(ev) \o Ids(eventChan'))
      <4> DEFINE x == Arriving
                 y == Cargo(ev)
                 z == Ids(eventChan')
      <4>1. x \in Seq(Nat) /\ y \in Seq(Nat) /\ z \in Seq(Nat)
        BY <1>4, <2>3
      <4> HIDE DEF x, y, z
      <4>2. (x \o y) \o z = x \o (y \o z)
        BY ONLY <4>1, Associative, Zenon
      <4> QED BY <4>2 DEF x, y, z
    <3> QED BY <1>1, <2>3, <3>1, <3>2
  <2>5. last => Ids(accepted') = Arriving' /\ Finished(published')
    <3> SUFFICES ASSUME last PROVE Ids(accepted') = Arriving' /\ Finished(published')
      OBVIOUS
    <3>1. Ids(eventChan') = <<>> /\ published' = published /\ Finished(published)
      BY <1>1, <1>3, IdsEmpty
    <3>2. Arriving' \in Seq(Nat)
      BY <1>4, <2>3, Regroup
    <3>3. Arriving' \o <<>> = Arriving'
      BY <3>2, Regroup
    <3> QED BY <2>4, <3>1, <3>3
  <2>6. InLine'
    BY <1>4, <2>1, <2>4, <2>5 DEF InLine
  <2> QED BY <1>7, <1>9, <1>10, <2>2, <2>6 DEF PipeInv
<1>13. CASE conn # "open"
  <2>1. wire' = wire /\ conn' = conn
    BY <1>1, <1>13
  <2>2. LastOfAll'
    BY <1>1, <1>2, <1>11, <2>1 DEF LastOfAll
  <2>3. Arriving' = Arriving
    BY <1>1, <2>1 DEF Arriving, InHand
  <2>4. InLine'
    BY <1>1, <1>2, <1>8, <1>13, <2>1, <2>3 DEF InLine, Finished
  <2> QED BY <1>7, <1>9, <1>10, <2>2, <2>4 DEF PipeInv
<1> QED BY <1>12, <1>13

\* The remote run publishes an event, which the handler takes in if it has
\* subscribed to its type (server.go:312-335).
LEMMA PublishKeeps ==
    ASSUME PipeInv, NEW ev \in RunEvents, Publish(ev)
    PROVE  PipeInv'
<1>1. /\ \A i \in DOMAIN published : published[i].type # "TaskCompleted"
      /\ published' = Append(published, ev)
      /\ IF ev.type \in subs
         THEN eventChan' = Append(eventChan, ev) /\ accepted' = Append(accepted, ev)
         ELSE UNCHANGED <<eventChan, accepted>>
      /\ Len(published) < MaxEvents
      /\ UNCHANGED <<npc, setting, artifacts, ctxDone, broken, gpc, held, out, conn, wire, spc, subs>>
  BY DEF Publish, nodeVars, clientVars, connVars
<1>2. /\ PipeShape /\ Places /\ LastOfAll /\ InLine /\ TakenIn
      /\ published \in Seq(Emitted) /\ eventChan \in Seq(Emitted) /\ accepted \in Seq(Emitted)
      /\ setting \in Settings
      /\ conn \in {"none", "open", "eof", "cut"}
  BY DEF PipeInv, PipeShape
<1>3. ev \in Emitted /\ ev \in Traffic /\ Cargo(ev) \in Seq(Nat)
  BY <1>1, <1>2, RunEmits, CargoTyped DEF Traffic
<1>4. /\ Ids(published) \in Seq(Nat) /\ Ids(accepted) \in Seq(Nat) /\ Ids(eventChan) \in Seq(Nat)
      /\ Arriving \in Seq(Nat)
  BY <1>2, PipeTyped
<1>5. ~Finished(published)
  BY <1>1, <1>2 DEF Finished
<1>6. ~(conn \in {"eof", "cut"} /\ Undisturbed)
  BY <1>2, <1>5 DEF InLine
<1>7. Ids(published') = Ids(published) \o Cargo(ev)
  BY <1>1, <1>2, <1>3, TrafficSeqs, IdsAppend
<1>8. PipeShape'
  <2>1. published' \in Seq(Emitted)
    BY <1>1, <1>2, <1>3
  <2>2. eventChan' \in Seq(Emitted) /\ accepted' \in Seq(Emitted)
    <3>1. Append(eventChan, ev) \in Seq(Emitted) /\ Append(accepted, ev) \in Seq(Emitted)
      BY <1>2, <1>3
    <3> QED BY <1>1, <1>2, <3>1, Zenon
  <2>3. PipeShape
    BY <1>2
  <2> QED BY <1>1, <2>1, <2>2, <2>3, Zenon DEF PipeShape
<1>9. Undisturbed' = Undisturbed /\ Arriving' = Arriving
  BY <1>1 DEF Undisturbed, Arriving, InHand
<1>10. subs # {} => conn # "none" /\ "NodeCompleted" \in subs
  BY <1>2 DEF Places, TakenIn
<1>11. Places'
  <2>1. conn = "none" => eventChan' = eventChan /\ accepted' = accepted
    BY <1>1, <1>10
  <2> QED BY <1>1, <1>2, <1>9, <2>1 DEF Places
<1>12. ASSUME NEW i \in 1..Len(eventChan'), eventChan'[i].type = "TaskCompleted"
       PROVE  i = Len(eventChan') /\ Finished(published')
  <2>1. ~(i \in 1..Len(eventChan) /\ eventChan[i].type = "TaskCompleted")
    BY <1>2, <1>5 DEF LastOfAll
  <2>2. /\ eventChan' = Append(eventChan, ev) /\ ev.type \in subs
    BY <1>1, <1>12, <2>1
  <2>3. /\ Len(eventChan') = Len(eventChan) + 1 /\ Len(eventChan) \in Nat
        /\ eventChan'[Len(eventChan')] = ev
        /\ \A k \in 1..Len(eventChan) : eventChan'[k] = eventChan[k]
    BY <1>2, <1>3, <2>2
  <2>4. i = Len(eventChan')
    BY <1>12, <2>1, <2>3
  <2>5. ev.type = "TaskCompleted"
    BY <1>12, <2>3, <2>4
  <2>6. Len(published') \in 1..Len(published') /\ published'[Len(published')] = ev
    BY <1>1, <1>2, <1>3
  <2>7. Finished(published')
    BY <2>5, <2>6 DEF Finished
  <2> QED BY <2>4, <2>7
<1>13. LastOfAll'
  BY <1>1, <1>2, <1>12 DEF LastOfAll
<1>14. CASE ev.type \in subs
  <2>1. eventChan' = Append(eventChan, ev) /\ accepted' = Append(accepted, ev)
    BY <1>1, <1>14
  <2>2. /\ Ids(accepted') = Ids(accepted) \o Cargo(ev)
        /\ Ids(eventChan') = Ids(eventChan) \o Cargo(ev)
    BY <1>2, <1>3, <2>1, TrafficSeqs, IdsAppend
  <2>3. PICK rest \in Seq(Nat) : Ids(accepted) = Arriving \o rest
    BY <1>2 DEF InLine
  <2>4. /\ rest \o Cargo(ev) \in Seq(Nat)
        /\ (Arriving \o rest) \o Cargo(ev) = Arriving \o (rest \o Cargo(ev))
    <3> DEFINE x == Arriving
               z == Cargo(ev)
    <3>1. x \in Seq(Nat) /\ rest \in Seq(Nat) /\ z \in Seq(Nat)
      BY <1>3, <1>4
    <3> HIDE DEF x, z
    <3>2. (x \o rest) \o z = x \o (rest \o z)
      BY ONLY <3>1, Associative, Zenon
    <3>3. rest \o z \in Seq(Nat)
      BY ONLY <3>1, Joined
    <3> QED BY <3>2, <3>3 DEF x, z
  <2>5. \E r \in Seq(Nat) : Ids(accepted') = Arriving' \o r
    BY <1>9, <2>2, <2>3, <2>4
  <2>6. conn = "open" => Ids(accepted') = Arriving' \o Ids(eventChan')
    <3> SUFFICES ASSUME conn = "open" PROVE Ids(accepted') = Arriving' \o Ids(eventChan')
      OBVIOUS
    <3>1. Ids(accepted) = Arriving \o Ids(eventChan)
      BY <1>2 DEF InLine
    <3>2. (Arriving \o Ids(eventChan)) \o Cargo(ev) = Arriving \o (Ids(eventChan) \o Cargo(ev))
      <4>1. Arriving \in Seq(Nat) /\ Ids(eventChan) \in Seq(Nat) /\ Cargo(ev) \in Seq(Nat)
        BY <1>3, <1>4
      <4> QED BY ONLY <4>1, Associative, Zenon
    <3> QED BY <1>9, <2>2, <3>1, <3>2
  <2>7. InLine'
    BY <1>1, <1>6, <1>9, <2>5, <2>6 DEF InLine
  <2>8. ASSUME spc # "gone" \/ Undisturbed
        PROVE  \E before \in Seq(Nat) : Ids(published') = before \o Ids(accepted')
    <3>1. PICK before \in Seq(Nat) : Ids(published) = before \o Ids(accepted)
      BY <1>2, <2>8 DEF TakenIn
    <3>2. (before \o Ids(accepted)) \o Cargo(ev) = before \o (Ids(accepted) \o Cargo(ev))
      <4>1. before \in Seq(Nat) /\ Ids(accepted) \in Seq(Nat) /\ Cargo(ev) \in Seq(Nat)
        BY <1>3, <1>4
      <4> QED BY ONLY <4>1, Associative, Zenon
    <3> QED BY <1>7, <2>2, <3>1, <3>2
  <2>9. TakenIn'
    BY <1>1, <1>2, <1>9, <1>14, <2>8 DEF TakenIn
  <2> QED BY <1>8, <1>11, <1>13, <2>7, <2>9 DEF PipeInv
<1>15. CASE ev.type \notin subs
  <2>1. eventChan' = eventChan /\ accepted' = accepted
    BY <1>1, <1>15
  <2>2. InLine'
    BY <1>1, <1>2, <1>6, <1>9, <2>1 DEF InLine
  <2>3. ASSUME spc # "gone" \/ Undisturbed
        PROVE  \E before \in Seq(Nat) : Ids(published') = before \o Ids(accepted')
    <3>1. spc # "gone"
      BY <1>2, <1>6, <2>3 DEF Places
    <3>2. CASE subs = {}
      <4>1. Ids(accepted') = <<>>
        BY <1>2, <2>1, <3>1, <3>2, IdsEmpty DEF TakenIn
      <4>2. Ids(published') \in Seq(Nat)
        BY <1>3, <1>4, <1>7, Regroup
      <4>3. Ids(published') \o <<>> = Ids(published')
        BY <4>2, Regroup
      <4> QED BY <4>1, <4>2, <4>3
    <3>3. CASE subs # {}
      <4>1. ev.type # "NodeCompleted"
        BY <1>10, <1>15, <3>3
      <4>2. Cargo(ev) = <<>>
        BY <1>3, <4>1 DEF Cargo, Carried, Emitted
      <4>3. Ids(published') = Ids(published)
        BY <1>4, <1>7, <4>2, Regroup
      <4> QED BY <1>2, <2>1, <3>1, <4>3 DEF TakenIn
    <3> QED BY <3>2, <3>3
  <2>4. TakenIn'
    BY <1>1, <1>2, <1>9, <2>1, <2>3 DEF TakenIn
  <2> QED BY <1>8, <1>11, <1>13, <2>2, <2>4 DEF PipeInv
<1> QED BY <1>14, <1>15

\* A step of the node that returns or makes its next request (delegate_node.go:28-64).
LEMMA RequestKeeps ==
    ASSUME PipeInv, Discover \/ SendMessage \/ SendFails \/ StreamFails \/ RangeEnds
    PROVE  PipeInv'
<1>1. /\ UNCHANGED <<setting, artifacts, ctxDone, broken, clientVars, connVars, serverVars, published>>
      /\ \/ npc \in {"discover", "send", "stream"}
         \/ npc = "range" /\ out = <<>> /\ gpc = "done" /\ npc' = "over"
      /\ npc' = "over" \/ (npc \in {"discover", "send"} /\ npc' \in {"send", "stream"})
  <2>1. CASE Discover
    BY <2>1 DEF Discover, ProcessFails, runVars
  <2>2. CASE SendMessage
    BY <2>2 DEF SendMessage, StartRun, ProcessFails, runVars
  <2>3. CASE SendFails
    BY <2>3 DEF SendFails, ProcessFails, runVars
  <2>4. CASE StreamFails
    BY <2>4 DEF StreamFails, runVars
  <2>5. CASE RangeEnds
    BY <2>5 DEF RangeEnds, runVars
  <2> QED BY <2>1, <2>2, <2>3, <2>4, <2>5
<1> QED BY <1>1, NodeKeeps

LEMMA PipeInductive == DelegationSpec => []PipeInv
<1>1. DelegationInit => PipeInv
  <2> SUFFICES ASSUME DelegationInit PROVE PipeInv
    OBVIOUS
  <2>1. PipeShape
    <3>1. /\ setting \in Settings /\ broken = FALSE /\ npc = "discover"
          /\ gpc = "none" /\ conn = "none" /\ spc = "none"
          /\ artifacts = <<>> /\ out = <<>> /\ wire = <<>> /\ eventChan = <<>>
          /\ accepted = <<>> /\ published = <<>>
      BY DEF DelegationInit
    <3>2. <<>> \in Seq(Nat) /\ <<>> \in Seq(Emitted) /\ <<>> \in Seq(Traffic)
      OBVIOUS
    <3> QED BY <3>1, <3>2 DEF PipeShape
  <2>2. Places /\ LastOfAll
    BY DEF DelegationInit, Places, LastOfAll
  <2>3. <<>> \in Seq(Nat) /\ <<>> \o <<>> = <<>>
    BY Regroup
  <2>4. Arriving = <<>> /\ Ids(accepted) = <<>> /\ Ids(published) = <<>>
    BY <2>3, IdsEmpty DEF DelegationInit, Arriving, InHand
  <2>5. InLine /\ TakenIn
    BY <2>3, <2>4 DEF DelegationInit, InLine, TakenIn
  <2> QED BY <2>1, <2>2, <2>5 DEF PipeInv
<1>2. PipeInv /\ [DelegationNext]_delegationVars => PipeInv'
  <2> SUFFICES ASSUME PipeInv, [DelegationNext]_delegationVars PROVE PipeInv'
    OBVIOUS
  <2>1. CASE Process
    BY <2>1, RequestKeeps, OpenKeeps, ConsumeKeeps DEF Process
  <2>2. CASE CancelRun
    BY <2>2, CutKeeps DEF CancelRun, runVars
  <2>3. CASE Cut
    BY <2>3, CutKeeps DEF Cut, runVars
  <2>4. CASE ReadLine \/ Put
    BY <2>4, ReadKeeps, PutKeeps
  <2>5. CASE PutCancelled
    <3>1. ~Undisturbed
      BY <2>5 DEF PutCancelled, PipeInv, Places, Undisturbed
    <3> QED BY <2>5, <3>1, EndsKeeps DEF PutCancelled, runVars
  <2>6. CASE ReadFails
    <3>1. ~Undisturbed \/ (conn \in {"eof", "cut"} /\ wire = <<>> /\ gpc = "read")
      BY <2>6 DEF ReadFails, PipeInv, Places
    <3> QED BY <2>6, <3>1, EndsKeeps DEF ReadFails, runVars
  <2>7. CASE Serve \/ KeepAlive
    BY <2>7, SubscribeKeeps, ServeKeeps, ServerGoneKeeps, KeepAliveKeeps DEF Serve
  <2>8. CASE \E ev \in RunEvents : Publish(ev)
    BY <2>8, PublishKeeps
  <2>9. CASE \E h \in Hooks : AddWebhook(h)
    BY <2>9, NodeKeeps DEF AddWebhook, nodeVars, runVars
  <2>10. CASE \E i \in 1..MaxEvents : Dispatch(i)
    BY <2>10, NodeKeeps DEF Dispatch, Lookup, Notified, NotifyFails, nodeVars, runVars
  <2>11. CASE UNCHANGED delegationVars
    BY <2>11, NodeKeeps DEF delegationVars, nodeVars, runVars
  <2> QED BY <2>1, <2>2, <2>3, <2>4, <2>5, <2>6, <2>7, <2>8, <2>9, <2>10, <2>11
          DEF DelegationNext, Stream
<1> QED BY <1>1, <1>2, PTL DEF DelegationSpec

LEMMA PrefixOfConcat ==
    ASSUME NEW a \in Seq(Nat), NEW b \in Seq(Nat)
    PROVE  IsPrefix(a, a \o b)
<1> DEFINE t == a \o b
<1>1. /\ t \in Seq(Nat) /\ Len(a) \in Nat /\ Len(a) <= Len(t)
      /\ \A i \in 1..Len(a) : t[i] = a[i]
  OBVIOUS
<1> HIDE DEF t
<1>2. /\ SubSeq(a, 1, Len(a)) \in Seq(Nat) /\ SubSeq(t, 1, Len(a)) \in Seq(Nat)
      /\ Len(SubSeq(a, 1, Len(a))) = Len(a) /\ Len(SubSeq(t, 1, Len(a))) = Len(a)
      /\ \A i \in 1..Len(a) : SubSeq(a, 1, Len(a))[i] = a[i] /\ SubSeq(t, 1, Len(a))[i] = t[i]
  <2>1. ASSUME NEW s \in Seq(Nat), NEW n \in Nat, n <= Len(s)
        PROVE  /\ SubSeq(s, 1, n) \in Seq(Nat) /\ Len(SubSeq(s, 1, n)) = n
               /\ \A i \in 1..n : SubSeq(s, 1, n)[i] = s[i]
    <3>1. SubSeq(s, 1, n) \in Seq(Nat) /\ Len(SubSeq(s, 1, n)) = n
      BY <2>1
    <3>2. \A i \in 1..n : SubSeq(s, 1, n)[i] = s[i]
      BY <2>1
    <3> QED BY <3>1, <3>2
  <2>2. Len(a) <= Len(a)
    BY <1>1
  <2>3. /\ SubSeq(a, 1, Len(a)) \in Seq(Nat) /\ Len(SubSeq(a, 1, Len(a))) = Len(a)
        /\ \A i \in 1..Len(a) : SubSeq(a, 1, Len(a))[i] = a[i]
    BY <1>1, <2>1, <2>2
  <2>4. /\ SubSeq(t, 1, Len(a)) \in Seq(Nat) /\ Len(SubSeq(t, 1, Len(a))) = Len(a)
        /\ \A i \in 1..Len(a) : SubSeq(t, 1, Len(a))[i] = t[i]
    BY <1>1, <2>1
  <2> QED BY <2>3, <2>4
<1>3. SubSeq(a, 1, Len(a)) = SubSeq(t, 1, Len(a))
  BY <1>1, <1>2, SeqEqual
<1>4. IsPrefix(a, t)
  BY <1>1, <1>3 DEF IsPrefix
<1> QED BY <1>4 DEF t

\* b begins with a.
Begins(a, b) == \E x \in Seq(Nat) : b = a \o x

LEMMA Extended ==
    \A a, c \in Seq(Nat) : \A b : Begins(a, b) => Begins(a, b \o c)
<1> SUFFICES ASSUME NEW a \in Seq(Nat), NEW c \in Seq(Nat), NEW b, Begins(a, b)
             PROVE  Begins(a, b \o c)
  OBVIOUS
<1>1. PICK x \in Seq(Nat) : b = a \o x
  BY DEF Begins
<1>2. x \o c \in Seq(Nat)
  BY Joined
<1>3. (a \o x) \o c = a \o (x \o c)
  BY Associative, Zenon
<1> QED BY <1>1, <1>2, <1>3 DEF Begins

LEMMA PrefixThrough ==
    ASSUME NEW a \in Seq(Nat), NEW o \in Seq(Nat), NEW h \in Seq(Nat), NEW w \in Seq(Nat),
           NEW r \in Seq(Nat)
    PROVE  IsPrefix(a, (((a \o o) \o h) \o w) \o r)
<1>1. Begins(a, a \o o)
  BY DEF Begins
<1>2. Begins(a, (a \o o) \o h)
  BY <1>1, Extended, Zenon
<1>3. Begins(a, ((a \o o) \o h) \o w)
  BY <1>2, Extended, Zenon
<1>4. Begins(a, (((a \o o) \o h) \o w) \o r)
  BY <1>3, Extended, Zenon
<1>5. PICK z \in Seq(Nat) : (((a \o o) \o h) \o w) \o r = a \o z
  BY <1>4 DEF Begins
<1>6. IsPrefix(a, a \o z)
  BY PrefixOfConcat
<1> QED BY <1>5, <1>6

LEMMA ConcatParts ==
    ASSUME NEW a \in Seq(Nat), NEW b \in Seq(Nat)
    PROVE  /\ a \o b \in Seq(Nat) /\ Len(a \o b) = Len(a) + Len(b)
           /\ \A i \in 1..Len(a) : (a \o b)[i] = a[i]
           /\ \A i \in (Len(a) + 1)..(Len(a) + Len(b)) : (a \o b)[i] = b[i - Len(a)]
OBVIOUS

LEMMA Reversed ==
    ASSUME NEW s \in Seq(Nat)
    PROVE  /\ Reverse(s) \in Seq(Nat) /\ Len(Reverse(s)) = Len(s)
           /\ \A i \in 1..Len(s) : Reverse(s)[i] = s[(Len(s) - i) + 1]
<1>1. Len(s) \in Nat /\ \A i \in 1..Len(s) : (Len(s) - i) + 1 \in 1..Len(s)
  OBVIOUS
<1>2. \A i \in 1..Len(s) : s[(Len(s) - i) + 1] \in Nat
  BY <1>1
<1>3. Reverse(s) \in [1..Len(s) -> Nat]
  BY <1>2 DEF Reverse
<1>4. Reverse(s) \in Seq(Nat) /\ Len(Reverse(s)) = Len(s)
  BY <1>1, <1>3
<1> QED BY <1>4 DEF Reverse

LEMMA SuffixOfConcat ==
    ASSUME NEW a \in Seq(Nat), NEW b \in Seq(Nat)
    PROVE  IsSuffix(b, a \o b)
<1> DEFINE t == a \o b
           rb == Reverse(b)
           rt == Reverse(t)
           ra == Reverse(a)
<1>1. /\ t \in Seq(Nat) /\ Len(a) \in Nat /\ Len(b) \in Nat /\ Len(t) = Len(a) + Len(b)
      /\ \A i \in 1..Len(a) : t[i] = a[i]
      /\ \A i \in 1..Len(b) : t[Len(a) + i] = b[i]
  OBVIOUS
<1> HIDE DEF t
<1>2. /\ ra \in Seq(Nat) /\ Len(ra) = Len(a) /\ \A i \in 1..Len(a) : ra[i] = a[(Len(a) - i) + 1]
      /\ rb \in Seq(Nat) /\ Len(rb) = Len(b) /\ \A i \in 1..Len(b) : rb[i] = b[(Len(b) - i) + 1]
      /\ rt \in Seq(Nat) /\ Len(rt) = Len(t) /\ \A i \in 1..Len(t) : rt[i] = t[(Len(t) - i) + 1]
  BY <1>1, Reversed
<1> HIDE DEF ra, rb, rt
<1>3. /\ rb \o ra \in Seq(Nat) /\ Len(rb \o ra) = Len(t)
      /\ \A i \in 1..Len(b) : (rb \o ra)[i] = rb[i]
      /\ \A i \in (Len(b) + 1)..Len(t) : (rb \o ra)[i] = ra[i - Len(b)]
  <2>1. /\ rb \o ra \in Seq(Nat) /\ Len(rb \o ra) = Len(rb) + Len(ra)
        /\ \A i \in 1..Len(rb) : (rb \o ra)[i] = rb[i]
        /\ \A i \in (Len(rb) + 1)..(Len(rb) + Len(ra)) : (rb \o ra)[i] = ra[i - Len(rb)]
    BY <1>2, ConcatParts
  <2>2. Len(rb) + Len(ra) = Len(t)
    BY <1>1, <1>2
  <2> QED BY <1>2, <2>1, <2>2
<1>4. ASSUME NEW i \in 1..Len(t) PROVE rt[i] = (rb \o ra)[i]
  <2> DEFINE k == (Len(t) - i) + 1
  <2>1. rt[i] = t[k]
    BY <1>2
  <2>2. CASE i \in 1..Len(b)
    <3>1. (Len(b) - i) + 1 \in 1..Len(b) /\ k = Len(a) + ((Len(b) - i) + 1)
      BY <1>1, <2>2
    <3> HIDE DEF k
    <3>2. t[k] = b[(Len(b) - i) + 1]
      BY <1>1, <3>1
    <3>3. rb[i] = b[(Len(b) - i) + 1] /\ (rb \o ra)[i] = rb[i]
      BY <1>2, <1>3, <2>2
    <3> QED BY <2>1, <3>2, <3>3
  <2>3. CASE i \notin 1..Len(b)
    <3>1. /\ i \in (Len(b) + 1)..Len(t) /\ i - Len(b) \in 1..Len(a) /\ k \in 1..Len(a)
          /\ k = (Len(a) - (i - Len(b))) + 1
      BY <1>1, <2>3
    <3> HIDE DEF k
    <3>2. t[k] = a[k]
      BY <1>1, <3>1
    <3>3. ra[i - Len(b)] = a[k]
      BY <1>2, <3>1
    <3>4. (rb \o ra)[i] = ra[i - Len(b)]
      BY <1>3, <3>1
    <3> QED BY <2>1, <3>2, <3>3, <3>4
  <2> QED BY <2>2, <2>3
<1>5. rt = rb \o ra
  <2> DEFINE r == rb \o ra
  <2>1. /\ r \in Seq(Nat) /\ Len(r) = Len(t) /\ \A i \in 1..Len(t) : rt[i] = r[i]
    BY <1>3, <1>4
  <2> HIDE DEF r
  <2>2. rt = r
    BY <1>2, <2>1, SeqEqual
  <2> QED BY <2>2 DEF r
<1>6. IsPrefix(rb, rt)
  BY <1>2, <1>5, PrefixOfConcat
<1> QED BY <1>6 DEF IsSuffix, rb, rt, t

\* Whatever the interleaving of the remote run, its server, the connection and
\* the client, and whatever the events that the server's channel has room for:
\* the node's artifacts are a beginning of what the subscription took in, and
\* all of it, the end of what was published, after an undisturbed stream (delegate_node.go:66-90, client.go:118-149,
\* server.go:312-357).
THEOREM ArtifactsArriveInOrder == DelegationSpec => []StreamedArtifacts
<1>1. PipeInv => StreamedArtifacts
  <2> SUFFICES ASSUME PipeInv PROVE StreamedArtifacts
    OBVIOUS
  <2>1. PipeShape /\ Places /\ InLine /\ TakenIn
    BY DEF PipeInv
  <2>2. /\ artifacts \in Seq(Nat) /\ Ids(out) \in Seq(Nat) /\ Ids(InHand) \in Seq(Nat)
        /\ Ids(wire) \in Seq(Nat) /\ Ids(accepted) \in Seq(Nat)
        /\ ArtifactIds(accepted) = Ids(accepted) /\ ArtifactIds(published) = Ids(published)
        /\ published \in Seq(Emitted)
    BY <2>1, PipeTyped, IdsAreArtifacts DEF PipeShape
  <2>3. PICK rest \in Seq(Nat) : Ids(accepted) = Arriving \o rest
    BY <2>1 DEF InLine
  <2>4. IsPrefix(artifacts, Ids(accepted))
    BY <2>2, <2>3, PrefixThrough DEF Arriving
  <2>5. ASSUME npc = "over", spc # "none", ~broken
        PROVE  /\ artifacts = Ids(accepted) /\ IsSuffix(artifacts, Ids(published))
               /\ \E i \in DOMAIN published : published[i].type = "TaskCompleted"
    <3>1. /\ out = <<>> /\ gpc = "done" /\ conn = "cut" /\ wire = <<>> /\ Undisturbed
      BY <2>1, <2>5 DEF Places, Undisturbed
    <3>2. Ids(accepted) = Arriving /\ Finished(published)
      BY <2>1, <3>1 DEF InLine
    <3>3. Arriving = artifacts
      <4>1. InHand = <<>>
        BY <3>1 DEF InHand
      <4>2. artifacts \o <<>> = artifacts
        BY <2>2, Regroup
      <4> QED BY <3>1, <4>1, <4>2, IdsEmpty DEF Arriving
    <3>4. PICK before \in Seq(Nat) : Ids(published) = before \o Ids(accepted)
      BY <2>1, <3>1 DEF TakenIn
    <3>5. IsSuffix(artifacts, Ids(published))
      BY <2>2, <3>2, <3>3, <3>4, SuffixOfConcat
    <3> QED BY <2>2, <3>2, <3>3, <3>5 DEF Finished
  <2> QED BY <2>2, <2>4, <2>5 DEF StreamedArtifacts
<1> QED BY <1>1, PipeInductive, PTL
=============================================================================
