-------------------------- MODULE HttpRetryProofs --------------------------
(***************************************************************************)
(* The waits and the retries of a request, for any options, any headers    *)
(* and any clock.                                                          *)
(*                                                                         *)
(* The argument: what WaitSeconds returns lies between zero and the        *)
(* maximum, whatever the header (WaitRange), and one second more reaches   *)
(* the moment the server asked for, or the maximum (WaitReaches).  Both    *)
(* are recorded in the invariant while the request sleeps.                 *)
(***************************************************************************)
EXTENDS HttpRetry, TLAPS

HeaderOK(h) ==
  /\ h.kind = "seconds" => h.value \in Nat
  /\ h.kind = "date" => h.value \in Int

Shape ==
  /\ pc \in {"sent", "received", "sleeping", "done"}
  /\ now \in Nat
  /\ sent \in Nat \ {0}
  /\ tries \in 0..(U16 - 1)
  /\ response.status \in Statuses
  /\ HeaderOK(response.retryAfter)
  /\ receivedAt \in 0..now
  /\ wake \in Nat
  /\ outcome \in Outcomes

(* While an answer is handled the clock is the time it came at.            *)
Fresh == pc \in {"received", "sleeping"} => now = receivedAt

(* The end of a wait, against the answer that caused it.                   *)
Sleeping ==
  pc = "sleeping" =>
    /\ wake >= now
    /\ wake <= receivedAt + (MaxRetrySecs + 1) * TicksPerSecond
    /\ wake >= WelcomeAt \/ wake >= receivedAt + MaxRetrySecs * TicksPerSecond

(* Every retry was counted.                                                *)
Counted ==
  MaxRetries < U16 - 1 =>
    /\ sent <= MaxRetries + 1
    /\ pc # "done" => sent = tries + 1

RetryInv == Shape /\ Fresh /\ Sleeping /\ Counted

---------------------------------------------------------------------------
LEMMA Products ==
  ASSUME NEW a \in Nat, NEW b \in Nat, NEW c \in Nat, a <= b
  PROVE  a * c \in Nat /\ a * c <= b * c
  BY Z3

LEMMA Quotients ==
  ASSUME NEW a \in Nat, NEW b \in Nat \ {0}
  PROVE  /\ a \div b \in Nat
         /\ a < (a \div b + 1) * b
  BY Z3

LEMMA Remainders ==
  ASSUME NEW a \in Int, NEW b \in Nat \ {0}
  PROVE  a % b \in Nat
  BY Z3

LEMMA NumSecondsIsInt ==
  ASSUME NEW d \in Int PROVE NumSeconds(d) \in Int
<1>1. CASE d >= 0
  <2>1. d \in Nat BY <1>1
  <2>2. d \div TicksPerSecond \in Nat BY <2>1, Quotients, WidthAssumption
  <2> QED BY <1>1, <2>2 DEF NumSeconds
<1>2. CASE ~(d >= 0)
  <2>1. -d \in Nat BY <1>2
  <2>2. (-d) \div TicksPerSecond \in Nat BY <2>1, Quotients, WidthAssumption
  <2> QED BY <1>2, <2>2 DEF NumSeconds
<1> QED BY <1>1, <1>2

LEMMA AskedIsNat ==
  ASSUME Shape, NEW h, HeaderOK(h)
  PROVE  Asked(h) \in Nat
<1>1. CASE h.kind = "date"
  <2>1. h.value * TicksPerSecond - now \in Int
    BY <1>1, WidthAssumption DEF HeaderOK, Shape
  <2> DEFINE n == NumSeconds(h.value * TicksPerSecond - now)
  <2>2. n \in Int BY <2>1, NumSecondsIsInt
  <2>3. Asked(h) = AsU64(n) BY <1>1 DEF Asked
  <2> HIDE DEF n
  <2>4. AsU64(n) \in Nat
    BY <2>2, Remainders, WidthAssumption DEF AsU64
  <2> QED BY <2>3, <2>4
<1>2. CASE h.kind = "seconds"
  BY <1>2 DEF Asked, HeaderOK
<1>3. CASE h.kind \notin {"date", "seconds"}
  BY <1>3, OptionsAssumption DEF Asked
<1> QED BY <1>1, <1>2, <1>3

(* Whatever is asked for, the wait is at most the maximum.                 *)
LEMMA WaitRange ==
  ASSUME Shape, NEW h, HeaderOK(h)
  PROVE  WaitSeconds(h) \in 0..MaxRetrySecs
<1> DEFINE a == Asked(h)
<1>1. a \in Nat BY AskedIsNat
<1>2. WaitSeconds(h) = LET s == IF a = 0 THEN DefRetrySecs ELSE a
                       IN IF s > MaxRetrySecs THEN MaxRetrySecs ELSE s
  BY DEF WaitSeconds
<1> HIDE DEF a
<1> QED BY <1>1, <1>2, OptionsAssumption

(* A positive request is heeded up to the maximum.                         *)
LEMMA WaitHeeds ==
  ASSUME Shape, NEW h, HeaderOK(h)
  PROVE  \/ WaitSeconds(h) >= Asked(h)
         \/ WaitSeconds(h) = MaxRetrySecs
<1> DEFINE a == Asked(h)
<1>1. a \in Nat BY AskedIsNat
<1>2. WaitSeconds(h) = LET s == IF a = 0 THEN DefRetrySecs ELSE a
                       IN IF s > MaxRetrySecs THEN MaxRetrySecs ELSE s
  BY DEF WaitSeconds
<1> HIDE DEF a
<1>3. \/ WaitSeconds(h) >= a
      \/ WaitSeconds(h) = MaxRetrySecs
  BY <1>1, <1>2, OptionsAssumption
<1> QED BY <1>3 DEF a

(* The truncated difference and one second more reach a date.              *)
LEMMA DateReached ==
  ASSUME Shape, NEW v \in Int, NEW w \in Nat,
         w >= AsU64(NumSeconds(v * TicksPerSecond - now))
  PROVE  now + (w + 1) * TicksPerSecond >= v * TicksPerSecond
<1> DEFINE T == TicksPerSecond
           d == v * T - now
           n == d \div T
<1>1. T \in Nat \ {0} /\ d \in Int /\ now \in Nat /\ v * T \in Int
  BY WidthAssumption DEF Shape
<1>2. (w + 1) * T \in Nat
  BY <1>1, Products
<1>3. CASE d >= 0
  <2>1. n \in Nat /\ d < (n + 1) * T
    BY <1>1, <1>3, Quotients
  <2>2. AsU64(NumSeconds(d)) = n
    BY <1>3, <2>1 DEF NumSeconds, AsU64
  <2>3. n + 1 <= w + 1
    BY <2>1, <2>2
  <2>4. (n + 1) * T <= (w + 1) * T /\ (n + 1) * T \in Nat
    BY <1>1, <2>1, <2>3, Products
  <2>5. d < (w + 1) * T
    BY <1>1, <1>2, <2>1, <2>4
  <2> QED BY <1>1, <1>2, <2>5
<1>4. CASE d < 0
  BY <1>1, <1>2, <1>4
<1> QED BY <1>1, <1>3, <1>4

(* The wait, and one second more, reach the moment the server asks for.    *)
LEMMA WaitReaches ==
  ASSUME Shape, now = receivedAt
  PROVE  LET w == WaitSeconds(response.retryAfter)
             end == now + (w + 1) * TicksPerSecond
         IN  /\ end \in Nat /\ end >= now
             /\ end <= receivedAt + (MaxRetrySecs + 1) * TicksPerSecond
             /\ end >= WelcomeAt \/ end >= receivedAt + MaxRetrySecs * TicksPerSecond
<1> DEFINE h == response.retryAfter
           w == WaitSeconds(h)
           T == TicksPerSecond
           end == now + (w + 1) * T
<1>1. HeaderOK(h) /\ now \in Nat /\ T \in Nat \ {0} /\ MaxRetrySecs \in Nat
  BY WidthAssumption, OptionsAssumption DEF Shape
<1>2. w \in 0..MaxRetrySecs
  BY <1>1, WaitRange
<1>3. w >= Asked(h) \/ w = MaxRetrySecs
  BY <1>1, WaitHeeds
<1>4. Asked(h) \in Nat
  BY <1>1, AskedIsNat
<1> HIDE DEF w
<1>5. /\ (w + 1) * T \in Nat
      /\ (w + 1) * T <= (MaxRetrySecs + 1) * T
      /\ (MaxRetrySecs + 1) * T \in Nat
  BY <1>1, <1>2, Products
<1>6. end >= WelcomeAt \/ end >= receivedAt + MaxRetrySecs * T
  <2>1. CASE w = MaxRetrySecs
    <3>1. MaxRetrySecs * T <= (w + 1) * T /\ MaxRetrySecs * T \in Nat
      BY <1>1, <2>1, Products
    <3> QED BY <1>1, <1>5, <3>1
  <2>2. CASE w >= Asked(h) /\ h.kind = "date"
    <3>1. WelcomeAt = h.value * T
      BY <2>2 DEF WelcomeAt
    <3>2. Asked(h) = AsU64(NumSeconds(h.value * T - now))
      BY <2>2 DEF Asked
    <3>3. h.value \in Int
      BY <1>1, <2>2 DEF HeaderOK
    <3> QED BY <1>2, <2>2, <3>1, <3>2, <3>3, DateReached
  <2>3. CASE w >= Asked(h) /\ h.kind = "seconds"
    <3>1. WelcomeAt = receivedAt + h.value * T /\ Asked(h) = h.value
      BY <2>3 DEF WelcomeAt, Asked
    <3>2. h.value \in Nat /\ h.value <= w + 1
      BY <1>2, <1>4, <2>3, <3>1
    <3>3. h.value * T <= (w + 1) * T /\ h.value * T \in Nat
      BY <1>1, <1>2, <3>2, Products
    <3> QED BY <1>1, <1>5, <3>1, <3>3
  <2>4. CASE h.kind \notin {"date", "seconds"}
    <3>1. WelcomeAt = receivedAt
      BY <2>4 DEF WelcomeAt
    <3> QED BY <1>1, <1>5, <3>1
  <2> QED BY <1>3, <2>1, <2>2, <2>3, <2>4
<1> QED BY <1>1, <1>5, <1>6 DEF w

LEMMA WelcomeIsInt ==
  ASSUME Shape
  PROVE  WelcomeAt \in Int /\ receivedAt + MaxRetrySecs * TicksPerSecond \in Int
<1> DEFINE h == response.retryAfter
<1>1. HeaderOK(h) /\ receivedAt \in Nat /\ TicksPerSecond \in Nat
      /\ MaxRetrySecs * TicksPerSecond \in Nat
  BY WidthAssumption, OptionsAssumption DEF Shape
<1>2. CASE h.kind = "date"
  BY <1>1, <1>2 DEF WelcomeAt, HeaderOK
<1>3. CASE h.kind = "seconds"
  <2>1. WelcomeAt = receivedAt + h.value * TicksPerSecond
    BY <1>3 DEF WelcomeAt
  <2> QED BY <1>1, <1>3, <2>1 DEF HeaderOK
<1>4. CASE h.kind \notin {"date", "seconds"}
  <2>1. WelcomeAt = receivedAt
    BY <1>4 DEF WelcomeAt
  <2> QED BY <1>1, <2>1
<1> QED BY <1>1, <1>2, <1>3, <1>4

LEMMA HeadersOK ==
  ASSUME NEW t \in Nat, NEW h \in Headers(t)
  PROVE  HeaderOK(h)
<1>1. t \div TicksPerSecond \in Nat
  BY Quotients, WidthAssumption
<1>2. \A k \in DateOffsets : t \div TicksPerSecond + k \in Int
  BY <1>1, WidthAssumption
<1>3. \A s \in Seconds : s \in Nat
  BY WidthAssumption
<1> QED BY <1>2, <1>3 DEF Headers, HeaderOK, NoHeader

---------------------------------------------------------------------------
LEMMA InitRetryInv == Init => RetryInv
<1> SUFFICES ASSUME Init PROVE RetryInv
  OBVIOUS
<1> USE DEF Init
<1>1. Shape
  BY OptionsAssumption, WidthAssumption
  DEF Shape, NoResponse, NoHeader, HeaderOK, Statuses, Outcomes
<1>2. Fresh /\ Sleeping
  BY DEF Fresh, Sleeping
<1>3. Counted
  BY OptionsAssumption DEF Counted
<1> QED BY <1>1, <1>2, <1>3 DEF RetryInv

(* What the ends of a request have in common.                              *)
LEMMA EndKeeps ==
  ASSUME RetryInv, NEW result \in Outcomes, End(result),
         UNCHANGED <<now, response, receivedAt>>
  PROVE  RetryInv'
<1> USE DEF RetryInv, End
<1>1. Shape'
  BY DEF Shape
<1>2. Fresh' /\ Sleeping' /\ Counted'
  BY DEF Fresh, Sleeping, Counted
<1> QED BY <1>1, <1>2

LEMMA StepRetryInv == RetryInv /\ [Next]_vars => RetryInv'
<1> SUFFICES ASSUME RetryInv, [Next]_vars PROVE RetryInv'
  OBVIOUS
<1> USE DEF RetryInv
<1>1. CASE Receive
  <2> USE <1>1 DEF Receive
  <2>1. now \in Nat /\ receivedAt \in Nat
    BY DEF Shape
  <2>2. now' \in Nat /\ now' >= now
    BY <2>1, WidthAssumption
  <2>3. response'.status \in Statuses /\ HeaderOK(response'.retryAfter)
    BY <2>2, HeadersOK
  <2>4. Shape'
    BY <2>2, <2>3 DEF Shape
  <2>5. Fresh' /\ Sleeping' /\ Counted'
    BY DEF Fresh, Sleeping, Counted
  <2> QED BY <2>4, <2>5
<1>2. CASE SendError
  BY <1>2, EndKeeps DEF SendError, Outcomes
<1>3. CASE TooMany
  <2> USE <1>3 DEF TooMany
  <2>1. now = receivedAt
    BY DEF Fresh
  <2>2. wake' \in Nat /\ wake' >= now
        /\ wake' <= receivedAt + (MaxRetrySecs + 1) * TicksPerSecond
        /\ (wake' >= WelcomeAt \/ wake' >= receivedAt + MaxRetrySecs * TicksPerSecond)
    BY <2>1, WaitReaches
  <2>3. Shape'
    BY <2>2 DEF Shape
  <2>4. WelcomeAt' = WelcomeAt
    BY DEF WelcomeAt
  <2>5. Fresh' /\ Sleeping' /\ Counted'
    BY <2>1, <2>2, <2>4 DEF Fresh, Sleeping, Counted
  <2> QED BY <2>3, <2>5
<1>4. CASE Wake
  <2> USE <1>4 DEF Wake
  <2>1. tries \in 0..(U16 - 1) /\ wake \in Nat /\ now \in Nat /\ sent \in Nat \ {0}
    BY DEF Shape
  <2>2. now' \in Nat /\ now' >= wake /\ wake >= now
    BY <2>1, WidthAssumption DEF Sleeping
  <2>3. tries' \in 0..(U16 - 1)
    BY <2>1, WidthAssumption, Z3
  <2>4. Shape'
    BY <2>1, <2>2, <2>3 DEF Shape, Outcomes
  <2>5. Fresh' /\ Sleeping'
    BY DEF Fresh, Sleeping
  <2>6. Counted'
    <3>1. SUFFICES ASSUME MaxRetries < U16 - 1 PROVE Counted'
      BY DEF Counted
    <3>2. sent <= MaxRetries + 1 /\ sent = tries + 1
      BY <3>1 DEF Counted
    <3>3. tries + 1 \in 0..(U16 - 1)
      BY <2>1, <3>1, <3>2, OptionsAssumption, WidthAssumption
    <3>4. tries' = tries + 1
      BY <2>1, <3>3, WidthAssumption, Z3
    <3> QED BY <2>1, <3>2, <3>4, OptionsAssumption DEF Counted
  <2> QED BY <2>4, <2>5, <2>6
<1>5. CASE StatusError
  BY <1>5, EndKeeps DEF StatusError, Outcomes
<1>6. CASE Deliver
  BY <1>6, EndKeeps DEF Deliver, Outcomes
<1>7. CASE Panic
  BY <1>7, EndKeeps DEF Panic, Outcomes
<1>8. CASE UNCHANGED vars
  <2>1. WelcomeAt' = WelcomeAt
    BY <1>8 DEF vars, WelcomeAt
  <2> QED BY <1>8, <2>1 DEF vars, Shape, Fresh, Sleeping, Counted
<1> QED BY <1>1, <1>2, <1>3, <1>4, <1>5, <1>6, <1>7, <1>8 DEF Next

LEMMA RetryInvHolds == Spec => []RetryInv
  BY InitRetryInv, StepRetryInv, PTL DEF Spec

(* Type correctness of wrapped_request's state, whatever a server sends.   *)
THEOREM RetryTypes == Spec => []TypeOK
<1>1. RetryInv => TypeOK
  BY DEF RetryInv, Shape, TypeOK
<1> QED BY <1>1, RetryInvHolds, PTL

(* No header makes wrapped_request wait longer than the maximum and the    *)
(* second that it adds.                                                    *)
THEOREM WaitsAreBounded == Spec => []WaitBounded
<1>1. RetryInv => WaitBounded
  BY DEF RetryInv, Sleeping, WaitBounded
<1> QED BY <1>1, RetryInvHolds, PTL

(* wrapped_request sends a request max_retries + 1 times at most, if       *)
(* max_retries is less than the largest u16.                               *)
THEOREM TriesAreBounded == Spec => []TriesBounded
<1>1. RetryInv => TriesBounded
  BY DEF RetryInv, Counted, TriesBounded
<1> QED BY <1>1, RetryInvHolds, PTL

(* wrapped_request sends again when the server allows it, or when the      *)
(* maximum is over: the cut to whole seconds never makes it early.         *)
THEOREM RetriesComeInTime == Spec => RetriesWelcome
<1>1. RetryInv /\ RetryInv' /\ [Next]_vars =>
        [sent' > sent =>
           now' >= WelcomeAt \/ now' >= receivedAt + MaxRetrySecs * TicksPerSecond]_vars
  <2> SUFFICES ASSUME RetryInv, RetryInv', [Next]_vars, sent' > sent
               PROVE  now' >= WelcomeAt \/ now' >= receivedAt + MaxRetrySecs * TicksPerSecond
    OBVIOUS
  <2>1. sent \in Nat
    BY DEF RetryInv, Shape
  <2>2. Wake
    BY <2>1 DEF Next, Receive, SendError, TooMany, StatusError, Deliver, Panic, End, vars
  <2>3. wake \in Nat /\ now' >= wake
    BY <2>2, WidthAssumption DEF Wake, RetryInv, Shape
  <2>4. wake >= WelcomeAt \/ wake >= receivedAt + MaxRetrySecs * TicksPerSecond
    BY <2>2 DEF Wake, RetryInv, Sleeping
  <2>5. WelcomeAt \in Int /\ receivedAt + MaxRetrySecs * TicksPerSecond \in Int
    BY WelcomeIsInt DEF RetryInv
  <2> QED BY <2>2, <2>3, <2>4, <2>5 DEF Wake, RetryInv, Shape
<1> QED BY <1>1, RetryInvHolds, PTL DEF Spec, RetriesWelcome
=============================================================================
