----------------------------- MODULE HttpRetry -----------------------------
(***************************************************************************)
(* One request of the client (wrapped_request,                             *)
(* icann-rdap-client/src/http/wrapped.rs, and rdap_url_request, which      *)
(* makes a result of the answer): the request is sent again while the      *)
(* server answers 429, after a wait made from its retry-after header.      *)
(*                                                                         *)
(* Time runs in ticks of a fraction of a second: dates in headers are      *)
(* whole seconds, the clock is not.                                        *)
(***************************************************************************)
EXTENDS Integers

CONSTANTS MaxRetrySecs,   \* RequestOptions.max_retry_secs
          DefRetrySecs,   \* RequestOptions.def_retry_secs
          MaxRetries,     \* RequestOptions.max_retries
          U64,            \* the number of values of a u64: 2^64
          U16,            \* the number of values of a u16: 2^16
          TicksPerSecond,
          Seconds,        \* the numbers a server may put into retry-after
          DateOffsets,    \* the dates it may put there, in seconds from its answer
          MaxDelay        \* bound, in ticks, on how late an answer or a wake-up may be

ASSUME OptionsAssumption ==
  /\ MaxRetrySecs \in Nat
  /\ DefRetrySecs \in Nat
  /\ MaxRetries \in 0..(U16 - 1)
ASSUME WidthAssumption ==
  /\ U64 \in Nat \ {0} /\ U16 \in Nat \ {0}
  /\ MaxRetrySecs < U64 - 1
  /\ Seconds \subseteq 0..(U64 - 1)
  /\ DateOffsets \subseteq Int
  /\ TicksPerSecond \in Nat \ {0}
  /\ MaxDelay \in Nat

VARIABLES pc,        \* where the request is
          now,       \* the clock
          sent,      \* how often it was sent
          tries,     \* tries, a u16
          response,  \* the last answer
          receivedAt,\* when it came
          wake,      \* when the wait is over
          outcome    \* what the caller gets

vars == <<pc, now, sent, tries, response, receivedAt, wake, outcome>>

(* retry-after: not there, a number of seconds, a date, text that is       *)
(* neither, or bytes that are no text.                                     *)
NoHeader == [kind |-> "none", value |-> 0]
Headers(t) ==
  {NoHeader, [kind |-> "text", value |-> 0], [kind |-> "opaque", value |-> 0]}
  \union [kind : {"seconds"}, value : Seconds]
  \union {[kind |-> "date", value |-> t \div TicksPerSecond + k] : k \in DateOffsets}
Statuses == {"ok", "too_many", "error"}
NoResponse == [status |-> "ok", retryAfter |-> NoHeader]
Outcomes == {"none", "rdap", "not_rdap", "not_json", "status", "network", "panic"}

Init ==
  /\ pc = "sent"
  /\ now = 0
  /\ sent = 1
  /\ tries = 0
  /\ response = NoResponse
  /\ receivedAt = 0
  /\ wake = 0
  /\ outcome = "none"

End(result) ==
  /\ pc' = "done"
  /\ outcome' = result
  /\ UNCHANGED <<sent, tries, wake>>

---------------------------------------------------------------------------
(* send().await                                                            *)
Receive ==
  /\ pc = "sent"
  /\ \E delay \in 0..MaxDelay : now' = now + delay
  /\ receivedAt' = now'
  /\ \E s \in Statuses, h \in Headers(now') :
       response' = [status |-> s, retryAfter |-> h]
  /\ pc' = "received"
  /\ UNCHANGED <<sent, tries, wake, outcome>>

(* A connection that fails, or the client's own timeout.                   *)
SendError ==
  /\ pc = "sent"
  /\ End("network")
  /\ UNCHANGED <<now, response, receivedAt>>

(* num_seconds truncates towards zero.                                     *)
NumSeconds(ticks) ==
  IF ticks >= 0 THEN ticks \div TicksPerSecond ELSE -((-ticks) \div TicksPerSecond)

(* A slip the runs must catch: the wait stays the signed number it was.    *)
AsSigned(i) == i

(* as u64 reinterprets the bits of an i64.                                 *)
AsU64(i) == IF i >= 0 THEN i ELSE i % U64

(* The seconds the server asks for.                                        *)
Asked(h) ==
  CASE h.kind = "date" -> AsU64(NumSeconds(h.value * TicksPerSecond - now))
    [] h.kind = "seconds" -> h.value
    [] OTHER -> DefRetrySecs

(* A slip the runs must catch: the cap comes before the default.           *)
WaitCappedFirst(h) ==
  LET capped == IF Asked(h) > MaxRetrySecs THEN MaxRetrySecs ELSE Asked(h)
  IN IF capped = 0 THEN DefRetrySecs ELSE capped

(* Zero makes no sense, and nobody waits longer than the maximum.          *)
WaitSeconds(h) ==
  LET sensible == IF Asked(h) = 0 THEN DefRetrySecs ELSE Asked(h)
  IN IF sensible > MaxRetrySecs THEN MaxRetrySecs ELSE sensible

(* A slip the runs must catch: not a second more than the truncated wait.  *)
TooManyExactly ==
  /\ pc = "received"
  /\ response.status = "too_many"
  /\ response.retryAfter.kind # "opaque"
  /\ wake' = now + WaitSeconds(response.retryAfter) * TicksPerSecond
  /\ pc' = "sleeping"
  /\ UNCHANGED <<now, sent, tries, response, receivedAt, outcome>>

(* 429: the wait is computed, a second is added, the request sleeps.       *)
TooMany ==
  /\ pc = "received"
  /\ response.status = "too_many"
  /\ response.retryAfter.kind # "opaque"
  /\ wake' = now + (WaitSeconds(response.retryAfter) + 1) * TicksPerSecond
  /\ pc' = "sleeping"
  /\ UNCHANGED <<now, sent, tries, response, receivedAt, outcome>>

(* A slip the runs must catch: the tries are counted after the comparison. *)
WakeCountsLate ==
  /\ pc = "sleeping"
  /\ \E late \in 0..MaxDelay : now' = wake + late
  /\ tries' = (tries + 1) % U16
  /\ IF tries > MaxRetries
     THEN pc' = "done" /\ outcome' = "status" /\ UNCHANGED sent
     ELSE pc' = "sent" /\ sent' = sent + 1 /\ UNCHANGED outcome
  /\ UNCHANGED <<response, receivedAt, wake>>

(* The wait is over: the request is sent again, or the 429 becomes the     *)
(* error that is returned.                                                 *)
Wake ==
  /\ pc = "sleeping"
  /\ \E late \in 0..MaxDelay : now' = wake + late
  /\ tries' = (tries + 1) % U16
  /\ IF tries' > MaxRetries
     THEN pc' = "done" /\ outcome' = "status" /\ UNCHANGED sent
     ELSE pc' = "sent" /\ sent' = sent + 1 /\ UNCHANGED outcome
  /\ UNCHANGED <<response, receivedAt, wake>>

(* A slip the runs must catch: the loop ends on a 200 only.                *)
StatusErrorLoops ==
  /\ pc = "received"
  /\ response.status = "error"
  /\ UNCHANGED vars

(* error_for_status, on any other failure.                                 *)
StatusError ==
  /\ pc = "received"
  /\ response.status = "error"
  /\ End("status")
  /\ UNCHANGED <<now, response, receivedAt>>

(* The body is read and parsed, or the connection fails half way.          *)
Deliver ==
  /\ pc = "received"
  /\ response.status = "ok"
  /\ response.retryAfter.kind # "opaque"
  /\ \E result \in {"rdap", "not_rdap", "not_json", "network"} : End(result)
  /\ UNCHANGED <<now, response, receivedAt>>

(* A header that is no text: to_str().unwrap().                            *)
Panic ==
  /\ pc = "received"
  /\ response.status # "error"
  /\ response.retryAfter.kind = "opaque"
  /\ End("panic")
  /\ UNCHANGED <<now, response, receivedAt>>

Next == Receive \/ SendError \/ TooMany \/ Wake \/ StatusError \/ Deliver \/ Panic

Spec == Init /\ [][Next]_vars

(* Every answer, timeout or wake-up comes, and the task is polled.         *)
FairSpec == Spec /\ WF_vars(Next)

---------------------------------------------------------------------------
(* Counters stay counters, and the clock does not run behind its record.   *)
TypeOK ==
  /\ pc \in {"sent", "received", "sleeping", "done"}
  /\ now \in Nat
  /\ sent \in Nat \ {0}
  /\ tries \in 0..(U16 - 1)
  /\ response.status \in Statuses
  /\ receivedAt \in 0..now
  /\ wake \in Nat
  /\ outcome \in Outcomes

(* Whatever a server says, a wait ends a second after the configured       *)
(* maximum at the latest.                                                  *)
WaitBounded ==
  pc = "sleeping" => wake <= receivedAt + (MaxRetrySecs + 1) * TicksPerSecond

(* A request is sent once and retried max_retries times at most, as long   *)
(* as tries cannot wrap around before it exceeds max_retries.              *)
TriesBounded == MaxRetries < U16 - 1 => sent <= MaxRetries + 1

(* When the server allows the next request, as far as the client heeds it. *)
WelcomeAt ==
  LET h == response.retryAfter
  IN CASE h.kind = "date" -> h.value * TicksPerSecond
       [] h.kind = "seconds" -> receivedAt + h.value * TicksPerSecond
       [] OTHER -> receivedAt

(* No retry comes before the server allows it, even where the time until a *)
(* date was cut to whole seconds, unless that is later than the maximum.   *)
RetriesWelcome ==
  [][sent' > sent =>
       now' >= WelcomeAt \/ now' >= receivedAt + MaxRetrySecs * TicksPerSecond]_vars

(* The caller gets an answer or an error.                                  *)
Ends == <>(pc = "done")

(* --def-retry-secs: the wait when the retry-after value does not make     *)
(* sense.  A date that is over does not.                                   *)
PastDateWaitsDefault ==
  (/\ pc = "sleeping"
   /\ response.retryAfter.kind = "date"
   /\ response.retryAfter.value * TicksPerSecond < receivedAt)
  => wake <= receivedAt + (DefRetrySecs + 1) * TicksPerSecond
=============================================================================
