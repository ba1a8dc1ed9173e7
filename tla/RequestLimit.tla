----------------------------- MODULE RequestLimit -----------------------------
(***************************************************************************)
(* The limit on requests to the REST API (api/v1/rate_limit.py): for each  *)
(* key the times of the requests that were let in lately.  There are two   *)
(* such limiters, which differ in their numbers: one for the requests that *)
(* have to do with passwords, with the address of the client as its key,   *)
(* and one for all others, with address and path.                          *)
(*                                                                         *)
(* The clock counts parts of a second, since Retry-After is in whole       *)
(* seconds; it does not go back.  Forgetting a key is the same as having   *)
(* no times for it.                                                        *)
(***************************************************************************)
EXTENDS Naturals, Sequences

CONSTANTS
  Keys,             \* keys of requests
  MaxRequests,      \* _max_requests
  Second,           \* parts of a second
  Window,           \* _window_seconds, in parts
  CleanupInterval,  \* _cleanup_interval, in parts
  Never,            \* no time
  LastTime          \* bound: the clock

ASSUME LimitAssumption ==
  /\ {MaxRequests, Second, Window, CleanupInterval} \subseteq Nat \ {0}
  /\ Window % Second = 0
  /\ LastTime \in Nat /\ Never \notin Nat

VARIABLES
  time,       \* time.time()
  requests,   \* _requests
  cleaned,    \* _last_cleanup
  answering,  \* keys with a request that was let in and is not answered
  admitted,   \* history: the times of all requests let in
  retryAt     \* history: the end of the Retry-After of a refused request, until a
              \* request with its key is let in

limitVars == <<time, requests, cleaned, answering, admitted, retryAt>>

LimitTypeOK ==
  /\ time \in 0..LastTime /\ cleaned \in 0..time
  /\ answering \subseteq Keys
  /\ admitted \in [Keys -> Seq(0..time)]
  /\ requests \in [Keys -> Seq(0..time)]
  /\ \A k \in Keys : Len(requests[k]) <= MaxRequests
  /\ retryAt \in [Keys -> Nat \cup {Never}]

LimitInit ==
  /\ time = 0 /\ cleaned = 0 /\ answering = {}
  /\ requests = [k \in Keys |-> <<>>] /\ admitted = [k \in Keys |-> <<>>]
  /\ retryAt = [k \in Keys |-> Never]

-----------------------------------------------------------------------------

\* Of the times, those within the window that ends now. The times ascend, so that the
\* old ones are the first.
Recent(times) ==
  LET old == CHOOSE n \in 0..Len(times) :
               \A i \in 1..Len(times) : times[i] + Window <= time <=> i <= n
  IN  SubSeq(times, old + 1, Len(times))

\* Broken: a key is forgotten when one of its times is old.
StaleInPart(times) == Recent(times) # times

\* A key is forgotten when all of its times are old.
Stale(times) == Recent(times) = <<>>

CleanupDue == time >= cleaned + CleanupInterval

\* _cleanup, and the list is_allowed then looks at.
Kept(k) == IF CleanupDue /\ Stale(requests[k]) THEN <<>> ELSE requests[k]

Cleanup == cleaned' = IF CleanupDue THEN time ELSE cleaned

Allowed(k) == Len(Recent(Kept(k))) < MaxRequests

Admit(k) ==
  /\ Cleanup /\ Allowed(k)
  /\ requests' = [j \in Keys |-> IF j = k THEN Append(Recent(Kept(k)), time) ELSE Kept(j)]
  /\ admitted' = [admitted EXCEPT ![k] = Append(@, time)]
  /\ retryAt' = [retryAt EXCEPT ![k] = Never]
  /\ answering' = answering \cup {k}
  /\ UNCHANGED time

\* Broken: the wait is rounded down.
RetryAfterShort(times) == (Head(times) + Window - time) \div Second

\* The oldest time is the first; its rest is rounded up to a later second.
RetryAfter(times) == (Head(times) + Window - time) \div Second + 1

Refuse(k) ==
  /\ Cleanup /\ ~Allowed(k)
  /\ requests' = [j \in Keys |-> IF j = k THEN Recent(Kept(k)) ELSE Kept(j)]
  /\ retryAt' = [retryAt EXCEPT ![k] = time + Second * RetryAfter(requests'[k])]
  /\ UNCHANGED <<time, answering, admitted>>

\* The headers of an answer say how many requests are left: get_remaining.
AnswerRequest(k) ==
  /\ k \in answering /\ answering' = answering \ {k}
  /\ requests' = [requests EXCEPT ![k] = Recent(@)]
  /\ UNCHANGED <<time, cleaned, admitted, retryAt>>

TimeGoesOn ==
  /\ time < LastTime /\ time' = time + 1
  /\ UNCHANGED <<requests, cleaned, answering, admitted, retryAt>>

LimitNext ==
  \/ \E k \in Keys : Admit(k) \/ Refuse(k) \/ AnswerRequest(k)
  \/ TimeGoesOn

LimitSpec == LimitInit /\ [][LimitNext]_limitVars

-----------------------------------------------------------------------------
(* Properties *)

\* However the requests are spread in time, and whatever is cleaned up between
\* them, no window holds more than MaxRequests that were let in with one key.
WindowKept ==
  \A k \in Keys : \A i \in 1..(Len(admitted[k]) - MaxRequests) :
    admitted[k][i + MaxRequests] >= admitted[k][i] + Window

\* A client that has waited as long as Retry-After told it is not refused again,
\* unless another request with its key was let in meanwhile (get_retry_after).
RetrySuffices ==
  \A k \in Keys : retryAt[k] # Never /\ time >= retryAt[k] => Allowed(k)
=============================================================================
