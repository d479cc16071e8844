---------------------------- MODULE RateLimiter ----------------------------
(***************************************************************************)
(* The per-client sliding-window rate limiter of the products service's    *)
(* HTTP router (middleware/rate_limiter.go).  RateLimiter keeps, under one *)
(* mutex, a map from client IP to the times of its admitted requests.      *)
(* allow drops the entries older than the window, refuses the request when *)
(* the client still has limit of them, and otherwise records it; a client  *)
(* without an entry is admitted at once.  A goroutine sweeps the map on a  *)
(* ticker, deleting clients with nothing left, and sweeps once more and    *)
(* returns when Stop closes stopChan.                                      *)
(*                                                                         *)
(* Every operation runs under rl.mu, so each is one atomic step.  Time is  *)
(* a tick counter: time.Now is monotonic, and After is strict.  The        *)
(* history variable admissions records every admitted request.             *)
(***************************************************************************)
EXTENDS Naturals, Sequences, FiniteSets, TLC

CONSTANTS
  Clients,    \* client IPs
  Limit,      \* requests per window (100 in init_middleware.go)
  Window,     \* the window in ticks (1 minute)
  MaxTime     \* the last tick explored

ASSUME LimiterAssumption ==
  /\ Limit \in Nat /\ Window \in Nat \ {0} /\ MaxTime \in Nat

VARIABLES
  now,        \* time.Now()
  requests,   \* rl.requests: a function on the clients that have an entry
  sweeper,    \* the cleanup goroutine: "running" or "returned"
  stopChan,   \* "open" or "closed"
  verdict,    \* the last middleware decision <<client, "next" | "429">>, or <<>>
  admissions  \* history: the admission times of each client

vars == <<now, requests, sweeper, stopChan, verdict, admissions>>

\* An entry at the window's start counted as inside (!Before instead of After).
Unexpired_NotStrict(s) == SelectSeq(s, LAMBDA t : t >= now - Window)

\* The entries of s still inside the window: requests[i].After(windowStart).
Unexpired(s) == SelectSeq(s, LAMBDA t : t > now - Window)

\* The map after one sweep: clients with nothing left are deleted.
Swept ==
  LET keep == {c \in DOMAIN requests : Unexpired(requests[c]) # <<>>}
  IN  [c \in keep |-> Unexpired(requests[c])]

\* NewRateLimiter: an empty map and the cleanup goroutine started.
Init ==
  /\ now = 0
  /\ requests = [c \in {} |-> <<>>]
  /\ sweeper = "running"
  /\ stopChan = "open"
  /\ verdict = <<>>
  /\ admissions = [c \in Clients |-> <<>>]

Admit(c, log) ==
  /\ requests' = [k \in DOMAIN requests \cup {c} |->
                    IF k = c THEN log ELSE requests[k]]
  /\ verdict' = <<c, "next">>
  /\ admissions' = [admissions EXCEPT ![c] = Append(@, now)]

\* The refusal test with > instead of >=: one request too many is admitted.
RateLimitMiddleware_OffByOne(c) ==
  /\ \/ /\ c \notin DOMAIN requests
        /\ Admit(c, <<now>>)
     \/ /\ c \in DOMAIN requests
        /\ Len(Unexpired(requests[c])) > Limit
        /\ requests' = [requests EXCEPT ![c] = Unexpired(@)]
        /\ verdict' = <<c, "429">>
        /\ UNCHANGED admissions
     \/ /\ c \in DOMAIN requests
        /\ Len(Unexpired(requests[c])) <= Limit
        /\ Admit(c, Append(Unexpired(requests[c]), now))
  /\ UNCHANGED <<now, sweeper, stopChan>>

\* windowStart appended instead of now.
RateLimitMiddleware_StoresWindowStart(c) ==
  /\ \/ /\ c \notin DOMAIN requests
        /\ Admit(c, <<now>>)
     \/ /\ c \in DOMAIN requests
        /\ Len(Unexpired(requests[c])) >= Limit
        /\ requests' = [requests EXCEPT ![c] = Unexpired(@)]
        /\ verdict' = <<c, "429">>
        /\ UNCHANGED admissions
     \/ /\ c \in DOMAIN requests
        /\ Len(Unexpired(requests[c])) < Limit
        /\ Admit(c, Append(Unexpired(requests[c]), now - Window))
  /\ UNCHANGED <<now, sweeper, stopChan>>

(***************************************************************************)
(* RateLimitMiddleware with allow: a client without an entry is admitted;  *)
(* otherwise its expired entries are dropped and it is refused (429) when  *)
(* limit remain, else admitted with now appended.                          *)
(***************************************************************************)
RateLimitMiddleware(c) ==
  /\ \/ /\ c \notin DOMAIN requests
        /\ Admit(c, <<now>>)
     \/ /\ c \in DOMAIN requests
        /\ Len(Unexpired(requests[c])) >= Limit
        /\ requests' = [requests EXCEPT ![c] = Unexpired(@)]
        /\ verdict' = <<c, "429">>
        /\ UNCHANGED admissions
     \/ /\ c \in DOMAIN requests
        /\ Len(Unexpired(requests[c])) < Limit
        /\ Admit(c, Append(Unexpired(requests[c]), now))
  /\ UNCHANGED <<now, sweeper, stopChan>>

\* The clock advances.
Tick ==
  /\ now < MaxTime
  /\ now' = now + 1
  /\ verdict' = <<>>
  /\ UNCHANGED <<requests, sweeper, stopChan, admissions>>

\* The ticker fires (select picks it even when stopChan is also closed).
Cleanup ==
  /\ sweeper = "running"
  /\ requests' = Swept
  /\ verdict' = <<>>
  /\ UNCHANGED <<now, sweeper, stopChan, admissions>>

\* Stop: stopOnce closes stopChan; a second call does nothing.
Stop ==
  /\ stopChan = "open"
  /\ stopChan' = "closed"
  /\ verdict' = <<>>
  /\ UNCHANGED <<now, requests, sweeper, admissions>>

\* The goroutine receives from the closed stopChan, sweeps once and returns.
CleanupOnStop ==
  /\ sweeper = "running" /\ stopChan = "closed"
  /\ requests' = Swept
  /\ sweeper' = "returned"
  /\ verdict' = <<>>
  /\ UNCHANGED <<now, stopChan, admissions>>

Next ==
  \/ \E c \in Clients : RateLimitMiddleware(c)
  \/ Tick \/ Cleanup \/ Stop \/ CleanupOnStop

Spec == Init /\ [][Next]_vars

-----------------------------------------------------------------------------
\* The admissions of client c in the window that ends now.
InWindow(c) == Len(SelectSeq(admissions[c], LAMBDA t : t > now - Window))

TypeOK ==
  /\ now \in 0..MaxTime
  /\ DOMAIN requests \subseteq Clients
  /\ \A c \in DOMAIN requests : requests[c] \in Seq(0..MaxTime)
  /\ sweeper \in {"running", "returned"} /\ stopChan \in {"open", "closed"}
  /\ admissions \in [Clients -> Seq(0..MaxTime)]

(***************************************************************************)
(* The limit: no client ever has more than Limit requests admitted within  *)
(* one window, whatever the interleaving of requests, ticks and sweeps     *)
(* (the sweep deleting a client's entry included).                         *)
(***************************************************************************)
WindowLimit == \A c \in Clients : InWindow(c) <= Limit

(***************************************************************************)
(* No false refusal: the middleware answers 429 only to a client that has  *)
(* had Limit requests admitted within the window that ends now.            *)
(***************************************************************************)
RefuseOnlyAtLimit ==
  [][verdict' # <<>> /\ verdict'[2] = "429" => InWindow(verdict'[1]) >= Limit]_vars
=============================================================================
