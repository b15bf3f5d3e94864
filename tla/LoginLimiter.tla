----------------------------- MODULE LoginLimiter -----------------------------
(***************************************************************************)
(* LoginRateLimiter (auth/rate_limit.py) for one key, an address with a    *)
(* user name: a place is reserved before the password is checked, given    *)
(* back after a success and kept after a failure.  An event's age is       *)
(* counted in ticks of the clock, no further than window_seconds.          *)
(***************************************************************************)
EXTENDS Naturals, Sequences, SequencesExt

CONSTANTS
  Login,      \* login requests
  Attempts,   \* LoginRateLimiter.attempts
  Window,     \* LoginRateLimiter.window_seconds
  NoOne       \* the lease of a request that has failed

ASSUME Limits == Attempts \in Nat \ {0} /\ Window \in Nat \ {0} /\ NoOne \notin Login

VARIABLES
  events,   \* the events of the key, oldest first
  tries     \* the attempts of the last window that did not succeed (history)

limiter == <<events, tries>>

Event == [age : 0..Window, lease : Login \cup {NoOne}]

LimiterTypeOK == events \in Seq(Event) /\ tries \in Seq(Event)

LimiterInit == events = <<>> /\ tries = <<>>

----------------------------------------------------------------------------

\* _prune_login_events: the oldest are dropped as long as they are too old.
OldestRecent(list) == Min({i \in DOMAIN list : list[i].age < Window} \cup {Len(list) + 1})
Recent(list)       == SubSeq(list, OldestRecent(list), Len(list))

\* The event of a lease is searched for and removed.
Without(list, l) == RemoveFirstMatch(list, LAMBDA e : e.lease = l)

\* What a lease stands for once its request has failed or is gone.
Orphaned(list, l) ==
  [i \in DOMAIN list |-> IF list[i].lease = l THEN [list[i] EXCEPT !.lease = NoOne] ELSE list[i]]

\* FAULT: the place is taken only when the attempt has failed.
ReserveNothing(l) ==
  /\ Len(Recent(events)) < Attempts
  /\ events' = Recent(events)
  /\ tries' = Append(tries, [age |-> 0, lease |-> l])

\* check(): prune, refuse a full window, reserve.
Reserve(l) ==
  /\ Len(Recent(events)) < Attempts
  /\ events' = Append(Recent(events), [age |-> 0, lease |-> l])
  /\ tries' = Append(tries, [age |-> 0, lease |-> l])

\* failure(), or an error of another kind: the attempt remains charged.
Charge(l) == events' = Orphaned(events, l) /\ tries' = Orphaned(tries, l)

\* FAULT: the oldest event is given back, whoever it belongs to.
RefundOldest(l) ==
  /\ events' = IF events = <<>> THEN events ELSE Tail(events)
  /\ tries' = Without(tries, l)

\* success(): the event of this lease is removed, if it was not pruned.
Refund(l) == events' = Without(events, l) /\ tries' = Without(tries, l)

Older(list) == [i \in DOMAIN list |-> [list[i] EXCEPT !.age = IF @ < Window THEN @ + 1 ELSE @]]

Tick == events' = Older(events) /\ tries' = Recent(Older(tries))

----------------------------------------------------------------------------

\* However logins overlap, no more than Attempts of one window fail or are under way.
GuessesWithinLimit == Len(tries) <= Attempts

\* The attempts of the last window are the events that check() would keep, oldest first.
TriesCounted ==
  /\ tries = Recent(events)
  /\ \A i \in DOMAIN tries : tries[i].age < Window
  /\ \A i, j \in DOMAIN tries : i <= j => tries[j].age <= tries[i].age
===============================================================================
