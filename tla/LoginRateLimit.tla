--------------------------- MODULE LoginRateLimit ---------------------------
(***************************************************************************)
(* The in-process rate limiter (rate_limit.py) and its users               *)
(* (web/routes/auth/rate_limits.py, the login handler of auth/router.py).  *)
(*                                                                         *)
(* The limiter keeps a deque of times for each key, drops from its left    *)
(* what is out of the window, and every SweepEvery operations forgets keys *)
(* that have been idle for long.  Each function runs under a lock and      *)
(* without an await, so it is one step.  A login asks whether its keys are *)
(* at their limit, awaits the database, and records an attempt only if it  *)
(* failed; OIDC callbacks and link starts record theirs at once.           *)
(***************************************************************************)
EXTENDS Integers, Sequences, FiniteSets

CONSTANTS
    LoginKeys,        \* pairs <<ip key, account key>> a login may use
    ConsumeKeys,      \* the same for callbacks and link starts
    Session,          \* logins in progress
    Max,              \* max_attempts of the rule of each key
    Window,           \* window_seconds
    StaleMultiplier,  \* _STALE_MULTIPLIER
    MinStale,         \* _MIN_STALE_SECONDS
    SweepEvery,       \* _SWEEP_EVERY_OPS
    Horizon,          \* bound: the end of time
    None

LoginKey == {p[i] : p \in LoginKeys, i \in 1..2}
Key == {p[i] : p \in LoginKeys \cup ConsumeKeys, i \in 1..2}

(* Each rule has a bucket of its own, so that no key is under two of them. *)
ASSUME RateLimitAssumption ==
    /\ \A p \in LoginKeys \cup ConsumeKeys : p[1] # p[2]
    /\ \A p \in ConsumeKeys : p[1] \notin LoginKey /\ p[2] \notin LoginKey
    /\ None \notin LoginKeys
    /\ IsFiniteSet(Session) /\ Session # {}
    /\ Max \in [Key -> Nat] /\ Window \in [Key -> Nat]
    /\ StaleMultiplier \in Nat \ {0} /\ MinStale \in Nat
    /\ SweepEvery \in Nat \ {0}
    /\ Horizon \in Nat

VARIABLES
    now,      \* monotonic()
    mem,      \* _attempts, _key_last_seen, _ops_since_sweep, and the time
              \* of the last sweep (history)
    login,    \* the keys of the login each session has in progress, or None
    limited,  \* the last answer given
    granted,  \* history: times of the attempts recorded with each key
    failed    \* history: the failed logins of each key, in its window

vars == <<now, mem, login, limited, granted, failed>>

IsOn(k) == Max[k] >= 1 /\ Window[k] >= 1

-----------------------------------------------------------------------------
(* Times are popped from the left up to the first one past the cutoff.     *)
Prune(h, cutoff) ==
    LET popped == CHOOSE n \in 0..Len(h) :
                     /\ \A i \in 1..n : h[i] <= cutoff
                     /\ n < Len(h) => h[n + 1] > cutoff
    IN  SubSeq(h, popped + 1, Len(h))

Touch(m, k) ==
    [m EXCEPT !.known = @ \cup {k},
              !.seen[k] = now,
              !.history[k] = Prune(@, now - Window[k])]

(* Mutant of Full: one attempt over max_attempts.                          *)
FullLate(m, k) == Len(m.history[k]) > Max[k]

Full(m, k) == Len(m.history[k]) >= Max[k]

Record(m, k) == [m EXCEPT !.history[k] = Append(@, now)]

StaleAge(k) ==
    IF Window[k] * StaleMultiplier > MinStale
    THEN Window[k] * StaleMultiplier ELSE MinStale

(* Mutant of IsStale: a key is forgotten without a look at its window.     *)
IsStaleSoon(m, k) == m.seen[k] < now

IsStale(m, k) ==
    /\ Prune(m.history[k], now - Window[k]) = <<>>
    /\ m.seen[k] <= now - StaleAge(k)

(* Mutant of Sweep: times are dropped and keys are kept.                   *)
SweepTimes(m) ==
    [m EXCEPT !.history = [k \in Key |-> Prune(@[k], now - Window[k])],
              !.ops = 0, !.swept = now]

Sweep(m) ==
    LET kept == {k \in m.known : ~IsStale(m, k)}
    IN  [known |-> kept,
         seen |-> [k \in Key |-> IF k \in kept THEN m.seen[k] ELSE 0],
         history |-> [k \in Key |->
             IF k \in kept THEN Prune(m.history[k], now - Window[k]) ELSE <<>>],
         ops |-> 0,
         swept |-> now]

MaybeSweep(m) ==
    IF m.ops + 1 < SweepEvery THEN [m EXCEPT !.ops = @ + 1] ELSE Sweep(m)

(* is_rate_limited and consume_rate_limit, on the limiter's memory.        *)
AfterAsk(m, k) == IF IsOn(k) THEN MaybeSweep(Touch(m, k)) ELSE m

AfterConsume(m, k) ==
    LET t == Touch(m, k)
    IN  IF ~IsOn(k) THEN m
        ELSE MaybeSweep(IF Full(t, k) THEN t ELSE Record(t, k))

Limited(m, k) == IsOn(k) /\ Full(Touch(m, k), k)

(* Both keys are always asked about, the account's after the ip's.         *)
AskBoth(p) ==
    /\ limited' = (Limited(mem, p[1]) \/ Limited(AfterAsk(mem, p[1]), p[2]))
    /\ mem' = AfterAsk(AfterAsk(mem, p[1]), p[2])

ConsumeBoth(p) ==
    LET first == AfterConsume(mem, p[1])
    IN  /\ limited' = (Limited(mem, p[1]) \/ Limited(first, p[2]))
        /\ mem' = AfterConsume(first, p[2])
        /\ granted' = [k \in Key |->
               IF \/ k = p[1] /\ IsOn(k) /\ ~Limited(mem, k)
                  \/ k = p[2] /\ IsOn(k) /\ ~Limited(first, k)
               THEN Append(granted[k], now) ELSE granted[k]]
-----------------------------------------------------------------------------
Init ==
    /\ now = 0
    /\ mem = [known |-> {}, seen |-> [k \in Key |-> 0],
              history |-> [k \in Key |-> <<>>], ops |-> 0, swept |-> 0]
    /\ login = [s \in Session |-> None]
    /\ limited = FALSE
    /\ granted = [k \in Key |-> <<>>]
    /\ failed = [k \in Key |-> {}]

(* Time passes; while a login waits for the database too.                  *)
Tick ==
    /\ now < Horizon
    /\ now' = now + 1
    /\ UNCHANGED <<mem, login, limited, granted, failed>>

(* A login that is limited is answered 429; another one awaits the user.   *)
StartLogin(s, p) ==
    /\ login[s] = None
    /\ AskBoth(p)
    /\ login' = IF limited' THEN login ELSE [login EXCEPT ![s] = p]
    /\ UNCHANGED <<now, granted, failed>>

(* History: of each failure, when it was, how many attempts had been       *)
(* recorded with the key by then, and how many logins had failed since the *)
(* last of those was recorded.                                             *)
Remember(p) ==
    failed' = [k \in Key |->
        LET failure == [at |-> now, after |-> Len(granted'[k]),
               late |-> Cardinality({f \in failed[k] : f.after = Len(granted'[k])})]
        IN  {f \in failed[k] \cup (IF k \in {p[1], p[2]} THEN {failure} ELSE {}) :
                f.at > now - Window[k]}]

(* Mutant of FailLogin: nothing is recorded.                               *)
FailUnrecorded(s) ==
    /\ login[s] # None
    /\ UNCHANGED <<now, mem, limited, granted>>
    /\ Remember(login[s])
    /\ login' = [login EXCEPT ![s] = None]

(* No user, an inactive user or a wrong password.                          *)
FailLogin(s) ==
    /\ login[s] # None
    /\ ConsumeBoth(login[s])
    /\ Remember(login[s])
    /\ login' = [login EXCEPT ![s] = None]
    /\ UNCHANGED now

Succeed(s) ==
    /\ login[s] # None
    /\ login' = [login EXCEPT ![s] = None]
    /\ UNCHANGED <<now, mem, limited, granted, failed>>

(* is_oidc_callback_rate_limited, is_identity_link_start_rate_limited.     *)
Consume(p) == ConsumeBoth(p) /\ UNCHANGED <<now, login, failed>>

Next ==
    \/ Tick
    \/ \E s \in Session :
          \/ \E p \in LoginKeys : StartLogin(s, p)
          \/ FailLogin(s)
          \/ Succeed(s)
    \/ \E p \in ConsumeKeys : Consume(p)

Spec == Init /\ [][Next]_vars
-----------------------------------------------------------------------------
Times == Seq(0..Horizon)

(* Types; the limiter never keeps more than max_attempts times of a key    *)
(* and sweeps before its counter reaches _SWEEP_EVERY_OPS.                 *)
TypeOK ==
    /\ now \in 0..Horizon
    /\ mem.known \subseteq Key
    /\ \A k \in Key :
          /\ mem.seen[k] \in 0..now
          /\ mem.history[k] \in Times /\ Len(mem.history[k]) <= Max[k]
          /\ granted[k] \in Times
          /\ failed[k] \subseteq [at : 0..now, after : Nat, late : Nat]
    /\ mem.ops \in 0..SweepEvery - 1
    /\ login \in [Session -> LoginKeys \cup {None}]
    /\ limited \in BOOLEAN

(* What is in memory is of use: every key the limiter still knows had been *)
(* asked about within its stale age when it last swept, so that keys used  *)
(* once do not stay for ever (_sweep_stale_keys).                          *)
MemoryIsRecent ==
    \A k \in mem.known : mem.seen[k] > mem.swept - StaleAge(k)

(* The limit on failures stays a limit although logins are asked about     *)
(* before the await and recorded after it: each time a key reaches its     *)
(* limit only logins already in progress can still fail, and it reaches it *)
(* at most max_attempts + 1 times in a window.                             *)
FailuresBounded ==
    \A k \in Key : IsOn(k) =>
        Cardinality({f \in failed[k] : f.at > now - Window[k]})
            <= Max[k] + (Max[k] + 1) * (Cardinality(Session) - 1)

(* The limiter answers and records as the sliding window that never        *)
(* forgets, whatever it prunes and sweeps in between.                      *)
Ideal == INSTANCE RateWindow
SlidingWindow == Ideal!Spec
=============================================================================
