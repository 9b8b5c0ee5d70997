----------------------------- MODULE RateWindow -----------------------------
(***************************************************************************)
(* What a sliding-window rate limit promises: a key is at its limit when   *)
(* Max[k] attempts were recorded with it less than Window[k] ago, and an   *)
(* attempt is recorded unless its key is at its limit.  A rule with Max or *)
(* Window below one limits nothing.  Every attempt recorded is remembered  *)
(* for ever: LoginRateLimit implements this although it forgets.           *)
(***************************************************************************)
EXTENDS Integers, Sequences, FiniteSets

CONSTANTS Key, Max, Window

VARIABLES
    now,
    limited,  \* the last answer given
    granted   \* the times of the attempts recorded with each key

vars == <<now, limited, granted>>

IsOn(k) == Max[k] >= 1 /\ Window[k] >= 1

Recent(k) == {i \in DOMAIN granted[k] : granted[k][i] > now - Window[k]}

AtLimit(k) == IsOn(k) /\ Cardinality(Recent(k)) >= Max[k]

Init ==
    /\ now = 0
    /\ limited = FALSE
    /\ granted = [k \in Key |-> <<>>]

Tick == now' = now + 1 /\ UNCHANGED <<limited, granted>>

(* A request asks about several keys and records nothing.                  *)
Ask(keys) ==
    /\ limited' = \E k \in keys : AtLimit(k)
    /\ UNCHANGED <<now, granted>>

(* A request makes an attempt with several keys, each judged by itself.    *)
Attempt(keys) ==
    /\ limited' = \E k \in keys : AtLimit(k)
    /\ granted' = [k \in Key |->
           IF k \in keys /\ IsOn(k) /\ ~AtLimit(k)
           THEN Append(granted[k], now) ELSE granted[k]]
    /\ UNCHANGED now

Next == Tick \/ \E keys \in SUBSET Key : Ask(keys) \/ Attempt(keys)

Spec == Init /\ [][Next]_vars
=============================================================================
