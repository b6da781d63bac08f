------------------------------- MODULE Reveal -------------------------------
(***************************************************************************)
(* How a password leaves the backend: the rate limit of reveals            *)
(* (SessionManager::check_reveal_rate_limit, session/manager.rs), the read *)
(* under the session lock, and the store of one-use tokens                 *)
(* (commands/reveal.rs).  Each client is a caller of request_reveal_token, *)
(* get_entry_password, get_note_content or get_password_scores, again and  *)
(* again; clients interleave with each other, with lock() and with time at *)
(* every access of an atomic and at every await.                           *)
(*                                                                         *)
(* Times are kept as what remains or has passed, so that the clock needs   *)
(* no bound.  The code between two awaits runs without a pause of seconds: *)
(* time stands still while a password is on its way into the token store,  *)
(* and passes for less than a window during one rate-limit check.          *)
(***************************************************************************)
EXTENDS Naturals, FiniteSets

CONSTANTS Clients,
          Tokens,                   \* the UUIDs that may be drawn (a bound)
          MAX_REVEALS_PER_WINDOW,   \* 10 in the code
          WINDOW_SECS,              \* 60 in the code
          TOKEN_TTL,                \* 10 in the code
          Absent                    \* a token the map does not hold

ASSUME RevealAssumption ==
    /\ IsFiniteSet(Clients)
    /\ MAX_REVEALS_PER_WINDOW \in Nat \ {0}
    /\ WINDOW_SECS \in Nat /\ WINDOW_SECS > 1
    /\ TOKEN_TTL \in Nat \ {0}
    /\ Absent \notin Nat

VARIABLES unlocked,  \* is the session unlocked
          locker,    \* where lock() is: it holds the write lock unless "idle"
          count,     \* reveal_count
          left,      \* what remains of the window reveal_window_start began
          pc,        \* where each client is
          lag,       \* per client: how long ago it read `now'
          life,      \* the token map: what remains of TOKEN_TTL (0: expired)
          issued,    \* history: the tokens that were drawn
          reveals,   \* history: how often each token gave its password
          granted,   \* history: reveals let through since the window ended, or a lock
          dark       \* history: seconds since the session was locked

quota == <<count, left>>
store == <<life, issued, reveals>>
vars == <<unlocked, locker, quota, pc, lag, store, granted, dark>>

Goto(c, l) == pc' = [pc EXCEPT ![c] = l]
Checking == {"reset", "stamp", "count"}
\* How many tokens are left for the passwords that are not yet on their way.
Undrawn == Cardinality(Tokens \ issued) - Cardinality({c \in Clients : pc[c] = "store"})
Dec(n) == IF n = 0 THEN 0 ELSE n - 1
-----------------------------------------------------------------------------
Init ==
    /\ unlocked = FALSE /\ locker = "idle"
    /\ count = 0 /\ left = 0
    /\ pc = [c \in Clients |-> "idle"]
    /\ lag = [c \in Clients |-> 0]
    /\ life = [t \in Tokens |-> Absent]
    /\ issued = {}
    /\ reveals = [t \in Tokens |-> 0]
    /\ granted = 0
    /\ dark = TOKEN_TTL

\* The clock and the start of the window are read, and compared.
CheckWindow(c) ==
    /\ pc[c] = "idle"
    /\ Goto(c, IF left = 0 THEN "reset" ELSE "count")
    /\ lag' = [lag EXCEPT ![c] = 0]
    /\ UNCHANGED <<unlocked, locker, quota, store, granted, dark>>

\* The old window is over: the count, and then the start, are stored anew.
ResetCount(c) ==
    /\ pc[c] = "reset"
    /\ count' = 1
    /\ Goto(c, "stamp")
    /\ UNCHANGED <<unlocked, locker, left, lag, store, granted, dark>>

\* Mutation: the start that is stored lies in the future.
StampAhead(c) ==
    /\ pc[c] = "stamp"
    /\ left' = WINDOW_SECS + lag[c]
    /\ granted' = granted + 1
    /\ Goto(c, "open")
    /\ lag' = [lag EXCEPT ![c] = 0]
    /\ UNCHANGED <<unlocked, locker, count, store, dark>>

\* The start that is stored is the time this caller read.
StampWindow(c) ==
    /\ pc[c] = "stamp"
    /\ left' = WINDOW_SECS - lag[c]
    /\ granted' = granted + 1
    /\ Goto(c, "open")
    /\ lag' = [lag EXCEPT ![c] = 0]
    /\ UNCHANGED <<unlocked, locker, count, store, dark>>

\* Mutation: the limit is compared with the count before the increment; for
\* every client it is one limit more, so that the bound below is passed.
CountBefore(c) ==
    /\ pc[c] = "count"
    /\ count' = count + 1
    /\ IF count > MAX_REVEALS_PER_WINDOW * Cardinality(Clients)
       THEN Goto(c, "idle") /\ UNCHANGED granted
       ELSE Goto(c, "open") /\ granted' = granted + 1
    /\ lag' = [lag EXCEPT ![c] = 0]
    /\ UNCHANGED <<unlocked, locker, left, store, dark>>

\* Mutation: a refused call begins the window again.
CountSliding(c) ==
    /\ pc[c] = "count"
    /\ count' = IF count < MAX_REVEALS_PER_WINDOW THEN count + 1 ELSE count
    /\ IF count + 1 > MAX_REVEALS_PER_WINDOW
       THEN Goto(c, "idle") /\ left' = WINDOW_SECS /\ UNCHANGED granted
       ELSE Goto(c, "open") /\ granted' = granted + 1 /\ UNCHANGED left
    /\ lag' = [lag EXCEPT ![c] = 0]
    /\ UNCHANGED <<unlocked, locker, store, dark>>

\* Within the window: fetch_add, and the sum against the limit.  (The count
\* of refused calls is of no consequence and is not counted any further.)
Count(c) ==
    /\ pc[c] = "count"
    /\ IF count + 1 > MAX_REVEALS_PER_WINDOW
       THEN Goto(c, "idle") /\ UNCHANGED <<count, granted>>
       ELSE Goto(c, "open") /\ count' = count + 1 /\ granted' = granted + 1
    /\ lag' = [lag EXCEPT ![c] = 0]
    /\ UNCHANGED <<unlocked, locker, left, store, dark>>
-----------------------------------------------------------------------------
\* get_entry_password, get_note_content, get_password_scores: with_session
\* reads under the read lock, and the secret is on its way to the caller.
GetPassword(c) ==
    /\ pc[c] = "open" /\ locker = "idle"
    /\ unlocked
    /\ Goto(c, "idle")
    /\ UNCHANGED <<unlocked, locker, quota, lag, store, granted, dark>>

\* Mutation: the entry is found without the session (in a cache, say).
RequestTokenBlind(c) ==
    /\ pc[c] = "open" /\ locker = "idle"
    /\ Undrawn > 0
    /\ Goto(c, "store")
    /\ UNCHANGED <<unlocked, locker, quota, lag, store, granted, dark>>

\* request_reveal_token: the secret goes into the token store.  (Tokens
\* bounds how many tokens are drawn.)
RequestToken(c) ==
    /\ pc[c] = "open" /\ locker = "idle"
    /\ unlocked
    /\ Undrawn > 0
    /\ Goto(c, "store")
    /\ UNCHANGED <<unlocked, locker, quota, lag, store, granted, dark>>

\* The session is locked: an error, and the quota stays used.
ReadRefused(c) ==
    /\ pc[c] = "open" /\ locker = "idle"
    /\ ~unlocked
    /\ Goto(c, "idle")
    /\ UNCHANGED <<unlocked, locker, quota, lag, store, granted, dark>>

\* RevealStore::store: expired tokens are evicted, the new one inserted.
Store(c, t) ==
    /\ pc[c] = "store"
    /\ t \notin issued
    /\ issued' = issued \cup {t}
    /\ life' = [u \in Tokens |-> CASE u = t -> TOKEN_TTL
                                   [] u # t /\ life[u] = 0 -> Absent
                                   [] OTHER -> life[u]]
    /\ Goto(c, "idle")
    /\ UNCHANGED <<unlocked, locker, quota, lag, reveals, granted, dark>>

\* Mutation: the token is looked up and not removed.
ConsumeKeeps(t) ==
    /\ life[t] # Absent
    /\ reveals' = [reveals EXCEPT ![t] = IF life[t] > 0 /\ @ < 2 THEN @ + 1 ELSE @]
    /\ UNCHANGED <<unlocked, locker, quota, pc, lag, life, issued, granted, dark>>

\* RevealStore::consume: the token is removed, its password returned unless
\* it has expired.  The session is not asked.
Consume(t) ==
    /\ life[t] # Absent
    /\ life' = [life EXCEPT ![t] = Absent]
    /\ reveals' = [reveals EXCEPT ![t] = IF life[t] > 0 THEN @ + 1 ELSE @]
    /\ UNCHANGED <<unlocked, locker, quota, pc, lag, issued, granted, dark>>
-----------------------------------------------------------------------------
\* unlock() has installed a session.
Unlock ==
    /\ ~unlocked /\ locker = "idle"
    /\ unlocked' = TRUE
    /\ dark' = 0
    /\ UNCHANGED <<locker, quota, pc, lag, store, granted>>

\* lock(): the state and the two atomics of reset_reveal_rate_limit, one
\* after the other, under the write lock.
LockBegin ==
    /\ locker = "idle"
    /\ unlocked' = FALSE
    /\ dark' = IF unlocked THEN 0 ELSE dark
    /\ locker' = "count"
    /\ UNCHANGED <<quota, pc, lag, store, granted>>

LockCount ==
    /\ locker = "count"
    /\ count' = 0
    /\ granted' = 0
    /\ locker' = "start"
    /\ UNCHANGED <<unlocked, left, pc, lag, store, dark>>

LockStart ==
    /\ locker = "start"
    /\ left' = 0
    /\ granted' = 0
    /\ locker' = "idle"
    /\ UNCHANGED <<unlocked, count, pc, lag, store, dark>>

\* A second passes.
Tick ==
    /\ \A c \in Clients : /\ pc[c] # "store"
                          /\ pc[c] \in Checking => lag[c] < WINDOW_SECS - 1
    /\ left' = Dec(left)
    /\ granted' = IF left = 1 THEN 0 ELSE granted
    /\ lag' = [c \in Clients |-> IF pc[c] \in Checking THEN lag[c] + 1 ELSE 0]
    /\ life' = [t \in Tokens |-> IF life[t] = Absent THEN Absent ELSE Dec(life[t])]
    /\ dark' = IF unlocked \/ dark = TOKEN_TTL THEN dark ELSE dark + 1
    /\ UNCHANGED <<unlocked, locker, count, pc, issued, reveals>>

\* The steps of a call that has begun.
Step(c) == \/ ResetCount(c) \/ StampWindow(c) \/ Count(c)
           \/ GetPassword(c) \/ RequestToken(c) \/ ReadRefused(c)
           \/ \E t \in Tokens : Store(c, t)

LockStep == LockCount \/ LockStart

Next == \/ \E c \in Clients : CheckWindow(c) \/ Step(c)
        \/ \E t \in Tokens : Consume(t)
        \/ Unlock
        \/ LockBegin
        \/ LockStep
        \/ Tick

Spec == Init /\ [][Next]_vars

\* Calls that have begun and lock() go on, and time passes.
FairSpec == /\ Spec
            /\ \A c \in Clients : WF_vars(Step(c))
            /\ WF_vars(LockStep)
            /\ WF_vars(Tick)
-----------------------------------------------------------------------------
\* The type invariant of the quota, the clients and the token map.
TypeOK ==
    /\ unlocked \in BOOLEAN
    /\ locker \in {"idle", "count", "start"}
    /\ count \in 0..MAX_REVEALS_PER_WINDOW
    /\ left \in 0..WINDOW_SECS
    /\ pc \in [Clients -> Checking \cup {"idle", "open", "store"}]
    /\ lag \in [Clients -> 0..(WINDOW_SECS - 1)]
    /\ life \in [Tokens -> 0..TOKEN_TTL \cup {Absent}]
    /\ issued \in SUBSET Tokens
    /\ reveals \in [Tokens -> Nat]
    /\ granted \in Nat
    /\ dark \in 0..TOKEN_TTL

\* However calls overlap at the edge of a window or with a lock, what they
\* are let through with in one window is at most the limit for each of them
\* and once more.  (Not the limit: the count and the start of a window are
\* stored one by one, and every caller that saw the old window stores both.)
QuotaKept == granted <= (Cardinality(Clients) + 1) * MAX_REVEALS_PER_WINDOW

\* "One-use" (commands/reveal.rs line 1): a token gives its password once.
OneUse == \A t \in Tokens : reveals[t] <= 1

\* A lock ends the reveals that were asked for before it: TOKEN_TTL seconds
\* later no token of the locked session has a password to give any more.
\* (Not at once: consume_reveal_token does not ask the session.)
LockEndsReveals == ~unlocked /\ dark = TOKEN_TTL => \A t \in Tokens : life[t] \in {0, Absent}

\* A window ends, however many calls are refused in it.
WindowEnds == left > 0 ~> left = 0
=============================================================================
