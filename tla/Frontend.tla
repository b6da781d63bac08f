------------------------------ MODULE Frontend ------------------------------
(***************************************************************************)
(* The window (dist/js) and the session of the backend it shows.  The      *)
(* backend locks on its own: the polling loop (session/autolock.rs), a     *)
(* loss of focus (lib.rs), lock_vault.  Each emits an event to the window, *)
(* but the window has no handler for it: app.js installs one if it finds   *)
(* __TAURI_INTERNALS__.listen, which does not exist, or                    *)
(* __TAURI__.event.listen, which needs app.withGlobalTauri, and            *)
(* tauri.conf.json does not set it.  So the window learns of a lock from   *)
(* its own lockVaultUI and from the error of a command (vaultCall,         *)
(* bridge.js).  Requests and answers travel independently and take any     *)
(* time.                                                                   *)
(*                                                                         *)
(* A handler runs without interruption up to its next await; an await that *)
(* changes nothing here (clear_clipboard, an import, get_vault_meta) is    *)
(* part of the delay before it.  The passwords, the counts of attempts and *)
(* what the screens show besides are left out: AutoLock, UnlockGate and    *)
(* VaultContents have them.  So is the setup screen.                       *)
(***************************************************************************)
EXTENDS Naturals

CONSTANTS Tries,      \* runs of tryUnlock that may be on their way (a bound)
          Pages,      \* other calls of vaultCall that may be (a bound)
          Lists,      \* what afterUnlock loads
          Locks       \* runs of lockVaultUI (a bound)

Calls == Pages \cup (Tries \X Lists)

ASSUME FrontendAssumption ==
    Lists # {} /\ Pages \cap (Tries \X Lists) = {}

VARIABLES session,    \* the SessionState: "locked", "open" or "limited"
          decided,    \* the loop or the blur task is about to lock
          screen,     \* "lock" or "app"
          countdown,  \* the countdown of the side bar is running
          cooldown,   \* lockCooldown
          try,        \* where each tryUnlock is
          call,       \* where each vaultCall is
          locking,    \* where each lockVaultUI is
          overlapped, \* history: a try began before another had its answer
          silent      \* history: the loop or the blur task has locked the
                      \* session the window still shows

window == <<screen, countdown, overlapped, silent>>
vars == <<session, decided, window, cooldown, try, call, locking>>

Init == /\ session = "locked" /\ decided = FALSE
        /\ screen = "lock" /\ countdown = FALSE /\ cooldown = FALSE
        /\ try = [t \in Tries |-> "idle"]
        /\ call = [c \in Calls |-> "idle"]
        /\ locking = [k \in Locks |-> "idle"]
        /\ overlapped = FALSE /\ silent = FALSE
-----------------------------------------------------------------------------
\* The tries whose answer the window does not have yet.
Waiting == {t \in Tries : try[t] \in {"sent", "ok"}}

\* showLockScreen.
ShowLockScreen ==
    /\ screen' = "lock"
    /\ countdown' = FALSE
    /\ overlapped' = (overlapped /\ Waiting # {})
    /\ silent' = FALSE

\* startAutolockCountdown, whose timeout may be 0.
StartCountdown == countdown' \in BOOLEAN
-----------------------------------------------------------------------------
(* The backend.                                                            *)

\* The loop finds the session open and idle, or the blur task finds
\* lock_on_blur set; each locks in a second step.
Decide ==
    /\ session = "open" /\ ~decided
    /\ decided' = TRUE
    /\ UNCHANGED <<session, window, cooldown, try, call, locking>>

\* lock().  No one hears the event: vault-auto-locked or vault-locked.
LockDecided ==
    /\ decided
    /\ decided' = FALSE /\ session' = "locked"
    /\ silent' = (silent \/ (session = "open" /\ screen = "app"))
    /\ UNCHANGED <<screen, countdown, overlapped, cooldown, try, call, locking>>

\* unlock() opens the vault, or fails and perhaps limits the session, be it
\* one that another call has opened.
Unlock(t) ==
    /\ try[t] = "sent"
    /\ \/ /\ session' = "open" /\ try' = [try EXCEPT ![t] = "ok"]
          /\ silent' = FALSE
       \/ /\ session' \in {session, "limited"} /\ try' = [try EXCEPT ![t] = "failed"]
          /\ UNCHANGED silent
    /\ UNCHANGED <<decided, screen, countdown, overlapped, cooldown, call, locking>>

\* A command that needs the session.  A limited one says for how long, and
\* is locked by the first command after its time.
Answer(c) ==
    /\ call[c] = "sent"
    /\ \/ session = "open" /\ call' = [call EXCEPT ![c] = "ok"] /\ UNCHANGED session
       \/ /\ session # "open"
          /\ session' = "locked"
          /\ call' = [call EXCEPT ![c] = "locked"]
       \/ /\ session = "limited"
          /\ call' = [call EXCEPT ![c] = "failed"]
          /\ UNCHANGED session
    /\ UNCHANGED <<decided, window, cooldown, try, locking>>

\* lock_vault.
LockVault(k) ==
    /\ locking[k] = "sent"
    /\ session' = "locked"
    /\ locking' = [locking EXCEPT ![k] = "answered"]
    /\ UNCHANGED <<decided, window, cooldown, try, call>>
-----------------------------------------------------------------------------
(* The window.                                                             *)

\* tryUnlock: the button is disabled during a try, the Enter key is not.
TryUnlock(t) ==
    /\ screen = "lock" /\ ~cooldown /\ try[t] = "idle"
    /\ try' = [try EXCEPT ![t] = "sent"]
    /\ overlapped' = (overlapped \/ Waiting # {})
    /\ UNCHANGED <<session, decided, screen, countdown, silent, cooldown, call, locking>>

\* Its catch: perhaps a cool-down, if it was one failure too many.
TryFailed(t) ==
    /\ try[t] = "failed"
    /\ try' = [try EXCEPT ![t] = "idle"]
    /\ cooldown' \in {cooldown, TRUE}
    /\ UNCHANGED <<session, decided, window, call, locking>>

CooldownEnds ==
    /\ cooldown
    /\ cooldown' = FALSE
    /\ UNCHANGED <<session, decided, window, try, call, locking>>

\* Mutation: the window opens and loads nothing.
AfterUnlockEmpty(t) ==
    /\ try[t] = "ok"
    /\ screen' = "app"
    /\ try' = [try EXCEPT ![t] = "loading"]
    /\ UNCHANGED <<session, decided, countdown, overlapped, silent, cooldown, call, locking>>

\* hideLockScreen, and afterUnlock up to its loads.
AfterUnlock(t) ==
    /\ try[t] = "ok"
    /\ screen' = "app"
    /\ try' = [try EXCEPT ![t] = "loading"]
    /\ call' = [c \in Calls |-> IF c \in {t} \X Lists THEN "sent" ELSE call[c]]
    /\ UNCHANGED <<session, decided, countdown, overlapped, silent, cooldown, locking>>

\* Mutation: the window does not wait for the loads.
LoadedEarly(t) ==
    /\ try[t] = "loading"
    /\ try' = [try EXCEPT ![t] = "idle"]
    /\ StartCountdown
    /\ UNCHANGED <<session, decided, screen, overlapped, silent, cooldown, call, locking>>

\* The rest of it, whatever became of the loads.
Loaded(t) ==
    /\ try[t] = "loading"
    /\ \A l \in Lists : call[<<t, l>>] = "idle"
    /\ try' = [try EXCEPT ![t] = "idle"]
    /\ StartCountdown
    /\ UNCHANGED <<session, decided, screen, overlapped, silent, cooldown, call, locking>>

\* What the user does on a page.
PageCall(p) ==
    /\ screen = "app" /\ call[p] = "idle"
    /\ call' = [call EXCEPT ![p] = "sent"]
    /\ UNCHANGED <<session, decided, window, cooldown, try, locking>>

\* Mutation: vaultCall leaves every error to its caller.
VaultCallRethrows(c) ==
    /\ call[c] \in {"ok", "failed", "locked"}
    /\ \E next \in IF c \in Pages /\ call[c] = "ok" THEN {"idle", "sent"} ELSE {"idle"} :
          call' = [call EXCEPT ![c] = next]
    /\ IF call[c] = "ok" THEN StartCountdown ELSE UNCHANGED countdown
    /\ UNCHANGED <<screen, overlapped, silent, session, decided, cooldown, try, locking>>

\* vaultCall has its answer.  A change is followed by a load of the list,
\* get_settings and save_settings by a new countdown; "Vault is locked" shows
\* the lock screen, any other error is the caller's.
VaultCall(c) ==
    /\ \/ /\ call[c] = "ok"
          /\ \E next \in IF c \in Pages THEN {"idle", "sent"} ELSE {"idle"} :
                call' = [call EXCEPT ![c] = next]
          /\ StartCountdown
          /\ UNCHANGED <<screen, overlapped, silent>>
       \/ /\ call[c] = "locked"
          /\ call' = [call EXCEPT ![c] = "idle"]
          /\ ShowLockScreen
       \/ /\ call[c] = "failed"
          /\ call' = [call EXCEPT ![c] = "idle"]
          /\ UNCHANGED window
    /\ UNCHANGED <<session, decided, cooldown, try, locking>>

\* lockVaultUI: the lock button, or the end of the countdown.
LockVaultUI(k) ==
    /\ locking[k] = "idle"
    /\ screen = "app" \/ countdown
    /\ locking' = [locking EXCEPT ![k] = "sent"]
    /\ countdown' = FALSE
    /\ UNCHANGED <<session, decided, screen, overlapped, silent, cooldown, try, call>>

\* Its end.
LockShown(k) ==
    /\ locking[k] = "answered"
    /\ locking' = [locking EXCEPT ![k] = "idle"]
    /\ ShowLockScreen
    /\ UNCHANGED <<session, decided, cooldown, try, call>>

TryStep(t) == Unlock(t) \/ TryFailed(t) \/ AfterUnlock(t) \/ Loaded(t)
CallStep(c) == Answer(c) \/ VaultCall(c)
LockStep(k) == LockVault(k) \/ LockShown(k)

Next == \/ Decide \/ LockDecided \/ CooldownEnds
        \/ \E t \in Tries : TryUnlock(t) \/ TryStep(t)
        \/ \E p \in Pages : PageCall(p)
        \/ \E c \in Calls : CallStep(c)
        \/ \E k \in Locks : LockVaultUI(k) \/ LockStep(k)

Spec == Init /\ [][Next]_vars

\* What was sent is answered, what was answered is handled.
FairSpec == /\ Spec
            /\ \A t \in Tries : WF_vars(TryStep(t))
            /\ \A c \in Calls : WF_vars(CallStep(c))
            /\ \A k \in Locks : WF_vars(LockStep(k))
-----------------------------------------------------------------------------
\* The type invariant of the session, the window and what is in between.  The
\* loads of an unlock are under way only while it waits for them (auth.js line
\* 420: Promise.all).
TypeOK ==
    /\ session \in {"locked", "open", "limited"} /\ decided \in BOOLEAN
    /\ screen \in {"lock", "app"}
    /\ countdown \in BOOLEAN /\ cooldown \in BOOLEAN
    /\ overlapped \in BOOLEAN /\ silent \in BOOLEAN
    /\ try \in [Tries -> {"idle", "sent", "ok", "failed", "loading"}]
    /\ call \in [Calls -> {"idle", "sent", "ok", "locked", "failed"}]
    /\ locking \in [Locks -> {"idle", "sent", "answered"}]
    /\ \A t \in Tries, l \in Lists : call[<<t, l>>] # "idle" => try[t] = "loading"

\* Something that is going to show the lock screen.
Coming == \/ \E c \in Calls : call[c] \in {"sent", "locked"}
          \/ \E k \in Locks : locking[k] = "answered"

\* A window that still shows the vault of a session that has ended is about
\* to find out, however the session ended: by the lock button or the
\* countdown, by the loop before the answer of the unlock was there (auth.js
\* line 266), by the end of a rate limit.  There are two exceptions.  The loop
\* or the blur task has locked the session while the window showed it, of
\* which the window hears nothing.  Or two tries overlapped: the second one
\* can limit the session the first one opened.
LockNoticed == session # "open" /\ screen = "app" => overlapped \/ silent \/ Coming

\* And it does find out, or the session is open again: at once, and after a
\* lock of the loop or of the blur task by the next call the user makes
\* (bridge.js line 40).
LockReachesWindow ==
    /\ session # "open" /\ screen = "app"
    /\ silent => \E c \in Calls : call[c] = "sent"
    ~> screen = "lock" \/ session = "open" \/ overlapped
=============================================================================
