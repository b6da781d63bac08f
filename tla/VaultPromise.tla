---------------------------- MODULE VaultPromise ----------------------------
(***************************************************************************)
(* What the backend promises about a vault, without keys, files, locks or  *)
(* the steps of a save: each vault has stored contents, the one session    *)
(* has a view of one vault, a view starts as contents that were stored     *)
(* as a whole, and only the view of the session is ever stored, as a       *)
(* whole.  VaultSession is shown to implement this specification.          *)
(***************************************************************************)
CONSTANTS Req,        \* the command invocations
          Paths,      \* the vaults
          Passwords,  \* the master passwords
          NoView      \* no session, or no contents read

VARIABLES stored,     \* the contents each vault would be opened with
          view,       \* what the session shows, or NoView
          snap        \* per invocation, the contents it read and not yet used

vars == <<stored, view, snap>>

Contents == [changes: SUBSET Req, pw: Passwords]
View == [path: Paths, contents: Contents]

TypeOK == /\ stored \in [Paths -> Contents]
          /\ view \in View \cup {NoView}
          /\ snap \in [Req -> View \cup {NoView}]

Init == /\ stored \in [Paths -> [changes: {{}}, pw: Passwords]]
        /\ view = NoView
        /\ snap = [r \in Req |-> NoView]

\* Invocation r reads the stored contents of vault p.
Peek(r, p) ==
    /\ snap' = [snap EXCEPT ![r] = [path |-> p, contents |-> stored[p]]]
    /\ UNCHANGED <<stored, view>>

\* The contents r read become the view: nothing else ever starts a session.
Open(r) ==
    /\ snap[r] # NoView
    /\ view' = snap[r]
    /\ snap' = [snap EXCEPT ![r] = NoView]
    /\ UNCHANGED stored

\* r gives up what it read; the view is kept, or lost to the rate limit.
Forget(r) ==
    /\ snap' = [snap EXCEPT ![r] = NoView]
    /\ view' \in {view, NoView}
    /\ UNCHANGED stored

\* One invocation edits the view: one more change, or another password.
Edit(r) ==
    /\ view # NoView
    /\ \/ view' = [view EXCEPT !.contents.changes = @ \cup {r}]
       \/ \E pw \in Passwords : view' = [view EXCEPT !.contents.pw = pw]
    /\ UNCHANGED <<stored, snap>>

\* The view, and nothing but the view, replaces the stored contents.
Save ==
    /\ view # NoView
    /\ stored' = [stored EXCEPT ![view.path] = view.contents]
    /\ UNCHANGED <<view, snap>>

Close == /\ view' = NoView
         /\ UNCHANGED <<stored, snap>>

\* The process dies: the stored contents are all that is left.
Crash == /\ view' = NoView
         /\ snap' = [r \in Req |-> NoView]
         /\ UNCHANGED stored

Next == \/ \E r \in Req : \/ \E p \in Paths : Peek(r, p)
                          \/ Open(r)
                          \/ Forget(r)
                          \/ Edit(r)
        \/ Save
        \/ Close
        \/ Crash

Spec == Init /\ [][Next]_vars
=============================================================================
