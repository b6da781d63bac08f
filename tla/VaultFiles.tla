----------------------------- MODULE VaultFiles -----------------------------
(***************************************************************************)
(* What the writers of files promise, without temporary files, inodes,     *)
(* partial writes and failures: a vault is there as a whole from its       *)
(* creation on, a save puts the open session in its place in one step, and *)
(* an export puts what its vault was at one moment at its destination, the *)
(* file of another vault perhaps.  A name that two jobs were at work on at *)
(* a time holds Unknown contents from then on.                             *)
(* FileWriters is shown to implement this specification.                   *)
(***************************************************************************)
CONSTANTS Jobs,       \* what a vault can have in it, and who sets passwords
          Paths, Old, Dests, Exporters,
          None, Unknown, Locked

VARIABLES vault,      \* vault or destination -> contents, Unknown, or None
          session,    \* what is open: [path, pw, jobs], or Locked
          took        \* export -> the contents it delivers, Unknown, or None

vars == <<vault, session, took>>

Names == Paths \cup Dests
Sessions == [path: Paths, pw: Jobs, jobs: SUBSET Jobs]

Init == /\ vault = [n \in Names |-> IF n \in Old THEN [pw |-> n, jobs |-> {n}] ELSE None]
        /\ session = Locked
        /\ took = [e \in Exporters |-> None]

\* Two jobs share a name: nothing is known any more of what is there.
Spoil == /\ \E N \in SUBSET Names :
               vault' = [n \in Names |-> IF n \in N THEN Unknown ELSE vault[n]]
         /\ \E E \in SUBSET Exporters :
               took' = [e \in Exporters |-> IF e \in E THEN Unknown ELSE took[e]]

\* A job changes what is open, the password perhaps.
Change(j) ==
    /\ session # Locked
    /\ \E pw \in {session.pw, j} :
          session' = [session EXCEPT !.jobs = @ \cup {j}, !.pw = pw]
    /\ Spoil

Save ==
    /\ session # Locked
    /\ vault' = [vault EXCEPT ![session.path] = [pw |-> session.pw, jobs |-> session.jobs]]
    /\ UNCHANGED <<session, took>>

\* A vault is created where there is none.
Create(j, p) ==
    /\ vault[p] = None
    /\ vault' = [vault EXCEPT ![p] = [pw |-> j, jobs |-> {j}]]
    /\ UNCHANGED <<session, took>>

Take(e, p) ==
    /\ vault[p] # None
    /\ took' = [took EXCEPT ![e] = vault[p]]
    /\ UNCHANGED <<vault, session>>

Drop(e) == took' = [took EXCEPT ![e] = None] /\ UNCHANGED <<vault, session>>

\* What it replaces may be in use; then nothing is known of it any more, nor
\* of what other exports took from there.
Deliver(e, d) ==
    /\ took[e] # None
    /\ \E c \in {took[e], Unknown} : vault' = [vault EXCEPT ![d] = c]
    /\ \E E \in SUBSET (Exporters \ {e}) :
          took' = [x \in Exporters |-> CASE x = e -> None
                                         [] x \in E -> Unknown
                                         [] OTHER -> took[x]]
    /\ UNCHANGED session

\* A session starts with what its vault is.
Open(p) ==
    /\ vault[p] # None
    /\ session' \in Sessions /\ session'.path = p
    /\ vault[p] # Unknown => vault[p] = [pw |-> session'.pw, jobs |-> session'.jobs]
    /\ UNCHANGED <<vault, took>>

Close == session' = Locked /\ UNCHANGED <<vault, took>>

Crash == session' = Locked /\ took' = [e \in Exporters |-> None] /\ UNCHANGED vault

Next == \/ UNCHANGED session /\ Spoil
        \/ \E j \in Jobs : Change(j) \/ \E p \in Paths : Create(j, p)
        \/ Save
        \/ \E e \in Exporters : \/ \E p \in Paths : Take(e, p)
                                \/ Drop(e)
                                \/ \E d \in Dests : Deliver(e, d)
        \/ \E p \in Paths : Open(p)
        \/ Close
        \/ Crash

Spec == Init /\ [][Next]_vars
=============================================================================
