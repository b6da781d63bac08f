---------------------------- MODULE FileWriters ----------------------------
(***************************************************************************)
(* Everything that writes a vault file, and how the writers share file     *)
(* names: a save or a password change of the open session (persist_vault,  *)
(* vault/store.rs), create_vault (commands/auth.rs) and export_vault       *)
(* (commands/vault_mgmt.rs).                                               *)
(*                                                                         *)
(* All of them write a temporary file and rename it.  A save or a creation *)
(* of "x.qvault" writes "x.qvault.tmp"; an export to "x.<anything>" also   *)
(* writes "x.qvault.tmp".  Names lead to inodes: a writer keeps the inode  *)
(* it opened, a rename moves the name.  An inode is named by the job that  *)
(* made it, and so are passwords; a vault's contents are the set of the    *)
(* jobs that are in it.  Only saves hold the write lock of the session.    *)
(*                                                                         *)
(* An export may go to a vault file: only the path of the open vault is    *)
(* refused, so that it can replace another vault, or the file of a session *)
(* that is opened meanwhile.                                               *)
(*                                                                         *)
(* An unlock is one step here (VaultSession has it in three).              *)
(***************************************************************************)
EXTENDS Naturals, FiniteSets

CONSTANTS Savers,     \* commands that change the vault
          Rekeys,       \* those of them that change the master password
          Creators,     \* calls of create_vault
          Exporters,    \* calls of export_vault
          Paths,        \* vault files
          Old,          \* those that exist at the start
          Dests,        \* export destinations, vault files perhaps
          Stem,         \* destination -> whose "<name>.tmp" with_extension gives
          None, Torn, Mixed, Locked

Writers == Savers \cup Creators \cup Exporters
Names == Paths \cup Dests
Inodes == Writers \cup Old

\* What a whole file holds: the password that opens it and the jobs in it.
Content == [pw: Writers \cup Old, jobs: SUBSET (Writers \cup Old)]

\* An unlocked session: its vault, and what a save would write.
Sessions == [path: Paths, pw: Inodes, jobs: SUBSET Inodes]

ASSUME WritersAssumption ==
    /\ Rekeys \subseteq Savers /\ Old \subseteq Paths
    /\ Savers \cap Creators = {} /\ Savers \cap Exporters = {} /\ Creators \cap Exporters = {}
    /\ Writers \cap Old = {}
    /\ Stem \in [Dests -> Names]
    /\ None \notin Inodes \cup Names
    /\ {None, Torn, Mixed} \cap Content = {} /\ Locked \notin Sessions
    /\ Torn # Mixed /\ None # Mixed

VARIABLES file,     \* name -> inode, or None
          tmp,      \* name -> inode of "<name>.tmp", or None
          data,     \* inode -> contents: whole, Torn (incomplete) or Mixed
          session,  \* [path, pw, jobs], or Locked
          holder,   \* the saver that holds the write lock, or None
          pc,       \* where each job is
          at,       \* the name it writes
          fd,       \* the inode it writes to
          image,    \* what it writes
          seen,     \* export: the session it verified the password against
          source,   \* export: the vault it copies
          result,   \* what the caller was told
          acked,    \* history: jobs reported Ok, per vault
          asked,    \* history: export: `acked' of the vault when it was asked for
          unsure,   \* history: exports a password change may have overtaken
          shared    \* history: names that two jobs were at work on at a time

files == <<file, tmp, data>>
locals == <<pc, at, fd, image, seen, source, result>>
history == <<acked, asked, unsure, shared>>
vars == <<files, session, holder, locals, history>>
-----------------------------------------------------------------------------
\* The temporary file: file_name + ".tmp", or with_extension("qvault.tmp").
TmpOf(j, n) == IF j \in Exporters THEN Stem[n] ELSE n

InFlight(j) == pc[j] \notin {"idle", "done"}
Writing(i) == {j \in Writers : pc[j] = "write" /\ fd[j] = i}
\* What load_and_unlock takes for a vault: it parses, and its HMAC verifies.
Whole(n) == file[n] # None /\ data[file[n]] \in Content
At(n) == data[file[n]]

Goto(j, l) == pc' = [pc EXCEPT ![j] = l]

\* The job is over, and its file closed; a save lets go of the write lock.
\* (What it wrote is kept for an export that is Ok: properties ask for it.)
Answer(j, r) ==
    /\ Goto(j, "done")
    /\ result' = [result EXCEPT ![j] = r]
    /\ holder' = IF holder = j THEN None ELSE holder
    /\ fd' = [fd EXCEPT ![j] = None]
    /\ image' = IF j \in Exporters /\ r = "ok" THEN image ELSE [image EXCEPT ![j] = None]
    /\ at' = IF j \in Exporters THEN at ELSE [at EXCEPT ![j] = None]

\* A job begins to work on n; is anybody else at work there, or on the same
\* temporary file?
Claim(j, n) ==
    /\ at' = [at EXCEPT ![j] = n]
    /\ shared' = shared \cup {m \in {n, TmpOf(j, n)} :
                    \E k \in Writers \ {j} : InFlight(k) /\ m \in {at[k], TmpOf(k, at[k])}}

\* Who relies on the file of n: the session that is open, and the exports
\* that have yet to copy it.
InUse(n) ==
    \/ session # Locked /\ session.path = n
    \/ \E e \in Exporters : pc[e] \in {"path", "open"} /\ seen[e].path = n
    \/ \E e \in Exporters : pc[e] = "open" /\ source[e] = n

Init ==
    /\ file = [n \in Names |-> IF n \in Old THEN n ELSE None]
    /\ tmp = [n \in Names |-> None]
    /\ data = [i \in Inodes |-> IF i \in Old THEN [pw |-> i, jobs |-> {i}] ELSE Torn]
    /\ session = Locked /\ holder = None
    /\ pc = [j \in Writers |-> "idle"]
    /\ at = [j \in Writers |-> None]
    /\ fd = [j \in Writers |-> None]
    /\ image = [j \in Writers |-> None]
    /\ seen = [j \in Exporters |-> Locked]
    /\ source = [j \in Exporters |-> None]
    /\ result = [j \in Writers |-> "none"]
    /\ acked = [p \in Paths |-> {}]
    /\ asked = [j \in Exporters |-> {}]
    /\ unsure = {} /\ shared = {}
-----------------------------------------------------------------------------
(* What starts a write: the checks of each command.                        *)

\* with_session_mut: the closure changes the session under the write lock,
\* and persist_vault serialises what it has become.
SaveStart(s) ==
    /\ pc[s] = "idle" /\ holder = None /\ session # Locked
    /\ holder' = s
    /\ session' = [session EXCEPT !.jobs = @ \cup {s}, !.pw = IF s \in Rekeys THEN s ELSE @]
    /\ Claim(s, session.path)
    /\ Goto(s, "open")
    /\ unsure' = IF s \in Rekeys THEN unsure \cup {e \in Exporters : InFlight(e)} ELSE unsure
    /\ UNCHANGED <<files, fd, image, seen, source, result, acked, asked>>

\* Mutation: the path is not looked at.
CreateUnchecked(c, p) ==
    /\ pc[c] = "idle"
    /\ Claim(c, p)
    /\ Goto(c, "open")
    /\ UNCHANGED <<files, session, holder, fd, image, seen, source, result, acked, asked, unsure>>

\* create_vault, on a path that is free at the start: VaultExists, or a
\* second of key derivation begins.
CreateCheck(c, p) ==
    /\ pc[c] = "idle"
    /\ \/ file[p] # None /\ Answer(c, "refused") /\ UNCHANGED shared
       \/ /\ file[p] = None
          /\ Claim(c, p)
          /\ Goto(c, "open")
          /\ UNCHANGED <<holder, fd, image, result>>
    /\ UNCHANGED <<files, session, seen, source, acked, asked, unsure>>

\* Mutation: the password is not compared with the one of the session.
ExportUnverified(e, d) ==
    /\ pc[e] = "idle" /\ holder = None /\ session # Locked
    /\ \E p \in Inodes : seen' = [seen EXCEPT ![e] = [session EXCEPT !.pw = p]]
    /\ asked' = [asked EXCEPT ![e] = acked[session.path]]
    /\ unsure' = IF Whole(session.path) /\ At(session.path).pw = session.pw
                 THEN unsure ELSE unsure \cup {e}
    /\ Claim(e, d)
    /\ Goto(e, "path")
    /\ UNCHANGED <<files, session, holder, fd, image, source, result, acked>>

\* export_vault: the password is verified against the keys of the session.
ExportVerify(e, d) ==
    /\ pc[e] = "idle" /\ holder = None /\ session # Locked
    /\ seen' = [seen EXCEPT ![e] = session]
    /\ asked' = [asked EXCEPT ![e] = acked[session.path]]
    /\ unsure' = IF Whole(session.path) /\ At(session.path).pw = session.pw
                 THEN unsure ELSE unsure \cup {e}
    /\ Claim(e, d)
    /\ Goto(e, "path")
    /\ UNCHANGED <<files, session, holder, fd, image, source, result, acked>>

\* Mutation: the export takes the write lock and keeps it.
ExportPathHolding(e) ==
    /\ pc[e] = "path" /\ holder = None /\ session # Locked
    /\ source' = [source EXCEPT ![e] = session.path]
    /\ holder' = e
    /\ Goto(e, "open")
    /\ UNCHANGED <<files, session, at, fd, image, seen, result, history>>

\* Then the session is asked again, for its path: it may be locked by now,
\* or of another vault.  Its own path is refused as a destination, and that
\* is the only vault that is.
ExportPath(e) ==
    /\ pc[e] = "path" /\ holder = None
    /\ IF session = Locked \/ session.path = at[e]
       THEN Answer(e, "refused") /\ UNCHANGED source
       ELSE /\ source' = [source EXCEPT ![e] = session.path]
            /\ Goto(e, "open")
            /\ UNCHANGED <<holder, at, fd, image, result>>
    /\ UNCHANGED <<files, session, seen, history>>
-----------------------------------------------------------------------------
(* The write of the temporary file, and its rename.                        *)

\* The image of the session or of a new vault; copy() opens its source.
Bytes(j) == CASE j \in Savers -> [pw |-> session.pw, jobs |-> session.jobs]
              [] j \in Creators -> [pw |-> j, jobs |-> {j}]
              [] j \in Exporters -> At(source[j])

\* Mutation: the vault file itself is written.
OpenInPlace(j) ==
    /\ pc[j] = "open"
    /\ j \in Exporters => file[source[j]] # None
    /\ LET n == at[j]
           i == IF file[n] = None THEN j ELSE file[n]
       IN /\ tmp' = [tmp EXCEPT ![TmpOf(j, n)] = i]
          /\ fd' = [fd EXCEPT ![j] = i]
          /\ data' = [data EXCEPT ![i] = Torn]
    /\ image' = [image EXCEPT ![j] = Bytes(j)]
    /\ Goto(j, "write")
    /\ UNCHANGED <<file, session, holder, at, seen, source, result, history>>

\* File::create: a new inode, or the one that is there, truncated.
OpenTmp(j) ==
    /\ pc[j] = "open"
    /\ j \in Exporters => file[source[j]] # None
    /\ LET t == TmpOf(j, at[j])
           i == IF tmp[t] = None THEN j ELSE tmp[t]
       IN /\ tmp' = [tmp EXCEPT ![t] = i]
          /\ fd' = [fd EXCEPT ![j] = i]
          /\ data' = [data EXCEPT ![i] = IF Writing(i) = {} THEN Torn ELSE Mixed]
    /\ image' = [image EXCEPT ![j] = Bytes(j)]
    /\ Goto(j, "write")
    /\ UNCHANGED <<file, session, holder, at, seen, source, result, history>>

\* The last byte is written.  Where two jobs wrote to one inode, it holds
\* the bytes of the last one or a mixture.
WriteEnd(j) ==
    /\ pc[j] = "write"
    /\ \E bytes \in IF data[fd[j]] = Torn /\ Writing(fd[j]) = {j}
                    THEN {image[j]} ELSE {image[j], Mixed} :
          data' = [data EXCEPT ![fd[j]] = bytes]
    /\ Goto(j, "rename")
    /\ UNCHANGED <<file, tmp, session, holder, at, fd, image, seen, source, result, history>>

\* An error of the write or the copy: the temporary file stays.
WriteFails(j) ==
    /\ \/ pc[j] = "open" /\ UNCHANGED data
       \/ /\ pc[j] = "write"
          /\ data' = IF Writing(fd[j]) = {j} THEN data ELSE [data EXCEPT ![fd[j]] = Mixed]
    /\ Answer(j, "failed")
    /\ UNCHANGED <<file, tmp, session, seen, source, history>>

\* rename(): whatever the temporary name leads to by now.
\* (History: an export that replaces a vault leaves there what it was asked
\* to copy.  Its destination is shared if what it copies or renames is, or
\* if somebody relies on what it replaces.)
Rename(j) ==
    /\ pc[j] = "rename"
    /\ LET t == TmpOf(j, at[j])
       IN /\ tmp[t] # None
          /\ file' = [file EXCEPT ![at[j]] = tmp[t]]
          /\ tmp' = [tmp EXCEPT ![t] = None]
          /\ IF j \in Exporters
             THEN /\ acked' = [p \in Paths |->
                         CASE p # at[j] -> acked[p]
                           [] p = at[j] /\ source[j] = seen[j].path -> asked[j]
                           [] OTHER -> {}]
                  /\ shared' = IF {source[j], t} \cap shared # {} \/ InUse(at[j])
                               THEN shared \cup {at[j]} ELSE shared
             ELSE UNCHANGED <<acked, shared>>
    /\ Goto(j, "renamed")
    /\ UNCHANGED <<data, session, holder, at, fd, image, seen, source, result, asked, unsure>>

\* The rename fails: the name is gone, or an I/O error.
RenameFails(j) ==
    /\ pc[j] = "rename"
    /\ Goto(j, "cleanup")
    /\ UNCHANGED <<files, session, holder, at, fd, image, seen, source, result, history>>

\* remove_file: whatever the temporary name leads to by now.
Cleanup(j) ==
    /\ pc[j] = "cleanup"
    /\ tmp' = [tmp EXCEPT ![TmpOf(j, at[j])] = None]
    /\ Answer(j, "failed")
    /\ UNCHANGED <<file, data, session, seen, source, history>>

\* Mutation: the answer is given before the rename.
ReplyEarly(j) ==
    /\ pc[j] \in {"rename", "renamed"}
    /\ Answer(j, "ok")
    /\ acked' = IF j \in Exporters THEN acked ELSE [acked EXCEPT ![at[j]] = @ \cup {j}]
    /\ UNCHANGED <<files, session, seen, source, asked, unsure, shared>>

\* The caller is told Ok.
Reply(j) ==
    /\ pc[j] = "renamed"
    /\ Answer(j, "ok")
    /\ acked' = IF j \in Exporters THEN acked ELSE [acked EXCEPT ![at[j]] = @ \cup {j}]
    /\ UNCHANGED <<files, session, seen, source, asked, unsure, shared>>
-----------------------------------------------------------------------------
\* Mutation: what the previous session had is not dropped.
UnlockKeeping(p) ==
    /\ holder = None /\ Whole(p)
    /\ session' = [path |-> p, pw |-> At(p).pw,
                   jobs |-> At(p).jobs \cup IF session = Locked THEN {} ELSE session.jobs]
    /\ UNCHANGED <<files, holder, locals, history>>

\* unlock(): a vault that opens is loaded.
Unlock(p) ==
    /\ holder = None /\ Whole(p)
    /\ session' = [path |-> p, pw |-> At(p).pw, jobs |-> At(p).jobs]
    /\ UNCHANGED <<files, holder, locals, history>>

Lock ==
    /\ holder = None
    /\ session' = Locked
    /\ UNCHANGED <<files, holder, locals, history>>

\* The process ends; what is on the disk stays as it is.
Crash ==
    /\ session' = Locked /\ holder' = None
    /\ pc' = [j \in Writers |-> IF InFlight(j) THEN "done" ELSE pc[j]]
    /\ fd' = [j \in Writers |-> None]
    /\ UNCHANGED <<files, at, image, seen, source, result, history>>

Write(j) == \/ OpenTmp(j) \/ WriteEnd(j) \/ WriteFails(j)
            \/ Rename(j) \/ RenameFails(j) \/ Cleanup(j) \/ Reply(j)

Next == \/ \E s \in Savers : SaveStart(s)
        \/ \E c \in Creators, p \in Paths \ Old : CreateCheck(c, p)
        \/ \E e \in Exporters : ExportPath(e) \/ \E d \in Dests : ExportVerify(e, d)
        \/ \E j \in Writers : Write(j)
        \/ \E p \in Paths : Unlock(p)
        \/ Lock
        \/ Crash

Spec == Init /\ [][Next]_vars
-----------------------------------------------------------------------------
\* The names that were one job's at a time: no two jobs wrote the file or its
\* temporary file, none replaced it under an open session or an export of
\* it, and no export brought there what was not alone itself.
Alone(n) == n \notin shared

\* The type invariant of files, session and jobs.
TypeOK ==
    /\ file \in [Names -> Inodes \cup {None}]
    /\ tmp \in [Names -> Inodes \cup {None}]
    /\ data \in [Inodes -> Content \cup {Torn, Mixed}]
    /\ session \in Sessions \cup {Locked}
    /\ holder \in Savers \cup {None}
    /\ pc \in [Writers -> {"idle", "path", "open", "write", "rename", "renamed",
                        "cleanup", "done"}]
    /\ at \in [Writers -> Names \cup {None}]
    /\ fd \in [Writers -> Inodes \cup {None}]
    /\ image \in [Writers -> Content \cup {Torn, Mixed, None}]
    /\ result \in [Writers -> {"none", "ok", "failed", "refused"}]
    /\ shared \subseteq Names /\ unsure \subseteq Exporters

\* As long as a name was one job's at a time, its file is a whole vault at
\* every moment, through failed writes and crashes (rename after write,
\* store.rs line 273 and vault_mgmt.rs line 104).
WholeFiles == \A n \in Names : Alone(n) => file[n] = None \/ Whole(n)

\* And what was reported Ok, a save or the creation of the vault, is in it:
\* no creation has replaced it, and if an export the user sent there has
\* (vault_mgmt.rs lines 93-104 refuse the path of the open vault only), the
\* file has what was reported of the vault that was copied.
AckedKept == \A p \in Paths : Alone(p) /\ acked[p] # {} => Whole(p) /\ acked[p] \subseteq At(p).jobs

\* An export reported Ok has every change that had been reported Ok when it
\* was asked for, although the file is read long after the session was.
ExportCurrent == \A e \in Exporters :
    result[e] = "ok" /\ source[e] = seen[e].path /\ Alone(at[e])
        => image[e] \in Content /\ asked[e] \subseteq image[e].jobs

\* It opens with the password its caller gave, unless the password of the
\* session was not that of the file, was being changed, or the vault was
\* another one by the time its path was asked for.
ExportOpens == \A e \in Exporters :
    result[e] = "ok" /\ source[e] = seen[e].path /\ Alone(at[e])
        => e \in unsure \/ image[e].pw = seen[e].pw

\* "prevent tokio::fs::copy from truncating the source file mid-write"
\* (vault_mgmt.rs lines 91-92): an export of an old vault leaves it whole.
SourceNeverTorn == \A p \in Old : Whole(p)
-----------------------------------------------------------------------------
(***************************************************************************)
(* The writers implement VaultFiles: a vault is what its file holds, while *)
(* its name is one job's at a time.                                        *)
(***************************************************************************)
VaultNow == [n \in Names |-> CASE ~Alone(n) -> Mixed
                               [] Alone(n) /\ file[n] = None -> None
                               [] OTHER -> At(n)]

TookNow == [e \in Exporters |-> CASE pc[e] \notin {"write", "rename"} -> None
                                  [] pc[e] \in {"write", "rename"} /\ ~Alone(source[e]) -> Mixed
                                  [] OTHER -> image[e]]

Files == INSTANCE VaultFiles
         WITH Jobs <- Inodes, Unknown <- Mixed, vault <- VaultNow, took <- TookNow

\* Saves and creations take effect at one moment, as a whole; sessions start
\* with what was saved last; and an export is its vault as it was at one
\* moment, whatever fails, crashes or is renamed in between.
FilesKept == Files!Spec
=============================================================================
