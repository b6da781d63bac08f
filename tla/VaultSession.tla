---------------------------- MODULE VaultSession ----------------------------
(***************************************************************************)
(* The session of session/manager.rs, the in-memory vault it guards and    *)
(* the vault file it persists to (vault/store.rs), under any number of     *)
(* overlapping commands, I/O errors and crashes of the process.            *)
(*                                                                         *)
(* Each member of Req is one invocation of a command: unlock_vault, a      *)
(* command that mutates the vault through with_session_mut, or             *)
(* change_master_password.  An invocation advances one await at a time;    *)
(* `holder' is the owner of the write side of RwLock<SessionState>.        *)
(*                                                                         *)
(* Data is abstract.  What a mutation does to the vault is the identity    *)
(* of the invocation that did it, so the contents of a vault are the set   *)
(* of the changes it includes.  Whatever is drawn at random is named by    *)
(* who drew it: the salt of a password change by its invocation, the salt  *)
(* and the vault key of a vault that exists at the start by its path.      *)
(* Encryption is what it does: a ciphertext records the key it needs.      *)
(***************************************************************************)
EXTENDS Naturals

CONSTANTS Req,          \* command invocations
          Paths,        \* vault files
          Passwords,    \* master passwords
          Kdfs,         \* Argon2id parameter sets a header may carry
          CurrentKdf,   \* ARGON2_MEMORY_KB, ARGON2_ITERATIONS, ARGON2_PARALLELISM
          NoReq, NoPath, NoFile, Partial, Locked, RateLimited

VARIABLES disk,      \* the file at each vault path
          tmp,       \* the sibling "<file>.tmp" of each vault path
          session,   \* SessionState: Locked, RateLimited, or an unlocked session
          holder,    \* the invocation holding the write lock, or NoReq
          pc,        \* where each invocation is
          cmd,       \* which command it runs
          path,      \* the vault it works on
          pw,        \* unlock: the password given; change: the new one
          file,      \* unlock: the bytes read
          result,    \* what the caller was told
          told,      \* history: the password last reported as set, per vault
          stale      \* history: vaults a session was opened on from old bytes

locals == <<pc, cmd, path, pw, file, result>>
history == <<told, stale>>
vars == <<disk, tmp, session, holder, pc, cmd, path, pw, file, result, told, stale>>
-----------------------------------------------------------------------------
Salts == Req \cup Paths
MasterKey == [pw: Passwords, salt: Salts, kdf: Kdfs]
WrappedKey == [mk: MasterKey, vk: Paths]

(***************************************************************************)
(* VaultHeader: `wrap' is vk_wrapped_classical, `pq' the post-quantum copy *)
(* (kyber_sk_encrypted under mk, and the key it encapsulates), `name' the  *)
(* vault name encrypted under mk, or what is left of it (kept = FALSE).    *)
(***************************************************************************)
Header == [salt: Salts, kdf: Kdfs, wrap: WrappedKey, pq: WrappedKey,
           name: [mk: MasterKey, kept: BOOLEAN]]

\* A complete .qvault file; `mac' is the master key its HMAC was keyed from.
VaultFile == [header: Header, body: [vk: Paths, changes: SUBSET Req], mac: MasterKey]

\* SessionState::Unlocked: ActiveKeyStore (mk, vk), VaultStore and vault_path.
Unlocked == [path: Paths, mk: MasterKey, vk: Paths, header: Header, changes: SUBSET Req]

ASSUME SessionAssumption ==
    /\ CurrentKdf \in Kdfs
    /\ Passwords # {}
    /\ NoReq \notin Req
    /\ NoPath \notin Paths
    /\ {NoFile, Partial} \cap VaultFile = {}
    /\ {Locked, RateLimited} \cap Unlocked = {}
    /\ NoFile # Partial

IsUnlocked == session \notin {Locked, RateLimited}

\* derive_master_key_with_params
DeriveKey(p, salt, kdf) == [pw |-> p, salt |-> salt, kdf |-> kdf]

\* The key material one master key protects: create_vault's header.
NewHeader(mk, vk) ==
    [salt |-> mk.salt, kdf |-> mk.kdf,
     wrap |-> [mk |-> mk, vk |-> vk], pq |-> [mk |-> mk, vk |-> vk],
     name |-> [mk |-> mk, kept |-> TRUE]]

\* A vault some earlier run created at p with password w.
CreatedVault(p, w, kdf) ==
    LET mk == DeriveKey(w, p, kdf)
    IN  [header |-> NewHeader(mk, p), body |-> [vk |-> p, changes |-> {}], mac |-> mk]

\* load_and_unlock accepts the bytes f under password w: the header parses,
\* the HMAC verifies, the vault key unwraps and the body decrypts.
Opens(f, w) ==
    /\ f \in VaultFile
    /\ LET mk == DeriveKey(w, f.header.salt, f.header.kdf)
       IN  f.mac = mk /\ f.header.wrap.mk = mk /\ f.body.vk = f.header.wrap.vk

\* The key store and VaultStore load_and_unlock returns for bytes it accepts.
Loaded(p, f, w) ==
    [path |-> p, mk |-> DeriveKey(w, f.header.salt, f.header.kdf),
     vk |-> f.header.wrap.vk, header |-> f.header, changes |-> f.body.changes]

\* The bytes persist_vault assembles: body under VK, HMAC keyed from MK.
Image(s) ==
    [header |-> s.header, body |-> [vk |-> s.vk, changes |-> s.changes], mac |-> s.mk]

\* Mutation: the KDF parameters of the header are not brought up to date.
RekeyedOldKdf(s, mk) ==
    [s EXCEPT !.mk = mk,
              !.header = [NewHeader(mk, s.vk) EXCEPT !.kdf = s.header.kdf]]

\* change_master_password's closure.  The name is decrypted with the old
\* master key before the key store gets the new one (lost if that fails).
Rekeyed(s, mk) ==
    [s EXCEPT !.mk = mk,
              !.header = [salt |-> mk.salt, kdf |-> CurrentKdf,
                          wrap |-> [mk |-> mk, vk |-> s.vk],
                          pq |-> [mk |-> mk, vk |-> s.vk],
                          name |-> [mk |-> mk,
                                    kept |-> s.header.name.kept /\ s.header.name.mk = s.mk]]]
-----------------------------------------------------------------------------
Init ==
    /\ \E w \in [Paths -> Passwords], k \in [Paths -> Kdfs] :
          /\ disk = [p \in Paths |-> CreatedVault(p, w[p], k[p])]
          /\ told = w
    /\ tmp = [p \in Paths |-> NoFile]
    /\ session = Locked
    /\ holder = NoReq
    /\ pc = [r \in Req |-> "idle"]
    /\ cmd = [r \in Req |-> "none"]
    /\ path = [r \in Req |-> NoPath]
    /\ pw = [r \in Req |-> CHOOSE w \in Passwords : TRUE]
    /\ file = [r \in Req |-> NoFile]
    /\ result = [r \in Req |-> "none"]
    /\ stale = {}

\* The invocation returns `res' to its caller and drops what it had read.
Return(r, res) ==
    /\ pc' = [pc EXCEPT ![r] = "done"]
    /\ result' = [result EXCEPT ![r] = res]
    /\ file' = [file EXCEPT ![r] = NoFile]

(***************************************************************************)
(* SessionManager::unlock.  The gate in front of it (attempt counter,      *)
(* lockout file) is module UnlockGate; here it lets the call pass or       *)
(* refuses it, and a refusal may re-apply RateLimited over any state.      *)
(* A failed attempt may be the one that trips the limit, which replaces    *)
(* the state, an unlocked session included, by RateLimited.                *)
(***************************************************************************)
UnlockStart(r, p, w) ==
    /\ pc[r] = "idle" /\ holder = NoReq
    /\ pc' = [pc EXCEPT ![r] = "load"]
    /\ cmd' = [cmd EXCEPT ![r] = "unlock"]
    /\ path' = [path EXCEPT ![r] = p]
    /\ pw' = [pw EXCEPT ![r] = w]
    /\ UNCHANGED <<disk, tmp, session, holder, file, result, history>>

UnlockRefused(r) ==
    /\ pc[r] = "idle" /\ holder = NoReq
    /\ session' \in {session, RateLimited}
    /\ Return(r, "err")
    /\ UNCHANGED <<disk, tmp, holder, cmd, path, pw, history>>

\* tokio::fs::read: the whole file as it is now; no lock is held.
UnlockRead(r) ==
    /\ pc[r] = "load"
    /\ pc' = [pc EXCEPT ![r] = "derive"]
    /\ file' = [file EXCEPT ![r] = disk[path[r]]]
    /\ UNCHANGED <<disk, tmp, session, holder, cmd, path, pw, result, history>>

\* The key derivation ends, the file opens: the session is replaced by it,
\* whatever the session was and whatever is in the file by now.
UnlockInstall(r) ==
    /\ pc[r] = "derive" /\ holder = NoReq
    /\ Opens(file[r], pw[r])
    /\ session' = Loaded(path[r], file[r], pw[r])
    /\ stale' = IF file[r] = disk[path[r]] THEN stale ELSE stale \cup {path[r]}
    /\ Return(r, "ok")
    /\ UNCHANGED <<disk, tmp, holder, cmd, path, pw, told>>

\* The file could not be read, or does not open with the password.
UnlockFail(r) ==
    /\ \/ pc[r] = "load"
       \/ pc[r] = "derive" /\ ~Opens(file[r], pw[r])
    /\ \/ UNCHANGED session
       \/ holder = NoReq /\ session' = RateLimited
    /\ Return(r, "err")
    /\ UNCHANGED <<disk, tmp, holder, cmd, path, pw, history>>
-----------------------------------------------------------------------------
(***************************************************************************)
(* with_session_mut.  The closure runs under the write lock, which is kept *)
(* over persist_vault: the temporary file is written in two steps, because *)
(* a crash or an I/O error can come between them, and then renamed.        *)
(***************************************************************************)
\* Mutation: the write lock is not kept while the vault is persisted.
AcquireUnheld(r, c, p) ==
    /\ pc[r] = "idle" /\ holder = NoReq
    /\ IsUnlocked
    /\ holder' = NoReq
    /\ pc' = [pc EXCEPT ![r] = "persist"]
    /\ cmd' = [cmd EXCEPT ![r] = c]
    /\ path' = [path EXCEPT ![r] = p]

Acquire(r, c, p) ==
    /\ pc[r] = "idle" /\ holder = NoReq
    /\ IsUnlocked
    /\ holder' = r
    /\ pc' = [pc EXCEPT ![r] = "persist"]
    /\ cmd' = [cmd EXCEPT ![r] = c]
    /\ path' = [path EXCEPT ![r] = p]

\* add, update, delete and favourite commands, notes, settings.
Mutate(r) ==
    /\ Acquire(r, "mutate", session.path)
    /\ session' = [session EXCEPT !.changes = @ \cup {r}]
    /\ UNCHANGED <<disk, tmp, pw, file, result, history>>

\* change_master_password whose old password proved right: the new master
\* key was derived, from a fresh salt, before the lock was taken.
ChangePassword(r, old, new) ==
    /\ Acquire(r, "change", session.path)
    /\ DeriveKey(old, session.header.salt, session.header.kdf) = session.mk
    /\ session' = Rekeyed(session, DeriveKey(new, r, CurrentKdf))
    /\ pw' = [pw EXCEPT ![r] = new]
    /\ UNCHANGED <<disk, tmp, file, result, history>>

\* The session is not unlocked (an expired RateLimited becomes Locked), or
\* the closure returned an error before it changed anything.
Refused(r) ==
    /\ pc[r] = "idle" /\ holder = NoReq
    /\ \/ session' = session
       \/ session = RateLimited /\ session' = Locked
    /\ Return(r, "err")
    /\ UNCHANGED <<disk, tmp, holder, cmd, path, pw, history>>

\* Mutation: the vault file itself is rewritten in place.
WriteInPlaceBegin(r) ==
    /\ pc[r] = "persist"
    /\ pc' = [pc EXCEPT ![r] = "writing"]
    /\ disk' = [disk EXCEPT ![path[r]] = Partial]
    /\ UNCHANGED <<tmp, session, holder, cmd, path, pw, file, result, history>>

WriteTmpBegin(r) ==
    /\ pc[r] = "persist"
    /\ pc' = [pc EXCEPT ![r] = "writing"]
    /\ tmp' = [tmp EXCEPT ![path[r]] = Partial]
    /\ UNCHANGED <<disk, session, holder, cmd, path, pw, file, result, history>>

\* Mutation: the header is serialized before the mutation is applied.
WriteTmpOldHeader(r) ==
    /\ pc[r] = "writing"
    /\ pc' = [pc EXCEPT ![r] = "rename"]
    /\ tmp' = [tmp EXCEPT ![path[r]] =
                  [Image(session) EXCEPT !.header = disk[path[r]].header]]
    /\ UNCHANGED <<disk, session, holder, cmd, path, pw, file, result, history>>

WriteTmpEnd(r) ==
    /\ pc[r] = "writing"
    /\ pc' = [pc EXCEPT ![r] = "rename"]
    /\ tmp' = [tmp EXCEPT ![path[r]] = Image(session)]
    /\ UNCHANGED <<disk, session, holder, cmd, path, pw, file, result, history>>

\* Mutation: a password change replaces the header and keeps the body.
RenameHeaderOnly(r) ==
    /\ pc[r] = "rename"
    /\ disk' = [disk EXCEPT ![path[r]] =
                   IF cmd[r] = "change"
                   THEN [tmp[path[r]] EXCEPT !.body = disk[path[r]].body]
                   ELSE tmp[path[r]]]
    /\ tmp' = [tmp EXCEPT ![path[r]] = NoFile]
    /\ pc' = [pc EXCEPT ![r] = "reply"]
    /\ UNCHANGED <<session, holder, cmd, path, pw, file, result, history>>

Rename(r) ==
    /\ pc[r] = "rename"
    /\ disk' = [disk EXCEPT ![path[r]] = tmp[path[r]]]
    /\ tmp' = [tmp EXCEPT ![path[r]] = NoFile]
    /\ pc' = [pc EXCEPT ![r] = "reply"]
    /\ UNCHANGED <<session, holder, cmd, path, pw, file, result, history>>

\* Mutation: a password change answers before the file is in place.
ReplyEarly(r) ==
    /\ pc[r] = "reply" \/ (cmd[r] = "change" /\ pc[r] = "rename")
    /\ holder' = NoReq
    /\ told' = IF cmd[r] = "change" THEN [told EXCEPT ![path[r]] = pw[r]] ELSE told
    /\ Return(r, "ok")
    /\ UNCHANGED <<disk, tmp, session, cmd, path, pw, stale>>

\* The write guard is dropped and the caller gets its Ok.
Reply(r) ==
    /\ pc[r] = "reply"
    /\ holder' = NoReq
    /\ told' = IF cmd[r] = "change" THEN [told EXCEPT ![path[r]] = pw[r]] ELSE told
    /\ Return(r, "ok")
    /\ UNCHANGED <<disk, tmp, session, cmd, path, pw, stale>>

\* Mutation: a failed save is logged and reported as Ok.
PersistErrorIgnored(r) ==
    /\ pc[r] \in {"persist", "writing", "rename"}
    /\ holder' = NoReq
    /\ Return(r, "ok")
    /\ UNCHANGED <<disk, tmp, session, cmd, path, pw, history>>

\* Mutation: the error path leaves without releasing the write lock.
PersistErrorKeepsLock(r) ==
    /\ pc[r] \in {"persist", "writing", "rename"}
    /\ Return(r, "persist_failed")
    /\ UNCHANGED <<disk, tmp, session, holder, cmd, path, pw, history>>

\* An I/O error: PersistFailed is reported, memory keeps the change.  Only a
\* failed rename tries to remove the temporary file, and that may fail too.
PersistFails(r) ==
    /\ pc[r] \in {"persist", "writing", "rename"}
    /\ \/ UNCHANGED tmp
       \/ pc[r] = "rename" /\ tmp' = [tmp EXCEPT ![path[r]] = NoFile]
    /\ holder' = NoReq
    /\ Return(r, "persist_failed")
    /\ UNCHANGED <<disk, session, cmd, path, pw, history>>
-----------------------------------------------------------------------------
\* SessionManager::lock: lock_vault, the auto-lock timer, lock-on-blur.
Lock ==
    /\ holder = NoReq
    /\ session' = Locked
    /\ UNCHANGED <<disk, tmp, holder, locals, history>>

\* The process dies and is started again: every invocation in flight is
\* lost without an answer, and only the files survive.
Crash ==
    /\ session' = Locked
    /\ holder' = NoReq
    /\ pc' = [r \in Req |-> IF pc[r] = "idle" THEN "idle" ELSE "done"]
    /\ result' = [r \in Req |-> IF pc[r] \in {"idle", "done"} THEN result[r] ELSE "lost"]
    /\ file' = [r \in Req |-> NoFile]
    /\ UNCHANGED <<disk, tmp, cmd, path, pw, history>>

Unlock(r) == \/ \E p \in Paths, w \in Passwords : UnlockStart(r, p, w)
             \/ UnlockRefused(r)

\* The steps of an invocation that has started.
Step(r) == \/ UnlockRead(r) \/ UnlockInstall(r) \/ UnlockFail(r)
           \/ WriteTmpBegin(r) \/ WriteTmpEnd(r) \/ Rename(r) \/ Reply(r)
           \/ PersistFails(r)

Next == \/ \E r \in Req : \/ Unlock(r)
                          \/ Mutate(r)
                          \/ \E old, new \in Passwords : ChangePassword(r, old, new)
                          \/ Refused(r)
                          \/ Step(r)
        \/ Lock
        \/ Crash

Spec == Init /\ [][Next]_vars

\* The runtime polls every spawned command, and its RwLock serves waiters in
\* order; no command has to be invoked, and locks and crashes may never come.
FairSpec == Spec /\ \A r \in Req : WF_vars(Step(r))
-----------------------------------------------------------------------------
\* The type invariant of the session, the files and the invocations.
TypeOK ==
    /\ disk \in [Paths -> VaultFile]
    /\ tmp \in [Paths -> VaultFile \cup {NoFile, Partial}]
    /\ session \in Unlocked \cup {Locked, RateLimited}
    /\ holder \in Req \cup {NoReq}
    /\ pc \in [Req -> {"idle", "load", "derive", "persist", "writing", "rename", "reply", "done"}]
    /\ cmd \in [Req -> {"none", "unlock", "mutate", "change"}]
    /\ path \in [Req -> Paths \cup {NoPath}]
    /\ pw \in [Req -> Passwords]
    /\ file \in [Req -> VaultFile \cup {NoFile}]
    /\ result \in [Req -> {"none", "ok", "err", "persist_failed", "lost"}]
    /\ told \in [Paths -> Passwords]
    /\ stale \in SUBSET Paths

\* All the key material of a vault file belongs to one master key and one
\* vault key: it opens, the post-quantum copy unwraps the same vault key,
\* and the vault name can still be read.
Sound(f) == /\ Opens(f, f.mac.pw)
            /\ f.header.pq = f.header.wrap
            /\ f.header.name = [mk |-> f.mac, kept |-> TRUE]

\* Whatever step a save was interrupted at, by a crash or an I/O error, the
\* file under the vault's name is complete and opens with one password
\* (write to a temporary file, then rename: persist_vault).
DiskSound == \A p \in Paths : disk[p] \in VaultFile /\ Sound(disk[p])

\* The key store and the header of the session agree, also after a password
\* change that could not be saved: whatever is persisted next will open, and
\* the old-password check compares like with like.
SessionSound == IsUnlocked => Sound(Image(session))

\* A change reported Ok is in the vault file, and in the session on it, from
\* then on: no lock, crash, failed save or password change loses it.  The
\* one exception is a vault a session was opened on from bytes read before
\* another save of it (two overlapping unlock calls, unlock re-reads nothing).
AckedOnDisk ==
    \A r \in Req :
        cmd[r] = "mutate" /\ result[r] = "ok" /\ path[r] \notin stale =>
            /\ r \in disk[path[r]].body.changes
            /\ IsUnlocked /\ session.path = path[r] => r \in session.changes

\* While no invocation holds the write lock, a change that a reader of the
\* session sees and the file lacks is one whose caller got PersistFailed.
UnsavedIsReported ==
    (holder = NoReq /\ IsUnlocked /\ session.path \notin stale) =>
        \A r \in session.changes \ disk[session.path].body.changes :
            result[r] = "persist_failed"

\* The password that opens a vault is the one last reported as set, or that
\* of a change whose caller has no Ok: it got PersistFailed (and a later
\* save carried the new key to the file), or the crash took the answer.
PasswordAsTold ==
    \A p \in Paths \ stale :
        \/ Opens(disk[p], told[p])
        \/ \E r \in Req : /\ cmd[r] = "change" /\ path[r] = p
                         /\ Opens(disk[p], pw[r])
                         /\ \/ pc[r] = "reply"
                            \/ result[r] \in {"persist_failed", "lost"}

\* Every command that was started returns to its caller: nothing waits for
\* the write lock forever, whatever fails while it is held.
Returns == \A r \in Req : pc[r] \notin {"idle", "done"} ~> pc[r] = "done"
-----------------------------------------------------------------------------
(***************************************************************************)
(* The detailed session implements the promise: stored contents are those  *)
(* of the vault file, the view is the unlocked session.                    *)
(***************************************************************************)
CONSTANT NoView

ContentsOf(f) == [changes |-> f.body.changes, pw |-> f.mac.pw]

ASSUME NoViewAssumption ==
    NoView \notin [path: Paths, contents: [changes: SUBSET Req, pw: Passwords]]

StoredNow == [p \in Paths |-> ContentsOf(disk[p])]

ViewNow == IF IsUnlocked
           THEN [path |-> session.path, contents |-> ContentsOf(Image(session))]
           ELSE NoView

SnapNow == [r \in Req |-> IF pc[r] = "derive"
                          THEN [path |-> path[r], contents |-> ContentsOf(file[r])]
                          ELSE NoView]

Promise == INSTANCE VaultPromise
           WITH stored <- StoredNow, view <- ViewNow, snap <- SnapNow

\* Stored contents are replaced only by the whole view of the session, and a
\* session only ever starts from whole stored contents.
PromiseKept == Promise!Spec
=============================================================================
