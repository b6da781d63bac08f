------------------------- MODULE VaultSessionProofs -------------------------
(***************************************************************************)
(* Proofs about VaultSession, for any number of invocations, vaults,       *)
(* passwords and KDF parameter sets.  Four invariants, each inductive      *)
(* relative to the first: what the steps of an invocation rely on (Steps), *)
(* that key material stays together (Keys), that changes reach the file    *)
(* (Changes), and that every password in force has a reason to be          *)
(* (Explanations).                                                         *)
(***************************************************************************)
EXTENDS VaultSession, TLAPS

\* Where an invocation holds the write lock.
Persisting == {"persist", "writing", "rename", "reply"}

\* The lock belongs to the invocation that persists, which works on the
\* vault of the session and has its own change in it.
WriterInv ==
    \A r \in Req : pc[r] \in Persisting =>
        /\ holder = r
        /\ session \in Unlocked
        /\ session.path = path[r]
        /\ cmd[r] \in {"mutate", "change"}
        /\ cmd[r] = "mutate" => r \in session.changes
        /\ cmd[r] = "change" => session.mk.pw = pw[r]

\* What an invocation has read, written and been told at each place.
PlaceInv ==
    \A r \in Req :
        /\ pc[r] \notin {"idle", "done"} => path[r] \in Paths
        /\ pc[r] \in {"load", "derive"} => cmd[r] = "unlock"
        /\ pc[r] # "done" => result[r] = "none"
        /\ pc[r] = "derive" => file[r] \in VaultFile
        /\ pc[r] = "rename" => tmp[path[r]] = Image(session)
        /\ pc[r] = "reply" => disk[path[r]] = Image(session)

Steps == TypeOK /\ WriterInv /\ PlaceInv
-----------------------------------------------------------------------------
\* The data: what is built from well-formed parts is well formed.
LEMMA KeyTypes ==
    ASSUME NEW w \in Passwords, NEW salt \in Salts, NEW kdf \in Kdfs
    PROVE  DeriveKey(w, salt, kdf) \in MasterKey
BY DEF DeriveKey, MasterKey

LEMMA HeaderType ==
    ASSUME NEW mk \in MasterKey, NEW vk \in Paths
    PROVE  NewHeader(mk, vk) \in Header
BY DEF NewHeader, MasterKey, WrappedKey, Header

LEMMA CreatedType ==
    ASSUME NEW p \in Paths, NEW w \in Passwords, NEW kdf \in Kdfs
    PROVE  CreatedVault(p, w, kdf) \in VaultFile
<1> DEFINE mk == DeriveKey(w, p, kdf)
<1>1. mk \in MasterKey
  BY KeyTypes DEF Salts
<1>2. NewHeader(mk, p) \in Header
  BY <1>1, HeaderType
<1> QED
  BY <1>1, <1>2 DEF CreatedVault, VaultFile

LEMMA ImageType ==
    ASSUME NEW s \in Unlocked
    PROVE  Image(s) \in VaultFile
BY DEF Image, Unlocked, VaultFile

\* A session opened from a file is that file: saved as it is, it gives the
\* same bytes again.
LEMMA LoadedFacts ==
    ASSUME NEW f \in VaultFile, NEW p \in Paths, NEW w \in Passwords, Opens(f, w)
    PROVE  LET s == Loaded(p, f, w)
           IN  /\ s \in Unlocked
               /\ Image(s) = f
               /\ s.path = p
               /\ s.changes = f.body.changes
               /\ s.mk = f.mac
               /\ s.mk.pw = w
<1> DEFINE s == Loaded(p, f, w)
<1>1. f = [header |-> f.header, body |-> f.body, mac |-> f.mac]
      /\ f.header \in Header /\ f.mac \in MasterKey
      /\ f.body \in [vk: Paths, changes: SUBSET Req]
  BY DEF VaultFile
<1>2. f.header.salt \in Salts /\ f.header.kdf \in Kdfs /\ f.header.wrap.vk \in Paths
  BY <1>1 DEF Header, WrappedKey
<1>3. DeriveKey(w, f.header.salt, f.header.kdf) = f.mac /\ f.body.vk = f.header.wrap.vk
  BY DEF Opens
<1>4. s \in Unlocked
  BY <1>1, <1>2, <1>3 DEF Loaded, Unlocked
<1>5. f.body = [vk |-> f.body.vk, changes |-> f.body.changes]
  BY <1>1
<1>6. Image(s) = f
  BY <1>1, <1>3, <1>5 DEF Loaded, Image
<1>7. f.mac.pw = w
  BY <1>3 DEF DeriveKey
<1> QED
  BY <1>3, <1>4, <1>6, <1>7 DEF Loaded

LEMMA MutatedFacts ==
    ASSUME NEW s \in Unlocked, NEW r \in Req
    PROVE  LET t == [s EXCEPT !.changes = @ \cup {r}]
           IN  /\ t \in Unlocked
               /\ t.path = s.path /\ t.mk = s.mk /\ t.vk = s.vk /\ t.header = s.header
               /\ t.changes = s.changes \cup {r}
BY DEF Unlocked

LEMMA RekeyedFacts ==
    ASSUME NEW s \in Unlocked, NEW r \in Req, NEW w \in Passwords
    PROVE  LET t == Rekeyed(s, DeriveKey(w, r, CurrentKdf))
           IN  /\ t \in Unlocked
               /\ t.path = s.path /\ t.vk = s.vk /\ t.changes = s.changes
               /\ t.mk = DeriveKey(w, r, CurrentKdf) /\ t.mk.pw = w
<1> DEFINE mk == DeriveKey(w, r, CurrentKdf)
           kept == s.header.name.kept /\ s.header.name.mk = s.mk
           h == [salt |-> mk.salt, kdf |-> CurrentKdf,
                 wrap |-> [mk |-> mk, vk |-> s.vk],
                 pq |-> [mk |-> mk, vk |-> s.vk],
                 name |-> [mk |-> mk, kept |-> kept]]
<1>1. mk \in MasterKey /\ mk.salt \in Salts /\ mk.pw = w
  BY KeyTypes, SessionAssumption DEF Salts, DeriveKey
<1>2. s.header \in Header /\ s.vk \in Paths
  BY DEF Unlocked
<1>3. kept \in BOOLEAN
  OBVIOUS
<1>4. h \in Header
  <2> HIDE DEF mk, kept
  <2> QED BY <1>1, <1>2, <1>3, SessionAssumption DEF Header, WrappedKey
<1>5. Rekeyed(s, mk) = [s EXCEPT !.mk = mk, !.header = h]
  BY DEF Rekeyed
<1> HIDE DEF mk, h
<1>6. [s EXCEPT !.mk = mk, !.header = h] \in Unlocked
  BY <1>1, <1>4 DEF Unlocked
<1> QED
  BY <1>1, <1>5, <1>6 DEF mk, Unlocked
-----------------------------------------------------------------------------
LEMMA StepsInit == Init => Steps
<1> SUFFICES ASSUME Init PROVE Steps
  OBVIOUS
<1>1. PICK w \in [Paths -> Passwords], k \in [Paths -> Kdfs] :
        disk = [p \in Paths |-> CreatedVault(p, w[p], k[p])] /\ told = w
  BY DEF Init
<1>2. disk \in [Paths -> VaultFile]
  BY <1>1, CreatedType
<1>3. (CHOOSE w0 \in Passwords : TRUE) \in Passwords
  BY SessionAssumption
<1>4. TypeOK
  BY <1>1, <1>2, <1>3 DEF Init, TypeOK
<1> QED
  BY <1>4 DEF Init, Steps, WriterInv, PlaceInv, Persisting

\* While nobody holds the write lock nobody is persisting.
LEMMA FreeLock ==
    ASSUME Steps, holder = NoReq
    PROVE  \A r \in Req : pc[r] \notin Persisting
BY SessionAssumption DEF Steps, WriterInv

\* The write lock is exclusive.
LEMMA OneWriter ==
    ASSUME Steps, NEW r \in Req, NEW q \in Req, pc[r] \in Persisting, pc[q] \in Persisting
    PROVE  q = r
BY DEF Steps, WriterInv

\* An unlocked session is a record of keys, header and contents.
LEMMA UnlockedSession ==
    ASSUME Steps, IsUnlocked
    PROVE  session \in Unlocked
BY DEF Steps, TypeOK, IsUnlocked

LEMMA StepsNext == Steps /\ [Next]_vars => Steps'
<1> SUFFICES ASSUME Steps, [Next]_vars PROVE Steps'
  OBVIOUS
<1> USE DEF Steps
<1>1. ASSUME NEW r \in Req, NEW p \in Paths, NEW w \in Passwords, UnlockStart(r, p, w)
      PROVE  Steps'
  BY <1>1 DEF UnlockStart, TypeOK, WriterInv, PlaceInv, Persisting, history
<1>2. ASSUME NEW r \in Req, UnlockRefused(r)
      PROVE  Steps'
  BY <1>2, FreeLock DEF UnlockRefused, Return, TypeOK, WriterInv, PlaceInv, Persisting, history
<1>3. ASSUME NEW r \in Req, UnlockRead(r)
      PROVE  Steps'
  BY <1>3 DEF UnlockRead, TypeOK, WriterInv, PlaceInv, Persisting, history
<1>4. ASSUME NEW r \in Req, UnlockInstall(r)
      PROVE  Steps'
  <2>1. Loaded(path[r], file[r], pw[r]) \in Unlocked
    BY <1>4, LoadedFacts DEF UnlockInstall, TypeOK, PlaceInv
  <2>2. TypeOK'
    BY <1>4, <2>1 DEF UnlockInstall, Return, TypeOK, PlaceInv
  <2> QED
    BY <1>4, <2>2, FreeLock DEF UnlockInstall, Return, WriterInv, PlaceInv, Persisting, TypeOK
<1>5. ASSUME NEW r \in Req, UnlockFail(r)
      PROVE  Steps'
  <2>1. CASE UNCHANGED session
    BY <1>5, <2>1 DEF UnlockFail, Return, TypeOK, WriterInv, PlaceInv, Persisting, history
  <2>2. CASE holder = NoReq /\ session' = RateLimited
    BY <1>5, <2>2, FreeLock DEF UnlockFail, Return, TypeOK, WriterInv, PlaceInv, Persisting, history
  <2> QED
    BY <1>5, <2>1, <2>2 DEF UnlockFail
<1>6. ASSUME NEW r \in Req, Mutate(r)
      PROVE  Steps'
  <2>1. session \in Unlocked /\ session' = [session EXCEPT !.changes = @ \cup {r}]
    BY <1>6, UnlockedSession DEF Mutate, Acquire
  <2>2. /\ session' \in Unlocked
        /\ session'.path = session.path
        /\ r \in session'.changes
    BY <2>1, MutatedFacts
  <2>3. session.path \in Paths
    BY <2>1 DEF Unlocked
  <2>4. TypeOK'
    BY <1>6, <2>2, <2>3 DEF Mutate, Acquire, TypeOK, history
  <2>5. \A q \in Req : pc[q] \notin Persisting
    BY <1>6, FreeLock DEF Mutate, Acquire
  <2>6. /\ pc[r] = "idle" /\ holder' = r
        /\ pc' = [pc EXCEPT ![r] = "persist"]
        /\ cmd' = [cmd EXCEPT ![r] = "mutate"]
        /\ path' = [path EXCEPT ![r] = session.path]
        /\ UNCHANGED <<disk, tmp, pw, file, result>>
    BY <1>6 DEF Mutate, Acquire
  <2>7. WriterInv'
    BY <2>2, <2>5, <2>6 DEF TypeOK, WriterInv, Persisting
  <2>8. PlaceInv'
    BY <2>3, <2>5, <2>6 DEF TypeOK, PlaceInv, Persisting
  <2> QED
    BY <2>4, <2>7, <2>8
<1>7. ASSUME NEW r \in Req, NEW old \in Passwords, NEW new \in Passwords,
             ChangePassword(r, old, new)
      PROVE  Steps'
  <2>1. session \in Unlocked /\ session' = Rekeyed(session, DeriveKey(new, r, CurrentKdf))
    BY <1>7, UnlockedSession DEF ChangePassword, Acquire
  <2>2. /\ session' \in Unlocked
        /\ session'.path = session.path
        /\ session'.mk.pw = new
    BY <2>1, RekeyedFacts
  <2>3. session.path \in Paths
    BY <2>1 DEF Unlocked
  <2>4. TypeOK'
    BY <1>7, <2>2, <2>3 DEF ChangePassword, Acquire, TypeOK, history
  <2>5. \A q \in Req : pc[q] \notin Persisting
    BY <1>7, FreeLock DEF ChangePassword, Acquire
  <2>6. /\ pc[r] = "idle" /\ holder' = r
        /\ pc' = [pc EXCEPT ![r] = "persist"]
        /\ cmd' = [cmd EXCEPT ![r] = "change"]
        /\ path' = [path EXCEPT ![r] = session.path]
        /\ pw' = [pw EXCEPT ![r] = new]
        /\ UNCHANGED <<disk, tmp, file, result>>
    BY <1>7 DEF ChangePassword, Acquire
  <2>7. WriterInv'
    BY <2>2, <2>5, <2>6 DEF TypeOK, WriterInv, Persisting
  <2>8. PlaceInv'
    BY <2>3, <2>5, <2>6 DEF TypeOK, PlaceInv, Persisting
  <2> QED
    BY <2>4, <2>7, <2>8
<1>8. ASSUME NEW r \in Req, Refused(r)
      PROVE  Steps'
  BY <1>8, FreeLock DEF Refused, Return, TypeOK, WriterInv, PlaceInv, Persisting, history
<1>9. ASSUME NEW r \in Req, WriteTmpBegin(r)
      PROVE  Steps'
  <2>1. \A q \in Req : q # r => pc[q] \notin Persisting
    BY <1>9, OneWriter DEF WriteTmpBegin, Persisting
  <2> QED
    BY <1>9, <2>1 DEF WriteTmpBegin, TypeOK, WriterInv, PlaceInv, Persisting, history
<1>10. ASSUME NEW r \in Req, WriteTmpEnd(r)
       PROVE  Steps'
  <2>1. \A q \in Req : q # r => pc[q] \notin Persisting
    BY <1>10, OneWriter DEF WriteTmpEnd, Persisting
  <2>2. Image(session) \in VaultFile
    BY <1>10, ImageType DEF WriteTmpEnd, WriterInv, Persisting
  <2> QED
    BY <1>10, <2>1, <2>2 DEF WriteTmpEnd, TypeOK, WriterInv, PlaceInv, Persisting, history
<1>11. ASSUME NEW r \in Req, Rename(r)
       PROVE  Steps'
  <2>1. \A q \in Req : q # r => pc[q] \notin Persisting
    BY <1>11, OneWriter DEF Rename, Persisting
  <2>2. tmp[path[r]] = Image(session) /\ Image(session) \in VaultFile
    BY <1>11, ImageType DEF Rename, WriterInv, PlaceInv, Persisting
  <2> QED
    BY <1>11, <2>1, <2>2 DEF Rename, TypeOK, WriterInv, PlaceInv, Persisting, history
<1>12. ASSUME NEW r \in Req, Reply(r)
       PROVE  Steps'
  <2>1. \A q \in Req : q # r => pc[q] \notin Persisting
    BY <1>12, OneWriter DEF Reply, Persisting
  <2> QED
    BY <1>12, <2>1 DEF Reply, Return, TypeOK, WriterInv, PlaceInv, Persisting
<1>13. ASSUME NEW r \in Req, PersistFails(r)
       PROVE  Steps'
  <2>1. \A q \in Req : q # r => pc[q] \notin Persisting
    BY <1>13, OneWriter DEF PersistFails, Persisting
  <2> QED
    BY <1>13, <2>1 DEF PersistFails, Return, TypeOK, WriterInv, PlaceInv, Persisting, history
<1>14. ASSUME Lock
       PROVE  Steps'
  BY <1>14, FreeLock DEF Lock, TypeOK, WriterInv, PlaceInv, Persisting, history, locals
<1>15. ASSUME Crash
       PROVE  Steps'
  BY <1>15 DEF Crash, TypeOK, WriterInv, PlaceInv, Persisting, history
<1>16. CASE UNCHANGED vars
  BY <1>16 DEF vars, TypeOK, WriterInv, PlaceInv, Image
<1> QED
  BY <1>1, <1>2, <1>3, <1>4, <1>5, <1>6, <1>7, <1>8, <1>9, <1>10, <1>11, <1>12, <1>13,
     <1>14, <1>15, <1>16 DEF Next, Unlock, Step

LEMMA StepsAlways == Spec => []Steps
BY StepsInit, StepsNext, PTL DEF Spec

\* The session, the files and the invocations always have the values they
\* are declared with: in particular the file of every vault is complete.
THEOREM TypeCorrect == Spec => []TypeOK
<1>1. Steps => TypeOK
  BY DEF Steps
<1> QED
  BY <1>1, StepsAlways, PTL
-----------------------------------------------------------------------------
\* Files that are on disk, that an unlock has read, or that the session would
\* be saved as, all open.
Keys ==
    /\ \A p \in Paths : Sound(disk[p])
    /\ SessionSound
    /\ \A r \in Req : pc[r] = "derive" => Sound(file[r])

LEMMA CreatedSound ==
    ASSUME NEW p \in Paths, NEW w \in Passwords, NEW kdf \in Kdfs
    PROVE  Sound(CreatedVault(p, w, kdf))
<1>1. CreatedVault(p, w, kdf) \in VaultFile
  BY CreatedType
<1> QED
  BY <1>1 DEF CreatedVault, Sound, Opens, NewHeader, DeriveKey

LEMMA MutatedSound ==
    ASSUME NEW s \in Unlocked, NEW r \in Req, Sound(Image(s))
    PROVE  Sound(Image([s EXCEPT !.changes = @ \cup {r}]))
<1> DEFINE t == [s EXCEPT !.changes = @ \cup {r}]
<1>1. t \in Unlocked /\ t.mk = s.mk /\ t.vk = s.vk /\ t.header = s.header
  BY MutatedFacts
<1>2. Image(t) \in VaultFile
  BY <1>1, ImageType
<1> HIDE DEF t
<1>3. Sound(Image(t))
  BY <1>1, <1>2 DEF Sound, Opens, Image
<1> QED
  BY <1>3 DEF t

\* A password change leaves no key material of the old master key behind,
\* and the vault name readable.
LEMMA RekeyedSound ==
    ASSUME NEW s \in Unlocked, NEW r \in Req, NEW w \in Passwords, Sound(Image(s))
    PROVE  Sound(Image(Rekeyed(s, DeriveKey(w, r, CurrentKdf))))
<1> DEFINE mk == DeriveKey(w, r, CurrentKdf)
           kept == s.header.name.kept /\ s.header.name.mk = s.mk
           h(b) == [salt |-> mk.salt, kdf |-> CurrentKdf,
                    wrap |-> [mk |-> mk, vk |-> s.vk],
                    pq |-> [mk |-> mk, vk |-> s.vk],
                    name |-> [mk |-> mk, kept |-> b]]
           t == Rekeyed(s, mk)
<1>1. t \in Unlocked /\ t.vk = s.vk /\ t.mk = mk
  BY RekeyedFacts
<1>2. Image(t) \in VaultFile
  BY <1>1, ImageType
<1>3. s.header.name = [mk |-> s.mk, kept |-> TRUE]
  BY DEF Sound, Image
<1>4. t.header = h(TRUE)
  <2>1. kept = TRUE
    <3>1. s.header.name.kept = TRUE /\ s.header.name.mk = s.mk
      BY <1>3
    <3> QED
      BY <3>1
  <2>2. t = [s EXCEPT !.mk = mk, !.header = h(kept)]
    BY DEF Rekeyed
  <2> HIDE DEF mk, kept, h
  <2>3. [s EXCEPT !.mk = mk, !.header = h(kept)].header = h(kept)
    BY DEF Unlocked
  <2> QED
    BY <2>1, <2>2, <2>3
<1>5. mk.pw = w /\ mk.salt = r /\ mk.kdf = CurrentKdf
  BY DEF DeriveKey
<1>6. DeriveKey(w, r, CurrentKdf) = mk
  OBVIOUS
<1> HIDE DEF t, mk, kept
<1>7. /\ Image(t).header = t.header
      /\ Image(t).body.vk = s.vk
      /\ Image(t).mac = mk
  BY <1>1 DEF Image
<1>8. Opens(Image(t), mk.pw)
  BY <1>2, <1>4, <1>5, <1>6, <1>7 DEF Opens
<1>9. Sound(Image(t))
  BY <1>4, <1>7, <1>8 DEF Sound
<1> QED
  BY <1>9 DEF t, mk

LEMMA KeysInit == Init => Keys
<1> SUFFICES ASSUME Init PROVE Keys
  OBVIOUS
<1>1. PICK w \in [Paths -> Passwords], k \in [Paths -> Kdfs] :
        disk = [p \in Paths |-> CreatedVault(p, w[p], k[p])] /\ told = w
  BY DEF Init
<1>2. \A p \in Paths : Sound(disk[p])
  BY <1>1, CreatedSound
<1> QED
  BY <1>2 DEF Init, Keys, SessionSound, IsUnlocked

LEMMA KeysNext == Steps /\ Keys /\ [Next]_vars => Keys'
<1> SUFFICES ASSUME Steps, Keys, [Next]_vars PROVE Keys'
  OBVIOUS
<1>1. ASSUME UNCHANGED <<disk, session>>, \A r \in Req : pc'[r] = "derive" => Sound(file'[r])
      PROVE  Keys'
  BY <1>1 DEF Keys, SessionSound, IsUnlocked, Sound, Opens, Image
<1>2. ASSUME UNCHANGED disk, session' \in {Locked, RateLimited},
             \A r \in Req : pc'[r] = "derive" => Sound(file'[r])
      PROVE  Keys'
  BY <1>2 DEF Keys, SessionSound, IsUnlocked
<1>3. ASSUME NEW r \in Req, NEW p \in Paths, NEW w \in Passwords, UnlockStart(r, p, w)
      PROVE  Keys'
  BY <1>1, <1>3 DEF UnlockStart, Keys, Steps, TypeOK
<1>4. ASSUME NEW r \in Req, UnlockRefused(r)
      PROVE  Keys'
  BY <1>1, <1>2, <1>4 DEF UnlockRefused, Return, Keys, Steps, TypeOK
<1>5. ASSUME NEW r \in Req, UnlockRead(r)
      PROVE  Keys'
  <2>1. Sound(disk[path[r]])
    BY <1>5 DEF UnlockRead, Keys, Steps, PlaceInv
  <2> QED
    BY <1>1, <1>5, <2>1 DEF UnlockRead, Keys, Steps, TypeOK
<1>6. ASSUME NEW r \in Req, UnlockInstall(r)
      PROVE  Keys'
  <2>1. Image(Loaded(path[r], file[r], pw[r])) = file[r]
    BY <1>6, LoadedFacts DEF UnlockInstall, Steps, TypeOK, PlaceInv
  <2>2. Sound(file[r])
    BY <1>6 DEF UnlockInstall, Keys
  <2>3. Sound(Image(session'))
    BY <1>6, <2>1, <2>2 DEF UnlockInstall
  <2>4. SessionSound'
    BY <2>3 DEF SessionSound, Sound, Opens, Image
  <2> QED
    BY <1>6, <2>4 DEF UnlockInstall, Return, Keys, Steps, TypeOK
<1>7. ASSUME NEW r \in Req, UnlockFail(r)
      PROVE  Keys'
  BY <1>1, <1>2, <1>7 DEF UnlockFail, Return, Keys, Steps, TypeOK
<1>8. ASSUME NEW r \in Req, Mutate(r)
      PROVE  Keys'
  <2>1. /\ session \in Unlocked /\ session' = [session EXCEPT !.changes = @ \cup {r}]
        /\ Sound(Image(session))
    BY <1>8, UnlockedSession DEF Mutate, Acquire, Keys, SessionSound
  <2>2. Sound(Image(session'))
    BY <2>1, MutatedSound
  <2>3. /\ UNCHANGED <<disk, file>>
        /\ pc' = [pc EXCEPT ![r] = "persist"]
    BY <1>8 DEF Mutate, Acquire
  <2> QED
    BY <2>2, <2>3 DEF Keys, SessionSound, Steps, TypeOK
<1>9. ASSUME NEW r \in Req, NEW old \in Passwords, NEW new \in Passwords,
             ChangePassword(r, old, new)
      PROVE  Keys'
  <2>1. /\ session \in Unlocked /\ session' = Rekeyed(session, DeriveKey(new, r, CurrentKdf))
        /\ Sound(Image(session))
    BY <1>9, UnlockedSession DEF ChangePassword, Acquire, Keys, SessionSound
  <2>2. Sound(Image(session'))
    BY <2>1, RekeyedSound
  <2>3. /\ UNCHANGED <<disk, file>>
        /\ pc' = [pc EXCEPT ![r] = "persist"]
    BY <1>9 DEF ChangePassword, Acquire
  <2> QED
    BY <2>2, <2>3 DEF Keys, SessionSound, Steps, TypeOK
<1>10. ASSUME NEW r \in Req, Refused(r)
       PROVE  Keys'
  BY <1>1, <1>2, <1>10 DEF Refused, Return, Keys, Steps, TypeOK
<1>11. ASSUME NEW r \in Req, WriteTmpBegin(r)
       PROVE  Keys'
  BY <1>1, <1>11 DEF WriteTmpBegin, Keys, Steps, TypeOK
<1>12. ASSUME NEW r \in Req, WriteTmpEnd(r)
       PROVE  Keys'
  BY <1>1, <1>12 DEF WriteTmpEnd, Keys, Steps, TypeOK
<1>13. ASSUME NEW r \in Req, Rename(r)
       PROVE  Keys'
  <2>1. tmp[path[r]] = Image(session) /\ IsUnlocked
    BY <1>13, SessionAssumption DEF Rename, Steps, PlaceInv, WriterInv, Persisting, IsUnlocked
  <2>2. Sound(tmp[path[r]])
    BY <2>1 DEF Keys, SessionSound
  <2>3. \A p \in Paths : Sound(disk'[p])
    BY <1>13, <2>2 DEF Rename, Keys, Steps, TypeOK
  <2>4. SessionSound'
    BY <1>13 DEF Rename, Keys, SessionSound, IsUnlocked, Image
  <2> QED
    BY <1>13, <2>3, <2>4 DEF Rename, Keys, Steps, TypeOK
<1>14. ASSUME NEW r \in Req, Reply(r)
       PROVE  Keys'
  BY <1>1, <1>14 DEF Reply, Return, Keys, Steps, TypeOK
<1>15. ASSUME NEW r \in Req, PersistFails(r)
       PROVE  Keys'
  BY <1>1, <1>15 DEF PersistFails, Return, Keys, Steps, TypeOK
<1>16. ASSUME Lock
       PROVE  Keys'
  BY <1>2, <1>16 DEF Lock, locals, Keys
<1>17. ASSUME Crash
       PROVE  Keys'
  BY <1>2, <1>17 DEF Crash, Keys
<1>18. CASE UNCHANGED vars
  BY <1>1, <1>18 DEF vars, Keys
<1> QED
  BY <1>3, <1>4, <1>5, <1>6, <1>7, <1>8, <1>9, <1>10, <1>11, <1>12, <1>13, <1>14, <1>15,
     <1>16, <1>17, <1>18 DEF Next, Unlock, Step

LEMMA KeysAlways == Spec => []Keys
BY KeysInit, KeysNext, StepsAlways, PTL DEF Spec

\* Whatever a save was interrupted by, every vault file is complete and all
\* its key material belongs to one master key.
THEOREM DiskAlwaysSound == Spec => []DiskSound
<1>1. Steps /\ Keys => DiskSound
  BY DEF Steps, TypeOK, Keys, DiskSound
<1> QED
  BY <1>1, StepsAlways, KeysAlways, PTL

\* What the session would be saved as opens, also after a failed save.
THEOREM SessionAlwaysSound == Spec => []SessionSound
<1>1. Keys => SessionSound
  BY DEF Keys
<1> QED
  BY <1>1, KeysAlways, PTL
-----------------------------------------------------------------------------
\* The session on a vault includes what its file includes.
KeptInv ==
    IsUnlocked /\ session.path \notin stale =>
        disk[session.path].body.changes \subseteq session.changes

\* A change that only the session has belongs to the invocation that is
\* saving it, or to one that was told that its save had failed.
UnsavedInv ==
    IsUnlocked /\ session.path \notin stale =>
        \A r \in session.changes \ disk[session.path].body.changes :
            result[r] = "persist_failed" \/ r = holder

Changes == KeptInv /\ UnsavedInv /\ AckedOnDisk

LEMMA ChangesInit == Init => Changes
BY DEF Init, Changes, KeptInv, UnsavedInv, AckedOnDisk, IsUnlocked

\* Steps that move neither files nor session and end no save.
LEMMA ChangesFrame ==
    ASSUME Steps, Changes, UNCHANGED <<disk, stale, holder>>,
           \/ UNCHANGED session
           \/ session' \in {Locked, RateLimited},
           NEW r \in Req, result[r] = "none",
           \A q \in Req : q # r => UNCHANGED <<cmd[q], path[q], result[q]>>,
           cmd'[r] # "mutate" \/ result'[r] # "ok"
    PROVE  Changes'
<1>1. CASE UNCHANGED session
  <2>1. IsUnlocked' = IsUnlocked
    BY <1>1 DEF IsUnlocked
  <2>2. KeptInv'
    BY <1>1, <2>1 DEF Changes, KeptInv
  <2>3. UnsavedInv'
    <3> SUFFICES ASSUME IsUnlocked, session.path \notin stale,
                        NEW q \in session.changes \ disk[session.path].body.changes
                 PROVE  result'[q] = "persist_failed" \/ q = holder
      BY <1>1, <2>1 DEF UnsavedInv
    <3>1. result[q] = "persist_failed" \/ q = holder
      BY DEF Changes, UnsavedInv
    <3>2. q \in Req
      BY UnlockedSession DEF Unlocked
    <3> QED
      BY <3>1, <3>2
  <2>4. AckedOnDisk'
    BY <1>1, <2>1 DEF Changes, AckedOnDisk
  <2> QED
    BY <2>2, <2>3, <2>4 DEF Changes
<1>2. CASE session' \in {Locked, RateLimited}
  BY <1>2 DEF Changes, KeptInv, UnsavedInv, AckedOnDisk, IsUnlocked
<1> QED
  BY <1>1, <1>2

\* An invocation takes the lock and edits the session.
LEMMA ChangesEdit ==
    ASSUME Steps, Changes, NEW r \in Req,
           session \in Unlocked, session' \in Unlocked, session'.path = session.path,
           session'.changes \in {session.changes, session.changes \cup {r}},
           IsUnlocked, holder = NoReq, holder' = r, result[r] = "none",
           UNCHANGED <<disk, result, stale>>,
           \A q \in Req : q # r => UNCHANGED <<cmd[q], path[q]>>
    PROVE  Changes'
<1>1. KeptInv'
  BY DEF Changes, KeptInv
<1>2. UnsavedInv'
  <2> SUFFICES ASSUME session.path \notin stale,
                      NEW q \in session'.changes \ disk[session.path].body.changes
               PROVE  result[q] = "persist_failed" \/ q = r
    BY DEF UnsavedInv
  <2>1. q \in session.changes \/ q = r
    OBVIOUS
  <2>2. q \in session.changes => q \in Req
    BY DEF Unlocked
  <2> QED
    BY <2>1, <2>2, SessionAssumption DEF Changes, UnsavedInv
<1>3. AckedOnDisk'
  BY DEF Changes, AckedOnDisk
<1> QED
  BY <1>1, <1>2, <1>3 DEF Changes

LEMMA ChangesNext == Steps /\ Changes /\ [Next]_vars => Changes'
<1> SUFFICES ASSUME Steps, Changes, [Next]_vars PROVE Changes'
  OBVIOUS
<1>1. ASSUME NEW r \in Req, NEW p \in Paths, NEW w \in Passwords, UnlockStart(r, p, w)
      PROVE  Changes'
  <2>1. result[r] = "none"
    BY <1>1 DEF UnlockStart, Steps, PlaceInv
  <2> QED
    BY <1>1, <2>1, ChangesFrame DEF UnlockStart, history, Steps, TypeOK
<1>2. ASSUME NEW r \in Req, UnlockRefused(r)
      PROVE  Changes'
  <2>1. result[r] = "none" 
    BY <1>2 DEF UnlockRefused, Steps, PlaceInv
  <2> QED
    BY <1>2, <2>1, ChangesFrame DEF UnlockRefused, Return, history, Steps, TypeOK
<1>3. ASSUME NEW r \in Req, UnlockRead(r)
      PROVE  Changes'
  <2>1. result[r] = "none"
    BY <1>3 DEF UnlockRead, Steps, PlaceInv
  <2>2. cmd[r] = "unlock"
    BY <1>3 DEF UnlockRead, Steps, PlaceInv
  <2> QED
    BY <1>3, <2>1, <2>2, ChangesFrame DEF UnlockRead, history
<1>4. ASSUME NEW r \in Req, UnlockInstall(r)
      PROVE  Changes'
  <2> DEFINE f == file[r]
             p == path[r]
  <2>1. /\ session' \in Unlocked
        /\ session'.path = p
        /\ session'.changes = f.body.changes
    BY <1>4, LoadedFacts DEF UnlockInstall, Steps, TypeOK, PlaceInv
  <2>2. /\ UNCHANGED <<disk, cmd, path>>
        /\ stale' = IF f = disk[p] THEN stale ELSE stale \cup {p}
        /\ result' = [result EXCEPT ![r] = "ok"]
        /\ cmd[r] = "unlock"
    BY <1>4 DEF UnlockInstall, Return, Steps, PlaceInv
  <2>3. p \notin stale' => f = disk[p] /\ p \notin stale
    BY <2>2
  <2>4. KeptInv' /\ UnsavedInv'
    BY <2>1, <2>2, <2>3 DEF KeptInv, UnsavedInv
  <2>5. AckedOnDisk'
    <3> SUFFICES ASSUME NEW q \in Req, cmd[q] = "mutate", result'[q] = "ok",
                        path[q] \notin stale'
                 PROVE  /\ q \in disk[path[q]].body.changes
                        /\ session'.path = path[q] => q \in session'.changes
      BY <2>2 DEF AckedOnDisk
    <3>1. q # r /\ result[q] = "ok"
      BY <2>2 DEF Steps, TypeOK
    <3>2. path[q] \notin stale
      BY <2>2
    <3>3. q \in disk[path[q]].body.changes
      BY <3>1, <3>2 DEF Changes, AckedOnDisk
    <3> QED
      BY <2>1, <2>3, <3>3
  <2> QED
    BY <2>4, <2>5 DEF Changes
<1>5. ASSUME NEW r \in Req, UnlockFail(r)
      PROVE  Changes'
  <2>1. result[r] = "none"
    BY <1>5 DEF UnlockFail, Steps, PlaceInv
  <2> QED
    BY <1>5, <2>1, ChangesFrame DEF UnlockFail, Return, history, Steps, TypeOK
<1>6. ASSUME NEW r \in Req, Mutate(r)
      PROVE  Changes'
  <2>1. session \in Unlocked /\ session' = [session EXCEPT !.changes = @ \cup {r}]
    BY <1>6, UnlockedSession DEF Mutate, Acquire
  <2>2. /\ session' \in Unlocked
        /\ session'.path = session.path
        /\ session'.changes = session.changes \cup {r}
    BY <2>1, MutatedFacts
  <2>3. /\ IsUnlocked /\ holder = NoReq /\ holder' = r
        /\ UNCHANGED <<disk, result, stale>>
        /\ result[r] = "none"
        /\ \A q \in Req : q # r => UNCHANGED <<cmd[q], path[q]>>
    BY <1>6 DEF Mutate, Acquire, history, Steps, TypeOK, PlaceInv
  <2> QED
    BY <2>1, <2>2, <2>3, ChangesEdit
<1>7. ASSUME NEW r \in Req, NEW old \in Passwords, NEW new \in Passwords,
             ChangePassword(r, old, new)
      PROVE  Changes'
  <2>1. session \in Unlocked /\ session' = Rekeyed(session, DeriveKey(new, r, CurrentKdf))
    BY <1>7, UnlockedSession DEF ChangePassword, Acquire
  <2>2. /\ session' \in Unlocked
        /\ session'.path = session.path
        /\ session'.changes = session.changes
    BY <2>1, RekeyedFacts
  <2>3. /\ IsUnlocked /\ holder = NoReq /\ holder' = r
        /\ UNCHANGED <<disk, result, stale>>
        /\ result[r] = "none"
        /\ \A q \in Req : q # r => UNCHANGED <<cmd[q], path[q]>>
    BY <1>7 DEF ChangePassword, Acquire, history, Steps, TypeOK, PlaceInv
  <2> QED
    BY <2>1, <2>2, <2>3, ChangesEdit
<1>8. ASSUME NEW r \in Req, Refused(r)
      PROVE  Changes'
  <2>1. result[r] = "none"
    BY <1>8 DEF Refused, Steps, PlaceInv
  <2> QED
    BY <1>8, <2>1, ChangesFrame DEF Refused, Return, history, Steps, TypeOK
<1>9. ASSUME NEW r \in Req, WriteTmpBegin(r) \/ WriteTmpEnd(r)
      PROVE  Changes'
  <2>1. result[r] = "none"
    BY <1>9 DEF WriteTmpBegin, WriteTmpEnd, Steps, PlaceInv
  <2> QED
    BY <1>9, <2>1, ChangesFrame DEF WriteTmpBegin, WriteTmpEnd, history
<1>10. ASSUME NEW r \in Req, Rename(r)
       PROVE  Changes'
  <2>1. /\ session \in Unlocked /\ path[r] = session.path /\ session.path \in Paths
        /\ tmp[path[r]] = Image(session)
    BY <1>10 DEF Rename, Steps, PlaceInv, WriterInv, Persisting
  <2>2. disk' = [disk EXCEPT ![session.path] = Image(session)]
    BY <1>10, <2>1 DEF Rename
  <2>3. disk'[session.path].body.changes = session.changes
    BY <2>1, <2>2 DEF Steps, TypeOK, Image
  <2>4. UNCHANGED <<session, stale, cmd, path, result>>
    BY <1>10 DEF Rename, history
  <2>5. KeptInv' /\ UnsavedInv'
    BY <2>3, <2>4 DEF KeptInv, UnsavedInv
  <2>6. AckedOnDisk'
    <3> SUFFICES ASSUME NEW q \in Req, cmd[q] = "mutate", result[q] = "ok",
                        path[q] \notin stale
                 PROVE  q \in disk'[path[q]].body.changes
      BY <2>4 DEF Changes, AckedOnDisk, IsUnlocked
    <3>1. IsUnlocked
      BY <2>1, SessionAssumption DEF IsUnlocked
    <3>2. CASE path[q] = session.path
      BY <2>3, <3>1, <3>2 DEF Changes, AckedOnDisk
    <3>3. CASE path[q] # session.path
      BY <2>2, <3>3 DEF Changes, AckedOnDisk, Steps, TypeOK
    <3> QED
      BY <3>2, <3>3
  <2> QED
    BY <2>5, <2>6 DEF Changes
<1>11. ASSUME NEW r \in Req, Reply(r)
       PROVE  Changes'
  <2>1. /\ session \in Unlocked /\ path[r] = session.path
        /\ disk[session.path] = Image(session)
        /\ cmd[r] = "mutate" => r \in session.changes
    BY <1>11 DEF Reply, Steps, PlaceInv, WriterInv, Persisting
  <2>2. disk[session.path].body.changes = session.changes
    BY <2>1 DEF Image
  <2>3. /\ UNCHANGED <<disk, session, stale, cmd, path>>
        /\ result' = [result EXCEPT ![r] = "ok"]
    BY <1>11 DEF Reply, Return
  <2>4. KeptInv' /\ UnsavedInv'
    BY <2>2, <2>3 DEF KeptInv, UnsavedInv
  <2>5. AckedOnDisk'
    <3> SUFFICES ASSUME NEW q \in Req, cmd[q] = "mutate", result'[q] = "ok",
                        path[q] \notin stale
                 PROVE  /\ q \in disk[path[q]].body.changes
                        /\ IsUnlocked /\ session.path = path[q] => q \in session.changes
      BY <2>3 DEF AckedOnDisk, IsUnlocked
    <3>1. CASE q = r
      BY <2>1, <2>2, <3>1
    <3>2. CASE q # r
      BY <2>3, <3>2 DEF Changes, AckedOnDisk, Steps, TypeOK
    <3> QED
      BY <3>1, <3>2
  <2> QED
    BY <2>4, <2>5 DEF Changes
<1>12. ASSUME NEW r \in Req, PersistFails(r)
       PROVE  Changes'
  <2>1. /\ UNCHANGED <<disk, session, stale, cmd, path>>
        /\ result' = [result EXCEPT ![r] = "persist_failed"]
        /\ holder = r /\ holder' = NoReq
    BY <1>12 DEF PersistFails, Return, history, Steps, WriterInv, Persisting
  <2>2. KeptInv' /\ AckedOnDisk'
    BY <2>1 DEF Changes, KeptInv, AckedOnDisk, IsUnlocked, Steps, TypeOK
  <2>3. UnsavedInv'
    <3> SUFFICES ASSUME IsUnlocked, session.path \notin stale,
                        NEW q \in session.changes \ disk[session.path].body.changes
                 PROVE  result'[q] = "persist_failed"
      BY <2>1 DEF UnsavedInv, IsUnlocked
    <3>1. result[q] = "persist_failed" \/ q = r
      BY <2>1 DEF Changes, UnsavedInv
    <3>2. q \in Req
      BY UnlockedSession DEF Unlocked
    <3> QED
      BY <2>1, <3>1, <3>2 DEF Steps, TypeOK
  <2> QED
    BY <2>2, <2>3 DEF Changes
<1>13. ASSUME Lock
       PROVE  Changes'
  BY <1>13 DEF Lock, locals, history, Changes, KeptInv, UnsavedInv, AckedOnDisk, IsUnlocked
<1>14. ASSUME Crash
       PROVE  Changes'
  BY <1>14 DEF Crash, history, Changes, KeptInv, UnsavedInv, AckedOnDisk, IsUnlocked,
               Steps, TypeOK
<1>15. CASE UNCHANGED vars
  BY <1>15 DEF vars, Changes, KeptInv, UnsavedInv, AckedOnDisk, IsUnlocked
<1> QED
  BY <1>1, <1>2, <1>3, <1>4, <1>5, <1>6, <1>7, <1>8, <1>9, <1>10, <1>11, <1>12, <1>13,
     <1>14, <1>15 DEF Next, Unlock, Step

LEMMA ChangesAlways == Spec => []Changes
BY ChangesInit, ChangesNext, StepsAlways, PTL DEF Spec

\* A change that was reported Ok stays in the vault file and in the session.
THEOREM AckedAlwaysOnDisk == Spec => []AckedOnDisk
<1>1. Changes => AckedOnDisk
  BY DEF Changes
<1> QED
  BY <1>1, ChangesAlways, PTL

\* What only the session has was reported as not saved.
THEOREM UnsavedAlwaysReported == Spec => []UnsavedIsReported
<1>1. Steps /\ Changes => UnsavedIsReported
  <2> SUFFICES ASSUME Steps, Changes, holder = NoReq, IsUnlocked, session.path \notin stale,
                      NEW r \in session.changes \ disk[session.path].body.changes
               PROVE  result[r] = "persist_failed"
    BY DEF UnsavedIsReported
  <2>1. r \in Req
    BY UnlockedSession DEF Unlocked
  <2> QED
    BY <2>1, SessionAssumption DEF Changes, UnsavedInv
<1> QED
  BY <1>1, StepsAlways, ChangesAlways, PTL
-----------------------------------------------------------------------------
\* Password w of vault p is explained: it was last reported as set, or it is
\* the one of a change at one of the places `at', or without an Ok.
Explained(p, w, at) ==
    \/ told[p] = w
    \/ \E r \in Req : /\ cmd[r] = "change" /\ path[r] = p /\ pw[r] = w
                      /\ pc[r] \in at \/ result[r] \in {"persist_failed", "lost"}

\* The password the file opens with, and the one the session was keyed from.
DiskExplained == \A p \in Paths \ stale : Explained(p, disk[p].mac.pw, {"reply"})
SessionExplained ==
    IsUnlocked /\ session.path \notin stale =>
        Explained(session.path, session.mk.pw, Persisting)

Explanations == DiskExplained /\ SessionExplained

LEMMA ExplanationsInit == Init => Explanations
<1> SUFFICES ASSUME Init PROVE Explanations
  OBVIOUS
<1>1. PICK w \in [Paths -> Passwords], k \in [Paths -> Kdfs] :
        disk = [p \in Paths |-> CreatedVault(p, w[p], k[p])] /\ told = w
  BY DEF Init
<1>2. \A p \in Paths : disk[p].mac.pw = told[p]
  BY <1>1 DEF CreatedVault, DeriveKey
<1> QED
  BY <1>2 DEF Init, Explanations, DiskExplained, SessionExplained, Explained, IsUnlocked

\* What a step other than Reply keeps: nobody is told a password, a change
\* stays under the lock, or where it is in it, until it fails or is lost,
\* and what failed stays failed.
Carries ==
    /\ UNCHANGED told
    /\ \A r \in Req : cmd[r] = "change" =>
          /\ pc[r] \in Persisting \/ result[r] \in {"persist_failed", "lost"} =>
                 UNCHANGED <<cmd[r], path[r], pw[r]>>
          /\ result[r] \in {"persist_failed", "lost"} => UNCHANGED result[r]
          /\ pc[r] \in Persisting => \/ pc'[r] \in Persisting
                                     \/ result'[r] \in {"persist_failed", "lost"}
          /\ pc[r] = "reply" => \/ pc'[r] = "reply"
                                \/ result'[r] \in {"persist_failed", "lost"}

LEMMA StillExplained ==
    ASSUME NEW p, NEW w, Carries
    PROVE  /\ Explained(p, w, {"reply"}) => Explained(p, w, {"reply"})'
           /\ Explained(p, w, Persisting) => Explained(p, w, Persisting)'
BY DEF Carries, Explained, Persisting

LEMMA MoreExplained ==
    ASSUME NEW p, NEW w, Explained(p, w, {"reply"})
    PROVE  Explained(p, w, Persisting)
BY DEF Explained, Persisting

\* The explanations hold after a step that carries them and leaves the files
\* and the keys of the session alone, or the session locked.
LEMMA ExplanationsFrame ==
    ASSUME Explanations, Carries, UNCHANGED <<disk, stale>>,
           \/ UNCHANGED session
           \/ IsUnlocked /\ session'.path = session.path /\ session'.mk = session.mk
           \/ session' \in {Locked, RateLimited}
    PROVE  Explanations'
<1>1. DiskExplained'
  BY StillExplained DEF Explanations, DiskExplained
<1>2. SessionExplained'
  BY StillExplained DEF Explanations, SessionExplained, IsUnlocked
<1> QED
  BY <1>1, <1>2 DEF Explanations

LEMMA ExplanationsNext == Steps /\ Explanations /\ [Next]_vars => Explanations'
<1> SUFFICES ASSUME Steps, Explanations, [Next]_vars PROVE Explanations'
  OBVIOUS
<1>1. ASSUME NEW r \in Req, NEW p \in Paths, NEW w \in Passwords, UnlockStart(r, p, w)
      PROVE  Explanations'
  <2>1. Carries
    BY <1>1 DEF UnlockStart, history, Carries, Steps, TypeOK, PlaceInv, Persisting
  <2> QED
    BY <1>1, <2>1, ExplanationsFrame DEF UnlockStart, history
<1>2. ASSUME NEW r \in Req, UnlockRefused(r)
      PROVE  Explanations'
  <2>1. Carries
    BY <1>2 DEF UnlockRefused, Return, history, Carries, Steps, TypeOK, PlaceInv, Persisting
  <2> QED
    BY <1>2, <2>1, ExplanationsFrame DEF UnlockRefused, history
<1>3. ASSUME NEW r \in Req, UnlockRead(r)
      PROVE  Explanations'
  <2>1. Carries
    BY <1>3 DEF UnlockRead, history, Carries, Steps, TypeOK, PlaceInv, Persisting
  <2> QED
    BY <1>3, <2>1, ExplanationsFrame DEF UnlockRead, history
<1>4. ASSUME NEW r \in Req, UnlockInstall(r)
      PROVE  Explanations'
  <2> DEFINE p == path[r]
             f == file[r]
  <2>1. Carries
    BY <1>4 DEF UnlockInstall, Return, Carries, Steps, TypeOK, PlaceInv, Persisting
  <2>2. /\ session'.path = p /\ p \in Paths
        /\ session'.mk = f.mac
    BY <1>4, LoadedFacts DEF UnlockInstall, Steps, TypeOK, PlaceInv
  <2>3. /\ UNCHANGED disk
        /\ stale' = IF f = disk[p] THEN stale ELSE stale \cup {p}
    BY <1>4 DEF UnlockInstall
  <2>4. DiskExplained'
    BY <2>1, <2>3, StillExplained DEF Explanations, DiskExplained
  <2>5. SessionExplained'
    <3> SUFFICES ASSUME NEW q, NEW w, q = p, w = f.mac.pw, q \notin stale'
                 PROVE  Explained(q, w, Persisting)'
      BY <2>2 DEF SessionExplained, Explained
    <3>1. f = disk[q] /\ q \in Paths \ stale
      BY <2>2, <2>3
    <3>2. Explained(q, w, {"reply"})
      BY <3>1 DEF Explanations, DiskExplained
    <3> QED
      BY <3>2, <2>1, MoreExplained, StillExplained
  <2> QED
    BY <2>4, <2>5 DEF Explanations
<1>5. ASSUME NEW r \in Req, UnlockFail(r)
      PROVE  Explanations'
  <2>1. Carries
    BY <1>5 DEF UnlockFail, Return, history, Carries, Steps, TypeOK, PlaceInv, Persisting
  <2> QED
    BY <1>5, <2>1, ExplanationsFrame DEF UnlockFail, history
<1>6. ASSUME NEW r \in Req, Mutate(r)
      PROVE  Explanations'
  <2>1. /\ pc[r] = "idle" /\ result[r] = "none"
        /\ UNCHANGED <<disk, pw, result, told, stale>>
        /\ pc' = [pc EXCEPT ![r] = "persist"]
        /\ cmd' = [cmd EXCEPT ![r] = "mutate"]
        /\ path' = [path EXCEPT ![r] = session.path]
    BY <1>6 DEF Mutate, Acquire, history, Steps, PlaceInv
  <2>2. Carries
    BY <2>1 DEF Carries, Steps, TypeOK, Persisting
  <2>3. IsUnlocked /\ session'.path = session.path /\ session'.mk = session.mk
    <3>1. /\ IsUnlocked /\ session \in Unlocked
          /\ session' = [session EXCEPT !.changes = @ \cup {r}]
      BY <1>6, UnlockedSession DEF Mutate, Acquire
    <3> QED
      BY <3>1, MutatedFacts
  <2> QED
    BY <2>1, <2>2, <2>3, ExplanationsFrame
<1>7. ASSUME NEW r \in Req, NEW old \in Passwords, NEW new \in Passwords,
             ChangePassword(r, old, new)
      PROVE  Explanations'
  <2>1. /\ pc[r] = "idle" /\ result[r] = "none"
        /\ UNCHANGED <<disk, result, told, stale>>
        /\ pc' = [pc EXCEPT ![r] = "persist"]
        /\ cmd' = [cmd EXCEPT ![r] = "change"]
        /\ path' = [path EXCEPT ![r] = session.path]
        /\ pw' = [pw EXCEPT ![r] = new]
    BY <1>7 DEF ChangePassword, Acquire, history, Steps, PlaceInv
  <2>2. Carries
    BY <2>1 DEF Carries, Steps, TypeOK, Persisting
  <2>3. session'.path = session.path /\ session'.mk.pw = new
    <3>1. /\ session \in Unlocked
          /\ session' = Rekeyed(session, DeriveKey(new, r, CurrentKdf))
      BY <1>7, UnlockedSession DEF ChangePassword, Acquire
    <3> QED
      BY <3>1, RekeyedFacts
  <2>4. ASSUME NEW p, p = session.path
        PROVE  Explained(p, new, Persisting)'
    BY <2>1, <2>4 DEF Explained, Persisting, Steps, TypeOK
  <2>5. DiskExplained'
    BY <2>1, <2>2, StillExplained DEF Explanations, DiskExplained
  <2>6. SessionExplained'
    BY <2>3, <2>4 DEF SessionExplained, Explained
  <2> QED
    BY <2>5, <2>6 DEF Explanations
<1>8. ASSUME NEW r \in Req, Refused(r)
      PROVE  Explanations'
  <2>1. Carries
    BY <1>8 DEF Refused, Return, history, Carries, Steps, TypeOK, PlaceInv, Persisting
  <2> QED
    BY <1>8, <2>1, ExplanationsFrame DEF Refused, history
<1>9. ASSUME NEW r \in Req, WriteTmpBegin(r) \/ WriteTmpEnd(r)
      PROVE  Explanations'
  <2>1. Carries
    BY <1>9 DEF WriteTmpBegin, WriteTmpEnd, history, Carries, Steps, TypeOK, PlaceInv, Persisting
  <2> QED
    BY <1>9, <2>1, ExplanationsFrame DEF WriteTmpBegin, WriteTmpEnd, history
<1>10. ASSUME NEW r \in Req, Rename(r)
       PROVE  Explanations'
  <2>1. /\ IsUnlocked /\ path[r] = session.path /\ pc[r] = "rename"
        /\ disk' = [disk EXCEPT ![session.path] = Image(session)]
    BY <1>10, SessionAssumption
       DEF Rename, Steps, PlaceInv, WriterInv, Persisting, IsUnlocked
  <2>2. /\ UNCHANGED <<session, cmd, path, pw, result, told, stale>>
        /\ pc' = [pc EXCEPT ![r] = "reply"]
    BY <1>10 DEF Rename, history
  <2>3. Carries
    BY <2>1, <2>2 DEF Carries, Steps, TypeOK, Persisting
  <2>4. SessionExplained'
    BY <2>2, <2>3, StillExplained DEF Explanations, SessionExplained, IsUnlocked
  <2>5. DiskExplained'
    <3> SUFFICES ASSUME NEW p \in Paths \ stale
                 PROVE  \A w : w = disk'[p].mac.pw => Explained(p, w, {"reply"})'
      BY <2>2 DEF DiskExplained, Explained
    <3> TAKE w
    <3> HAVE w = disk'[p].mac.pw
    <3>1. CASE p # session.path
      BY <2>1, <2>3, <3>1, StillExplained DEF Explanations, DiskExplained, Steps, TypeOK
    <3>2. CASE p = session.path
      <4>1. w = session.mk.pw
        BY <2>1, <3>2 DEF Image, Steps, TypeOK
      <4>2. Explained(p, w, Persisting)
        BY <2>1, <3>2, <4>1 DEF Explanations, SessionExplained
      <4>3. \A q \in Req : pc[q] \in Persisting => q = r
        BY <2>1, OneWriter DEF Persisting
      <4> QED
        BY <2>2, <4>2, <4>3 DEF Explained, Steps, TypeOK
    <3> QED
      BY <3>1, <3>2
  <2> QED
    BY <2>4, <2>5 DEF Explanations
<1>11. ASSUME NEW r \in Req, Reply(r)
       PROVE  Explanations'
  <2>1. /\ pc[r] = "reply" /\ path[r] = session.path /\ result[r] = "none"
        /\ disk[session.path] = Image(session) /\ path[r] \in Paths
        /\ cmd[r] \in {"mutate", "change"}
        /\ cmd[r] = "change" => pw[r] = session.mk.pw
    BY <1>11 DEF Reply, Steps, PlaceInv, WriterInv, Persisting
  <2>2. /\ UNCHANGED <<disk, session, cmd, path, pw, stale>>
        /\ told' = IF cmd[r] = "change" THEN [told EXCEPT ![path[r]] = pw[r]] ELSE told
        /\ result' = [result EXCEPT ![r] = "ok"]
    BY <1>11 DEF Reply, Return
  <2>3. disk[session.path].mac.pw = session.mk.pw
    BY <2>1 DEF Image
  <2>4. \A q \in Req : pc[q] \in Persisting => q = r
    BY <2>1, OneWriter DEF Persisting
  <2>5. ASSUME NEW p \in Paths, NEW w, NEW at \in {{"reply"}, Persisting},
               Explained(p, w, at), p # session.path \/ cmd[r] = "mutate"
        PROVE  Explained(p, w, {})'
    BY <2>1, <2>2, <2>4, <2>5 DEF Explained, Steps, TypeOK, Persisting
  <2>6. ASSUME NEW p, NEW w, NEW at, Explained(p, w, {})'
        PROVE  Explained(p, w, at)'
    BY <2>6 DEF Explained
  <2>7. ASSUME cmd[r] = "change", NEW p, NEW w, p = session.path, w = session.mk.pw
        PROVE  Explained(p, w, {})'
    BY <2>1, <2>2, <2>7 DEF Explained, Steps, TypeOK
  <2>8. DiskExplained'
    <3> SUFFICES ASSUME NEW p \in Paths \ stale
                 PROVE  \A w : w = disk[p].mac.pw => Explained(p, w, {})'
      BY <2>2, <2>6 DEF DiskExplained, Explained
    <3> TAKE w
    <3> HAVE w = disk[p].mac.pw
    <3>1. Explained(p, w, {"reply"})
      BY DEF Explanations, DiskExplained
    <3> QED
      BY <2>1, <2>3, <2>5, <2>7, <3>1
  <2>9. SessionExplained'
    <3> SUFFICES ASSUME IsUnlocked, session.path \notin stale, NEW p, NEW w,
                        p = session.path, w = session.mk.pw
                 PROVE  Explained(p, w, {})'
      BY <2>2, <2>6 DEF SessionExplained, Explained, IsUnlocked
    <3>1. Explained(p, w, Persisting)
      BY DEF Explanations, SessionExplained
    <3> QED
      BY <2>1, <2>5, <2>7, <3>1
  <2> QED
    BY <2>8, <2>9 DEF Explanations
<1>12. ASSUME NEW r \in Req, PersistFails(r)
       PROVE  Explanations'
  <2>1. Carries
    BY <1>12 DEF PersistFails, Return, history, Carries, Steps, TypeOK, PlaceInv, Persisting
  <2> QED
    BY <1>12, <2>1, ExplanationsFrame DEF PersistFails, history
<1>13. ASSUME Lock
       PROVE  Explanations'
  <2>1. Carries
    BY <1>13 DEF Lock, locals, history, Carries
  <2> QED
    BY <1>13, <2>1, ExplanationsFrame DEF Lock, history
<1>14. ASSUME Crash
       PROVE  Explanations'
  <2>1. Carries
    BY <1>14 DEF Crash, history, Carries, Steps, TypeOK, PlaceInv, Persisting
  <2> QED
    BY <1>14, <2>1, ExplanationsFrame DEF Crash, history
<1>15. CASE UNCHANGED vars
  <2>1. Carries
    BY <1>15 DEF vars, Carries
  <2> QED
    BY <1>15, <2>1, ExplanationsFrame DEF vars
<1> QED
  BY <1>1, <1>2, <1>3, <1>4, <1>5, <1>6, <1>7, <1>8, <1>9, <1>10, <1>11, <1>12, <1>13,
     <1>14, <1>15 DEF Next, Unlock, Step

LEMMA ExplanationsAlways == Spec => []Explanations
BY ExplanationsInit, ExplanationsNext, StepsAlways, PTL DEF Spec

\* The password that opens a vault is the one last reported as set, unless
\* the caller of the change got an error or no answer.
THEOREM PasswordAlwaysAsTold == Spec => []PasswordAsTold
<1>1. Keys /\ Explanations => PasswordAsTold
  <2> SUFFICES ASSUME Keys, Explanations, NEW p \in Paths \ stale
               PROVE  \/ Opens(disk[p], told[p])
                      \/ \E r \in Req : /\ cmd[r] = "change" /\ path[r] = p
                                       /\ Opens(disk[p], pw[r])
                                       /\ \/ pc[r] = "reply"
                                          \/ result[r] \in {"persist_failed", "lost"}
    BY DEF PasswordAsTold
  <2>1. Opens(disk[p], disk[p].mac.pw)
    BY DEF Keys, Sound
  <2>2. Explained(p, disk[p].mac.pw, {"reply"})
    BY DEF Explanations, DiskExplained
  <2> QED
    BY <2>1, <2>2 DEF Explained
<1> QED
  BY <1>1, KeysAlways, ExplanationsAlways, PTL
-----------------------------------------------------------------------------
(* The detailed session implements VaultPromise: under the refinement      *)
(* mapping at the end of VaultSession, the initial states map to initial   *)
(* states and every step maps to a step of the promise or to a stutter.    *)

\* What a step of r that neither begins nor ends between the read and the
\* key derivation leaves of what the invocations have read.
LEMMA SnapKept ==
    ASSUME NEW r \in Req, pc[r] # "derive", pc'[r] # "derive",
           \A q \in Req \ {r} : UNCHANGED <<pc[q], path[q], file[q]>>
    PROVE  UNCHANGED SnapNow
BY DEF SnapNow

\* What a step of r that ends elsewhere leaves: r has nothing any more.
LEMMA SnapDropped ==
    ASSUME NEW r \in Req, pc'[r] # "derive",
           \A q \in Req \ {r} : UNCHANGED <<pc[q], path[q], file[q]>>
    PROVE  SnapNow' = [SnapNow EXCEPT ![r] = NoView]
BY DEF SnapNow

\* The view of an unlocked session is not the absence of one.
LEMMA ViewThere ==
    ASSUME Steps, IsUnlocked
    PROVE  ViewNow = [path |-> session.path,
                      contents |-> [changes |-> session.changes, pw |-> session.mk.pw]]
           /\ ViewNow # NoView
<1>1. session \in Unlocked
  BY UnlockedSession
<1>2. session.path \in Paths /\ session.changes \in SUBSET Req /\ session.mk.pw \in Passwords
  BY <1>1 DEF Unlocked, MasterKey
<1> QED
  BY <1>2, NoViewAssumption DEF ViewNow, ContentsOf, Image

LEMMA PromiseInit == Init => Promise!Init
<1> SUFFICES ASSUME Init PROVE Promise!Init
  OBVIOUS
<1>1. PICK w \in [Paths -> Passwords], k \in [Paths -> Kdfs] :
        disk = [p \in Paths |-> CreatedVault(p, w[p], k[p])] /\ told = w
  BY DEF Init
<1>2. StoredNow = [p \in Paths |-> [changes |-> {}, pw |-> w[p]]]
  BY <1>1 DEF StoredNow, ContentsOf, CreatedVault, DeriveKey
<1>3. StoredNow \in [Paths -> [changes: {{}}, pw: Passwords]]
  BY <1>2
<1>4. ViewNow = NoView
  BY DEF Init, ViewNow, IsUnlocked
<1>5. SnapNow = [r \in Req |-> NoView]
  BY DEF Init, SnapNow
<1> QED
  BY <1>3, <1>4, <1>5 DEF Promise!Init

LEMMA PromiseNext == Steps /\ [Next]_vars => [Promise!Next]_(Promise!vars)
<1> SUFFICES ASSUME Steps, [Next]_vars PROVE Promise!Next \/ UNCHANGED Promise!vars
  OBVIOUS
<1> USE DEF Promise!vars
<1>1. ASSUME NEW r \in Req, NEW p \in Paths, NEW w \in Passwords, UnlockStart(r, p, w)
      PROVE  UNCHANGED Promise!vars
  <2>1. UNCHANGED SnapNow
    BY <1>1, SnapKept DEF UnlockStart, Steps, TypeOK
  <2>2. UNCHANGED <<StoredNow, ViewNow>>
    BY <1>1 DEF UnlockStart, StoredNow, ViewNow, IsUnlocked
  <2> QED
    BY <2>1, <2>2
<1>2. ASSUME NEW r \in Req, UnlockRefused(r)
      PROVE  Promise!Next \/ UNCHANGED Promise!vars
  <2>1. UNCHANGED SnapNow
    BY <1>2, SnapKept DEF UnlockRefused, Return, Steps, TypeOK
  <2>2. UNCHANGED StoredNow
    BY <1>2 DEF UnlockRefused, StoredNow
  <2>3. UNCHANGED ViewNow \/ ViewNow' = NoView
    BY <1>2 DEF UnlockRefused, ViewNow, IsUnlocked
  <2> QED
    BY <2>1, <2>2, <2>3 DEF Promise!Next, Promise!Close
<1>3. ASSUME NEW r \in Req, UnlockRead(r)
      PROVE  Promise!Next
  <2>1. path[r] \in Paths
    BY <1>3 DEF UnlockRead, Steps, PlaceInv
  <2>2. SnapNow' = [SnapNow EXCEPT ![r] =
                       [path |-> path[r], contents |-> ContentsOf(disk[path[r]])]]
    BY <1>3 DEF UnlockRead, SnapNow, Steps, TypeOK
  <2>3. StoredNow[path[r]] = ContentsOf(disk[path[r]])
    BY <2>1 DEF StoredNow
  <2>4. UNCHANGED <<StoredNow, ViewNow>>
    BY <1>3 DEF UnlockRead, StoredNow, ViewNow, IsUnlocked
  <2>5. Promise!Peek(r, path[r])
    BY <2>2, <2>3, <2>4 DEF Promise!Peek
  <2> QED
    BY <2>1, <2>5 DEF Promise!Next
<1>4. ASSUME NEW r \in Req, UnlockInstall(r)
      PROVE  Promise!Next
  <2>1. /\ path[r] \in Paths /\ file[r] \in VaultFile /\ pw[r] \in Passwords
        /\ pc[r] = "derive" /\ Opens(file[r], pw[r])
        /\ session' = Loaded(path[r], file[r], pw[r])
    BY <1>4 DEF UnlockInstall, Steps, TypeOK, PlaceInv
  <2>2. /\ session' \in Unlocked
        /\ Image(session)' = file[r]
        /\ session'.path = path[r]
    BY <2>1, LoadedFacts DEF Image
  <2>3. IsUnlocked'
    BY <2>2, SessionAssumption DEF IsUnlocked
  <2>4. ViewNow' = [path |-> path[r], contents |-> ContentsOf(file[r])]
    BY <2>2, <2>3 DEF ViewNow, ContentsOf
  <2>5. SnapNow[r] = [path |-> path[r], contents |-> ContentsOf(file[r])]
    BY <2>1 DEF SnapNow
  <2>6. SnapNow[r] # NoView
    <3>1. ContentsOf(file[r]) \in [changes: SUBSET Req, pw: Passwords]
      BY <2>1 DEF ContentsOf, VaultFile, MasterKey
    <3> QED
      BY <2>1, <2>5, <3>1, NoViewAssumption
  <2>7. SnapNow' = [SnapNow EXCEPT ![r] = NoView]
    BY <1>4, SnapDropped DEF UnlockInstall, Return, Steps, TypeOK
  <2>8. UNCHANGED StoredNow
    BY <1>4 DEF UnlockInstall, StoredNow
  <2> QED
    BY <2>4, <2>5, <2>6, <2>7, <2>8 DEF Promise!Next, Promise!Open
<1>5. ASSUME NEW r \in Req, UnlockFail(r)
      PROVE  Promise!Next
  <2>1. SnapNow' = [SnapNow EXCEPT ![r] = NoView]
    BY <1>5, SnapDropped DEF UnlockFail, Return, Steps, TypeOK
  <2>2. UNCHANGED StoredNow
    BY <1>5 DEF UnlockFail, StoredNow
  <2>3. ViewNow' \in {ViewNow, NoView}
    BY <1>5 DEF UnlockFail, ViewNow, IsUnlocked
  <2> QED
    BY <2>1, <2>2, <2>3 DEF Promise!Next, Promise!Forget
<1>6. ASSUME NEW r \in Req, Mutate(r)
      PROVE  Promise!Next
  <2>1. /\ IsUnlocked /\ session \in Unlocked
        /\ session' = [session EXCEPT !.changes = @ \cup {r}]
    BY <1>6, UnlockedSession DEF Mutate, Acquire
  <2>2. /\ session' \in Unlocked
        /\ session'.path = session.path /\ session'.mk = session.mk
        /\ session'.changes = session.changes \cup {r}
    BY <2>1, MutatedFacts
  <2>3. IsUnlocked'
    BY <2>2, SessionAssumption DEF IsUnlocked
  <2>4. ViewNow' = [ViewNow EXCEPT !.contents.changes = @ \cup {r}]
    <3>1. ViewNow' = [path |-> session.path,
                      contents |-> [changes |-> session.changes \cup {r},
                                    pw |-> session.mk.pw]]
      BY <2>2, <2>3 DEF ViewNow, ContentsOf, Image
    <3> QED
      BY <2>1, <3>1, ViewThere
  <2>5. UNCHANGED SnapNow
    BY <1>6, SnapKept DEF Mutate, Acquire, Steps, TypeOK
  <2>6. UNCHANGED StoredNow
    BY <1>6 DEF Mutate, StoredNow
  <2> QED
    BY <2>1, <2>4, <2>5, <2>6, ViewThere DEF Promise!Next, Promise!Edit
<1>7. ASSUME NEW r \in Req, NEW old \in Passwords, NEW new \in Passwords,
             ChangePassword(r, old, new)
      PROVE  Promise!Next
  <2>1. /\ IsUnlocked /\ session \in Unlocked
        /\ session' = Rekeyed(session, DeriveKey(new, r, CurrentKdf))
    BY <1>7, UnlockedSession DEF ChangePassword, Acquire
  <2>2. /\ session' \in Unlocked
        /\ session'.path = session.path /\ session'.mk.pw = new
        /\ session'.changes = session.changes
    BY <2>1, RekeyedFacts
  <2>3. IsUnlocked'
    BY <2>2, SessionAssumption DEF IsUnlocked
  <2>4. ViewNow' = [ViewNow EXCEPT !.contents.pw = new]
    BY <2>1, <2>2, <2>3 DEF ViewNow, ContentsOf, Image
  <2>5. UNCHANGED SnapNow
    BY <1>7, SnapKept DEF ChangePassword, Acquire, Steps, TypeOK
  <2>6. UNCHANGED StoredNow
    BY <1>7 DEF ChangePassword, StoredNow
  <2> QED
    BY <2>1, <2>4, <2>5, <2>6, ViewThere DEF Promise!Next, Promise!Edit
<1>8. ASSUME NEW r \in Req, Refused(r)
      PROVE  UNCHANGED Promise!vars
  <2>1. UNCHANGED SnapNow
    BY <1>8, SnapKept DEF Refused, Return, Steps, TypeOK
  <2>2. UNCHANGED <<StoredNow, ViewNow>>
    BY <1>8 DEF Refused, StoredNow, ViewNow, IsUnlocked
  <2> QED
    BY <2>1, <2>2
<1>9. ASSUME NEW r \in Req, WriteTmpBegin(r) \/ WriteTmpEnd(r) \/ Reply(r) \/ PersistFails(r)
      PROVE  UNCHANGED Promise!vars
  <2>1. UNCHANGED SnapNow
    BY <1>9, SnapKept DEF WriteTmpBegin, WriteTmpEnd, Reply, PersistFails, Return, Steps, TypeOK
  <2>2. UNCHANGED <<StoredNow, ViewNow>>
    BY <1>9 DEF WriteTmpBegin, WriteTmpEnd, Reply, PersistFails, StoredNow, ViewNow, IsUnlocked
  <2> QED
    BY <2>1, <2>2
<1>10. ASSUME NEW r \in Req, Rename(r)
       PROVE  Promise!Next
  <2>1. /\ session \in Unlocked /\ session.path \in Paths
        /\ disk' = [disk EXCEPT ![session.path] = Image(session)]
    BY <1>10 DEF Rename, Steps, PlaceInv, WriterInv, Persisting, Unlocked
  <2>2. IsUnlocked
    BY <2>1, SessionAssumption DEF IsUnlocked
  <2>3. ViewNow.path = session.path /\ ViewNow.contents = ContentsOf(Image(session))
    BY <2>2 DEF ViewNow
  <2>4. StoredNow' = [StoredNow EXCEPT ![ViewNow.path] = ViewNow.contents]
    BY <2>1, <2>3 DEF StoredNow, Steps, TypeOK
  <2>5. UNCHANGED SnapNow
    BY <1>10, SnapKept DEF Rename, Steps, TypeOK
  <2>6. UNCHANGED ViewNow
    BY <1>10 DEF Rename, ViewNow, IsUnlocked
  <2> QED
    BY <2>2, <2>4, <2>5, <2>6, ViewThere DEF Promise!Next, Promise!Save
<1>11. ASSUME Lock
       PROVE  Promise!Next
  <2>1. ViewNow' = NoView
    BY <1>11 DEF Lock, ViewNow, IsUnlocked
  <2>2. UNCHANGED <<StoredNow, SnapNow>>
    BY <1>11 DEF Lock, locals, StoredNow, SnapNow
  <2> QED
    BY <2>1, <2>2 DEF Promise!Next, Promise!Close
<1>12. ASSUME Crash
       PROVE  Promise!Next
  <2>1. ViewNow' = NoView
    BY <1>12 DEF Crash, ViewNow, IsUnlocked
  <2>2. SnapNow' = [r \in Req |-> NoView]
    BY <1>12 DEF Crash, SnapNow
  <2>3. UNCHANGED StoredNow
    BY <1>12 DEF Crash, StoredNow
  <2> QED
    BY <2>1, <2>2, <2>3 DEF Promise!Next, Promise!Crash
<1>13. CASE UNCHANGED vars
  BY <1>13 DEF vars, StoredNow, ViewNow, SnapNow, IsUnlocked
<1> QED
  BY <1>1, <1>2, <1>3, <1>4, <1>5, <1>6, <1>7, <1>8, <1>9, <1>10, <1>11, <1>12, <1>13
     DEF Next, Unlock, Step

\* Every behaviour of the session, seen as stored contents, one view and what
\* the invocations have read, is one the promise allows: no save stores less
\* or more than the whole session, and no session starts from less or more
\* than the whole of a file.
THEOREM SessionKeepsPromise == Spec => PromiseKept
<1>1. Spec => Promise!Spec
  BY PromiseInit, PromiseNext, StepsAlways, PTL DEF Spec, Promise!Spec
<1> QED
  BY <1>1 DEF PromiseKept
=============================================================================
