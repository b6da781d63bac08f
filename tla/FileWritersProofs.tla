------------------------- MODULE FileWritersProofs -------------------------
(***************************************************************************)
(* Proofs about FileWriters, for any sets of writers, vaults and export    *)
(* destinations, and any choice of temporary names.                        *)
(***************************************************************************)
EXTENDS FileWriters, TLAPS

\* The name whose temporary file job j uses.
T(j) == TmpOf(j, at[j])

Opened == {"write", "rename", "renamed", "cleanup"}

Types ==
    /\ TypeOK
    /\ seen \in [Exporters -> Sessions \cup {Locked}]
    /\ source \in [Exporters -> Paths \cup {None}]
    /\ acked \in [Paths -> SUBSET Inodes]
    /\ asked \in [Exporters -> SUBSET Inodes]

\* What each job has at each place.
JobPlace(j) ==
    /\ pc[j] = "idle" => at[j] = None
    /\ pc[j] = "path" => j \in Exporters
    /\ InFlight(j) => at[j] \in IF j \in Exporters THEN Dests ELSE Paths
    /\ IF pc[j] \in Opened THEN fd[j] \in Inodes /\ image[j] \in Content \cup {Torn, Mixed}
                           ELSE fd[j] = None
    /\ result[j] = "ok" => pc[j] = "done"
SaverPlace(s) ==
    InFlight(s) => /\ holder = s /\ session # Locked
                   /\ session.path = at[s] /\ s \in session.jobs
ExportPlace(e) ==
    /\ pc[e] \in {"idle", "path"} => source[e] = None
    /\ pc[e] # "idle" => at[e] \in Dests /\ seen[e] # Locked
    /\ pc[e] \in {"open"} \cup Opened \/ result[e] = "ok" => source[e] \in Paths
    /\ result[e] = "ok" => image[e] \in Content \cup {Torn, Mixed}
Places ==
    /\ \A j \in Writers : JobPlace(j)
    /\ \A s \in Savers : SaverPlace(s)
    /\ \A e \in Exporters : ExportPlace(e)

LEMMA TypesInit == Init => Types /\ Places
<1> SUFFICES ASSUME Init PROVE Types /\ Places
  OBVIOUS
<1> USE WritersAssumption
<1>1. data \in [Inodes -> Content \cup {Torn, Mixed}]
  BY DEF Init, Content, Inodes
<1>2. file \in [Names -> Inodes \cup {None}]
  BY DEF Init, Inodes, Names
<1>3. Types
  BY <1>1, <1>2 DEF Init, Types, TypeOK
<1>4. Places
  BY DEF Init, Places, JobPlace, SaverPlace, ExportPlace, InFlight, Opened, Writers
<1> QED
  BY <1>3, <1>4

\* The jobs under way, and the temporary file they use.
LEMMA TmpIsName ==
    ASSUME Types, Places, NEW j \in Writers, InFlight(j)
    PROVE  TmpOf(j, at[j]) = T(j) /\ at[j] \in Names /\ T(j) \in Names
<1>1. at[j] \in IF j \in Exporters THEN Dests ELSE Paths
  BY DEF Places, JobPlace
<1> QED
  BY <1>1, WritersAssumption DEF T, TmpOf, Names

LEMMA BytesType ==
    ASSUME Types, Places, NEW j \in Writers, pc[j] = "open",
           j \in Exporters => file[source[j]] # None
    PROVE  Bytes(j) \in Content \cup {Torn, Mixed}
<1> USE WritersAssumption
<1>1. CASE j \in Savers
  <2>1. session \in Sessions
    BY <1>1 DEF Places, SaverPlace, InFlight, Types, TypeOK
  <2> QED
    BY <1>1, <2>1 DEF Bytes, Content, Sessions, Inodes
<1>2. CASE j \in Creators
  BY <1>2 DEF Bytes, Content, Writers
<1>3. CASE j \in Exporters
  <2>1. source[j] \in Paths
    BY <1>3 DEF Places, ExportPlace
  <2>2. At(source[j]) \in Content \cup {Torn, Mixed}
    BY <1>3, <2>1 DEF At, Types, TypeOK, Names
  <2> QED
    BY <1>3, <2>2 DEF Bytes
<1> QED
  BY <1>1, <1>2, <1>3 DEF Writers

LEMMA TypesNext == Types /\ Places /\ [Next]_vars => Types'
<1> SUFFICES ASSUME Types, Places, [Next]_vars PROVE Types'
  OBVIOUS
<1> USE WritersAssumption DEF Types, TypeOK
<1>1. ASSUME NEW s \in Savers, SaveStart(s)
      PROVE  Types'
  <2>1. session' \in Sessions
    BY <1>1 DEF SaveStart, Sessions, Inodes, Writers
  <2>2. at' \in [Writers -> Names \cup {None}] /\ shared' \subseteq Names
    BY <1>1 DEF SaveStart, Claim, TmpOf, Names, Sessions, Writers
  <2>3. unsure' \subseteq Exporters
    BY <1>1 DEF SaveStart
  <2> QED
    BY <1>1, <2>1, <2>2, <2>3 DEF SaveStart, Goto, files
<1>2. ASSUME NEW c \in Creators, NEW p \in Paths, CreateCheck(c, p)
      PROVE  Types'
  <2>1. CASE Answer(c, "refused") /\ UNCHANGED shared
    BY <1>2, <2>1 DEF CreateCheck, Answer, Goto, files
  <2>2. CASE Claim(c, p) /\ Goto(c, "open") /\ UNCHANGED <<holder, fd, image, result>>
    <3>1. at' \in [Writers -> Names \cup {None}] /\ shared' \subseteq Names
      BY <2>2 DEF Claim, TmpOf, Names, Writers
    <3> QED
      BY <1>2, <2>2, <3>1 DEF CreateCheck, Goto, files
  <2> QED
    BY <1>2, <2>1, <2>2 DEF CreateCheck
<1>3. ASSUME NEW e \in Exporters, NEW d \in Dests, ExportVerify(e, d)
      PROVE  Types'
  <2>1. at' \in [Writers -> Names \cup {None}] /\ shared' \subseteq Names
    BY <1>3 DEF ExportVerify, Claim, TmpOf, Names, Writers
  <2>2. unsure' \subseteq Exporters
    BY <1>3 DEF ExportVerify
  <2>3. asked' \in [Exporters -> SUBSET Inodes]
    BY <1>3 DEF ExportVerify, Sessions
  <2> QED
    BY <1>3, <2>1, <2>2, <2>3 DEF ExportVerify, Goto, files
<1>4. ASSUME NEW e \in Exporters, ExportPath(e)
      PROVE  Types'
  <2>1. UNCHANGED <<files, session, seen, history>>
    BY <1>4 DEF ExportPath
  <2>2. CASE session = Locked \/ session.path = at[e]
    BY <1>4, <2>1, <2>2 DEF ExportPath, Answer, Goto, files, history
  <2>3. CASE ~(session = Locked \/ session.path = at[e])
    <3>1. source' \in [Exporters -> Paths \cup {None}]
      BY <1>4, <2>3 DEF ExportPath, Sessions
    <3> QED
      BY <1>4, <2>1, <2>3, <3>1 DEF ExportPath, Goto, files, history
  <2> QED
    BY <2>2, <2>3
<1>5. ASSUME NEW j \in Writers, OpenTmp(j)
      PROVE  Types'
  <2> DEFINE t == TmpOf(j, at[j])
             i == IF tmp[t] = None THEN j ELSE tmp[t]
  <2>1. i \in Inodes
    <3>1. t \in Names
      BY <1>5, TmpIsName DEF OpenTmp, InFlight
    <3> QED
      BY <3>1 DEF Inodes
  <2>2. Bytes(j) \in Content \cup {Torn, Mixed}
    BY <1>5, BytesType DEF OpenTmp
  <2>3. /\ tmp' = [tmp EXCEPT ![t] = i] /\ fd' = [fd EXCEPT ![j] = i]
        /\ data' = [data EXCEPT ![i] = IF Writing(i) = {} THEN Torn ELSE Mixed]
    BY <1>5 DEF OpenTmp
  <2> HIDE DEF i, t
  <2>4. data' \in [Inodes -> Content \cup {Torn, Mixed}]
    BY <2>3
  <2>5. tmp' \in [Names -> Inodes \cup {None}] /\ fd' \in [Writers -> Inodes \cup {None}]
    BY <2>1, <2>3
  <2>6. image' \in [Writers -> Content \cup {Torn, Mixed, None}]
    BY <1>5, <2>2 DEF OpenTmp
  <2>7. /\ UNCHANGED <<file, session, holder, at, seen, source, result, history>>
        /\ pc' = [pc EXCEPT ![j] = "write"]
    BY <1>5 DEF OpenTmp, Goto
  <2> QED
    BY <2>4, <2>5, <2>6, <2>7 DEF history
<1>6. ASSUME NEW j \in Writers, WriteEnd(j)
      PROVE  Types'
  <2>1. image[j] \in Content \cup {Torn, Mixed}
    BY <1>6 DEF WriteEnd, Places, JobPlace, Opened
  <2>2. data' \in [Inodes -> Content \cup {Torn, Mixed}]
    BY <1>6, <2>1 DEF WriteEnd
  <2> QED
    BY <1>6, <2>2 DEF WriteEnd, Goto, history
<1>7. ASSUME NEW j \in Writers, WriteFails(j)
      PROVE  Types'
  <2>1. data' \in [Inodes -> Content \cup {Torn, Mixed}]
    BY <1>7 DEF WriteFails
  <2> QED
    BY <1>7, <2>1 DEF WriteFails, Answer, Goto, history
<1>8. ASSUME NEW j \in Writers, Rename(j)
      PROVE  Types'
  <2>1. TmpOf(j, at[j]) \in Names /\ at[j] \in Names
    BY <1>8, TmpIsName DEF Rename, InFlight
  <2>2. acked' \in [Paths -> SUBSET Inodes]
    <3>1. CASE j \in Exporters
      BY <1>8, <3>1 DEF Rename
    <3>2. CASE j \notin Exporters
      BY <1>8, <3>2 DEF Rename
    <3> QED
      BY <3>1, <3>2
  <2>3. shared' \subseteq Names
    BY <1>8, <2>1 DEF Rename
  <2> QED
    BY <1>8, <2>1, <2>2, <2>3 DEF Rename, Goto
<1>9. ASSUME NEW j \in Writers, RenameFails(j) \/ Cleanup(j)
      PROVE  Types'
  BY <1>9 DEF RenameFails, Cleanup, Answer, Goto, files, history
<1>10. ASSUME NEW j \in Writers, Reply(j)
       PROVE  Types'
  <2>1. acked' \in [Paths -> SUBSET Inodes]
    <3>1. CASE j \in Exporters
      BY <1>10, <3>1 DEF Reply
    <3>2. CASE j \notin Exporters
      <4>1. acked' = [acked EXCEPT ![at[j]] = @ \cup {j}] /\ j \in Inodes
        BY <1>10, <3>2 DEF Reply, Inodes
      <4>2. acked \in [Paths -> SUBSET Inodes]
        OBVIOUS
      <4> HIDE DEF Types, TypeOK
      <4> QED
        BY <4>1, <4>2
    <3> QED
      BY <3>1, <3>2
  <2>2. UNCHANGED <<files, session, seen, source, asked, unsure, shared>> /\ Answer(j, "ok")
    BY <1>10 DEF Reply
  <2> QED
    BY <2>1, <2>2 DEF Answer, Goto, files
<1>11. ASSUME NEW p \in Paths, Unlock(p)
       PROVE  Types'
  <2>1. session' \in Sessions
    BY <1>11 DEF Unlock, Whole, At, Content, Sessions, Inodes
  <2> QED
    BY <1>11, <2>1 DEF Unlock, files, locals, history
<1>12. CASE Lock \/ Crash
  BY <1>12 DEF Lock, Crash, files, locals, history
<1>13. CASE UNCHANGED vars
  BY <1>13 DEF vars, files, locals, history
<1> QED
  BY <1>1, <1>2, <1>3, <1>4, <1>5, <1>6, <1>7, <1>8, <1>9, <1>10, <1>11, <1>12, <1>13
  DEF Next, Write

\* The steps of job j, and what they leave alone: the other jobs.
JobStep(j) ==
    \/ j \in Savers /\ SaveStart(j)
    \/ j \in Creators /\ \E p \in Paths : CreateCheck(j, p)
    \/ j \in Exporters /\ (ExportPath(j) \/ \E d \in Dests : ExportVerify(j, d))
    \/ Write(j)
OnlyJob(j) ==
    /\ \A k \in Writers \ {j} : UNCHANGED <<pc[k], at[k], fd[k], image[k], result[k]>>
    /\ \A e \in Exporters \ {j} : UNCHANGED <<seen[e], source[e]>>

LEMMA NextCases ==
    ASSUME [Next]_vars
    PROVE  \/ \E j \in Writers : JobStep(j)
           \/ Lock \/ \E p \in Paths : Unlock(p)
           \/ Crash
           \/ UNCHANGED vars
BY DEF Next, JobStep, Writers

LEMMA OneJob ==
    ASSUME Types, NEW j \in Writers, JobStep(j)
    PROVE  OnlyJob(j)
<1> USE DEF Types, TypeOK, OnlyJob, Goto, history
<1>1. CASE j \in Savers /\ SaveStart(j)
  BY <1>1 DEF SaveStart, Claim
<1>2. ASSUME j \in Creators, NEW p \in Paths, CreateCheck(j, p)
      PROVE  OnlyJob(j)
  BY <1>2 DEF CreateCheck, Claim, Answer
<1>3. CASE j \in Exporters /\ ExportPath(j)
  BY <1>3 DEF ExportPath, Answer
<1>4. ASSUME j \in Exporters, NEW d \in Dests, ExportVerify(j, d)
      PROVE  OnlyJob(j)
  BY <1>4 DEF ExportVerify, Claim
<1>5. CASE OpenTmp(j)
  BY <1>5 DEF OpenTmp
<1>6. CASE WriteEnd(j) \/ Rename(j) \/ RenameFails(j)
  BY <1>6 DEF WriteEnd, Rename, RenameFails
<1>7. CASE WriteFails(j) \/ Cleanup(j) \/ Reply(j)
  BY <1>7 DEF WriteFails, Cleanup, Reply, Answer
<1> QED
  BY <1>1, <1>2, <1>3, <1>4, <1>5, <1>6, <1>7 DEF JobStep, Write

\* A saver in the middle of its save has the session to itself.
LEMMA SaverAlone ==
    ASSUME Types, Places, NEW s \in Savers, InFlight(s)
    PROVE  /\ holder = s
           /\ \A j \in Writers \ {s} : JobStep(j) => UNCHANGED <<session, holder>>
           /\ ~Lock /\ \A p \in Paths : ~Unlock(p)
<1>1. holder = s /\ s # None
  BY WritersAssumption DEF Places, SaverPlace, Inodes, Writers
<1> USE DEF history
<1>2. ASSUME NEW j \in Writers \ {s}, JobStep(j)
      PROVE  UNCHANGED <<session, holder>>
  <2>1. ~SaveStart(j)
    BY <1>1 DEF SaveStart
  <2>2. ASSUME NEW p \in Paths, CreateCheck(j, p)
        PROVE  UNCHANGED <<session, holder>>
    BY <1>1, <2>2 DEF CreateCheck, Answer
  <2>3. CASE j \in Exporters /\ ExportPath(j)
    BY <1>1, <2>3 DEF ExportPath
  <2>4. ASSUME NEW d \in Dests, ExportVerify(j, d)
        PROVE  UNCHANGED <<session, holder>>
    BY <2>4 DEF ExportVerify
  <2>5. CASE OpenTmp(j) \/ WriteEnd(j) \/ Rename(j) \/ RenameFails(j)
    BY <2>5 DEF OpenTmp, WriteEnd, Rename, RenameFails
  <2>6. CASE WriteFails(j) \/ Cleanup(j) \/ Reply(j)
    BY <1>1, <2>6 DEF WriteFails, Cleanup, Reply, Answer
  <2> QED
    BY <1>2, <2>1, <2>2, <2>3, <2>4, <2>5, <2>6 DEF JobStep, Write
<1>3. ~Lock /\ \A p \in Paths : ~Unlock(p)
  BY <1>1 DEF Lock, Unlock
<1> QED
  BY <1>1, <1>2, <1>3

LEMMA PlaceOfOthers ==
    ASSUME Types, Places, NEW j \in Writers, JobStep(j),
           JobPlace(j)', j \in Savers => SaverPlace(j)', j \in Exporters => ExportPlace(j)'
    PROVE  Places'
<1>1. OnlyJob(j)
  BY OneJob
<1>2. ASSUME NEW k \in Writers \ {j}
      PROVE  JobPlace(k)'
  BY <1>1 DEF OnlyJob, Places, JobPlace, InFlight
<1>3. ASSUME NEW s \in Savers \ {j}
      PROVE  SaverPlace(s)'
  <2>1. UNCHANGED <<pc[s], at[s]>> /\ s \in Writers
    BY <1>1 DEF OnlyJob, Writers
  <2>2. InFlight(s) => UNCHANGED <<session, holder>>
    BY SaverAlone
  <2> QED
    BY <2>1, <2>2 DEF Places, SaverPlace, InFlight
<1>4. ASSUME NEW e \in Exporters \ {j}
      PROVE  ExportPlace(e)'
  <2>1. UNCHANGED <<pc[e], at[e], image[e], result[e], seen[e], source[e]>>
    BY <1>1 DEF OnlyJob, Writers
  <2> QED
    BY <2>1 DEF Places, ExportPlace
<1> QED
  BY <1>2, <1>3, <1>4 DEF Places

\* A job that is over.
LEMMA PlaceDone ==
    ASSUME Types, NEW j \in Writers, NEW r, Answer(j, r), r # "ok"
    PROVE  JobPlace(j)' /\ SaverPlace(j)'
BY DEF Answer, Goto, JobPlace, SaverPlace, InFlight, Opened, Types, TypeOK

LEMMA PlacesNext == Types /\ Places /\ [Next]_vars => Places'
<1> SUFFICES ASSUME Types, Places, [Next]_vars PROVE Places'
  OBVIOUS
<1> USE DEF JobPlace, InFlight, Opened, Goto
<1>0. Types'
  BY TypesNext
<1>1. ASSUME NEW j \in Savers, SaveStart(j)
      PROVE  Places'
  <2>0. j \in Writers \ Exporters /\ JobStep(j)
    BY <1>1, WritersAssumption DEF Writers, JobStep
  <2>1. JobPlace(j)
    BY <2>0 DEF Places
  <2>2. pc'[j] = "open" /\ at'[j] = session.path /\ fd'[j] = fd[j] /\ result'[j] = result[j]
    BY <1>1, <2>0 DEF SaveStart, Claim, Types, TypeOK
  <2>3. JobPlace(j)'
    BY <1>1, <2>0, <2>1, <2>2 DEF SaveStart, Sessions, Types, TypeOK
  <2>4. SaverPlace(j)'
    <3>1. /\ session \in Sessions /\ holder' = j
          /\ session' = [session EXCEPT !.jobs = @ \cup {j}, !.pw = IF j \in Rekeys THEN j ELSE @]
      BY <1>1 DEF SaveStart, Types, TypeOK
    <3>2. session'.path = session.path /\ j \in session'.jobs /\ session' \in Sessions
      BY <3>1, <2>0 DEF Sessions, Inodes
    <3> QED
      BY <2>2, <3>1, <3>2, WritersAssumption DEF SaverPlace
  <2> QED
    BY <2>0, <2>3, <2>4, PlaceOfOthers
<1>2. ASSUME NEW j \in Creators, NEW p \in Paths, CreateCheck(j, p)
      PROVE  Places'
  <2>0. j \in Writers \ (Exporters \cup Savers) /\ JobStep(j)
    BY <1>2, WritersAssumption DEF Writers, JobStep
  <2>1. CASE Answer(j, "refused")
    BY <2>0, <2>1, PlaceDone, PlaceOfOthers
  <2>2. CASE Claim(j, p) /\ Goto(j, "open") /\ UNCHANGED <<holder, fd, image, result>>
    <3>1. JobPlace(j)
      BY <2>0 DEF Places
    <3>2. JobPlace(j)'
      BY <1>2, <2>0, <2>2, <3>1 DEF CreateCheck, Claim, Types, TypeOK
    <3> QED
      BY <2>0, <3>2, PlaceOfOthers
  <2> QED
    BY <1>2, <2>1, <2>2 DEF CreateCheck
<1>3. ASSUME NEW j \in Exporters, ExportPath(j)
      PROVE  Places'
  <2>0. j \in Writers \ Savers /\ JobStep(j) /\ JobPlace(j) /\ ExportPlace(j)
    BY <1>3, WritersAssumption DEF Writers, JobStep, Places
  <2>1. CASE session = Locked \/ session.path = at[j]
    <3>1. Answer(j, "refused") /\ UNCHANGED <<source, seen>>
      BY <1>3, <2>1 DEF ExportPath
    <3>2. ExportPlace(j)'
      BY <1>3, <2>0, <3>1 DEF ExportPath, Answer, ExportPlace, Types, TypeOK
    <3> QED
      BY <2>0, <3>1, <3>2, PlaceDone, PlaceOfOthers
  <2>2. CASE ~(session = Locked \/ session.path = at[j])
    <3>1. /\ session.path \in Paths
          /\ source' = [source EXCEPT ![j] = session.path] /\ pc' = [pc EXCEPT ![j] = "open"]
          /\ UNCHANGED <<at, fd, image, result, seen>>
      BY <1>3, <2>2 DEF ExportPath, Types, TypeOK, Sessions
    <3>2. JobPlace(j)' /\ ExportPlace(j)'
      BY <1>3, <2>0, <3>1 DEF ExportPath, ExportPlace, Types, TypeOK
    <3> QED
      BY <2>0, <3>2, PlaceOfOthers
  <2> QED
    BY <2>1, <2>2
<1>4. ASSUME NEW j \in Exporters, NEW d \in Dests, ExportVerify(j, d)
      PROVE  Places'
  <2>0. j \in Writers \ Savers /\ JobStep(j) /\ JobPlace(j) /\ ExportPlace(j)
    BY <1>4, WritersAssumption DEF Writers, JobStep, Places
  <2>1. /\ at' = [at EXCEPT ![j] = d] /\ pc' = [pc EXCEPT ![j] = "path"]
        /\ seen' = [seen EXCEPT ![j] = session]
        /\ UNCHANGED <<fd, image, result, source>>
        /\ session # Locked /\ pc[j] = "idle"
    BY <1>4 DEF ExportVerify, Claim
  <2>2. JobPlace(j)' /\ ExportPlace(j)'
    BY <2>0, <2>1 DEF ExportPlace, Types, TypeOK
  <2> QED
    BY <2>0, <2>2, PlaceOfOthers
<1>5. ASSUME NEW j \in Writers, OpenTmp(j)
      PROVE  Places'
  <2>0. JobStep(j) /\ JobPlace(j)
    BY <1>5 DEF JobStep, Write, Places
  <2>1. Bytes(j) \in Content \cup {Torn, Mixed}
    BY <1>5, BytesType DEF OpenTmp
  <2>2. /\ pc[j] = "open" /\ pc' = [pc EXCEPT ![j] = "write"]
        /\ image' = [image EXCEPT ![j] = Bytes(j)]
        /\ UNCHANGED <<session, holder, at, seen, source, result>>
    BY <1>5 DEF OpenTmp
  <2>3. fd'[j] \in Inodes
    <3>1. TmpOf(j, at[j]) \in Names
      BY <2>2, TmpIsName
    <3> QED
      BY <1>5, <3>1 DEF OpenTmp, Types, TypeOK, Inodes
  <2>4. JobPlace(j)'
    BY <2>0, <2>1, <2>2, <2>3 DEF Types, TypeOK
  <2>5. j \in Savers => SaverPlace(j)'
    BY <2>2 DEF Places, SaverPlace, Types, TypeOK
  <2>6. j \in Exporters => ExportPlace(j)'
    BY <2>0, <2>2 DEF Places, ExportPlace, Types, TypeOK
  <2> QED
    BY <2>0, <2>4, <2>5, <2>6, PlaceOfOthers
<1>6. ASSUME NEW j \in Writers, WriteEnd(j) \/ Rename(j) \/ RenameFails(j)
      PROVE  Places'
  <2>0. JobStep(j) /\ JobPlace(j)
    BY <1>6 DEF JobStep, Write, Places
  <2>1. /\ pc[j] \in Opened /\ pc'[j] \in Opened
        /\ UNCHANGED <<session, holder, at, fd, image, seen, source, result>>
    BY <1>6 DEF WriteEnd, Rename, RenameFails, Types, TypeOK
  <2>2. JobPlace(j)'
    BY <2>0, <2>1
  <2>3. j \in Savers => SaverPlace(j)'
    BY <2>1 DEF Places, SaverPlace
  <2>4. j \in Exporters => ExportPlace(j)'
    BY <2>1 DEF Places, ExportPlace
  <2> QED
    BY <2>0, <2>2, <2>3, <2>4, PlaceOfOthers
<1>7. ASSUME NEW j \in Writers, WriteFails(j) \/ Cleanup(j) \/ Reply(j)
      PROVE  Places'
  <2>0. JobStep(j) /\ JobPlace(j) /\ pc[j] \in {"open"} \cup Opened
    BY <1>7 DEF JobStep, Write, Places, WriteFails, Cleanup, Reply
  <2>1. PICK r \in {"failed", "ok"} : Answer(j, r) /\ UNCHANGED <<seen, source>>
    BY <1>7 DEF WriteFails, Cleanup, Reply
  <2>2. pc'[j] = "done" /\ fd'[j] = None
    BY <2>1 DEF Answer, Types, TypeOK
  <2>3. JobPlace(j)' /\ SaverPlace(j)'
    BY <2>2 DEF SaverPlace
  <2>4. ASSUME j \in Exporters
        PROVE  ExportPlace(j)'
    <3>1. r = "ok" => pc[j] = "renamed" /\ UNCHANGED image
      BY <1>7, <2>1, <2>4 DEF WriteFails, Cleanup, Reply, Answer, Types, TypeOK
    <3>2. UNCHANGED <<at, seen, source>> /\ (result'[j] = "ok" => r = "ok")
      BY <2>1, <2>4 DEF Answer, Types, TypeOK
    <3> QED
      BY <2>0, <2>2, <2>4, <3>1, <3>2 DEF Places, ExportPlace
  <2> QED
    BY <2>0, <2>3, <2>4, PlaceOfOthers
<1>8. CASE Lock \/ \E p \in Paths : Unlock(p)
  <2>1. UNCHANGED <<pc, at, fd, image, result, seen, source>>
    BY <1>8 DEF Unlock, Lock, locals
  <2>2. \A s \in Savers : ~InFlight(s)
    BY <1>8, SaverAlone
  <2> QED
    BY <2>1, <2>2 DEF Places, SaverPlace, ExportPlace
<1>9. CASE Crash
  <2>1. /\ \A j \in Writers : pc'[j] = (IF InFlight(j) THEN "done" ELSE pc[j]) /\ fd'[j] = None
        /\ UNCHANGED <<at, image, result, seen, source>>
    BY <1>9 DEF Crash
  <2>2. \A j \in Writers : JobPlace(j)'
    BY <2>1 DEF Places
  <2>3. \A s \in Savers : SaverPlace(s)'
    BY <2>1 DEF SaverPlace, Writers
  <2>4. \A e \in Exporters : ExportPlace(e)'
    BY <2>1 DEF Places, ExportPlace, Writers
  <2> QED
    BY <2>2, <2>3, <2>4 DEF Places
<1>10. CASE UNCHANGED vars
  BY <1>10 DEF vars, locals, Places, SaverPlace, ExportPlace
<1> QED
  BY <1>1, <1>2, <1>3, <1>4, <1>5, <1>6, <1>7, <1>8, <1>9, <1>10, NextCases
  DEF JobStep, Write

\* The files, the session and the jobs keep their types: no name ever leads
\* to anything but the file of some job, for any number of writers.
THEOREM WritersTypeCorrect == Spec => []TypeOK
<1>1. Types /\ Places => TypeOK
  BY DEF Types
<1> QED
  BY <1>1, TypesInit, TypesNext, PlacesNext, PTL DEF Spec
-----------------------------------------------------------------------------
\* Two jobs at work on one file or temporary file are known to be.
Claimed == \A j, k \in Writers :
    InFlight(j) /\ InFlight(k) /\ j # k => {at[j], T(j)} \cap {at[k], T(k)} \subseteq shared

LEMMA SharedGrows == [Next]_vars => shared \subseteq shared'
BY DEF Next, SaveStart, CreateCheck, ExportVerify, ExportPath, Claim, Write, OpenTmp, WriteEnd,
       WriteFails, Rename, RenameFails, Cleanup, Reply, Unlock, Lock, Crash, history, vars

\* A job comes under way by a claim, and goes on with the same name.
LEMMA Claims ==
    ASSUME Types, Places, NEW j \in Writers, JobStep(j)
    PROVE  \/ ~InFlight(j)'
           \/ InFlight(j) /\ UNCHANGED at[j]
           \/ \E n \in Names : Claim(j, n)
<1> USE DEF InFlight, Goto
<1>1. CASE j \in Savers /\ SaveStart(j)
  BY <1>1 DEF SaveStart, Sessions, Types, TypeOK, Names
<1>2. ASSUME j \in Creators, NEW p \in Paths, CreateCheck(j, p)
      PROVE  ~InFlight(j)' \/ \E n \in Names : Claim(j, n)
  BY <1>2 DEF CreateCheck, Answer, Types, TypeOK, Names
<1>3. CASE j \in Exporters /\ ExportPath(j)
  BY <1>3 DEF ExportPath, Answer, Types, TypeOK
<1>4. ASSUME j \in Exporters, NEW d \in Dests, ExportVerify(j, d)
      PROVE  \E n \in Names : Claim(j, n)
  BY <1>4 DEF ExportVerify, Names
<1>5. CASE OpenTmp(j) \/ WriteEnd(j) \/ Rename(j) \/ RenameFails(j)
  BY <1>5 DEF OpenTmp, WriteEnd, Rename, RenameFails
<1>6. CASE WriteFails(j) \/ Cleanup(j) \/ Reply(j)
  BY <1>6 DEF WriteFails, Cleanup, Reply, Answer, Types, TypeOK
<1> QED
  BY <1>1, <1>2, <1>3, <1>4, <1>5, <1>6 DEF JobStep, Write

LEMMA ClaimedNext == Types /\ Places /\ Claimed /\ [Next]_vars => Claimed'
<1> SUFFICES ASSUME Types, Places, Claimed, [Next]_vars PROVE Claimed'
  OBVIOUS
<1>0. shared \subseteq shared'
  BY SharedGrows
<1>1. ASSUME NEW j \in Writers, JobStep(j)
      PROVE  Claimed'
  <2>1. \A k \in Writers \ {j} : UNCHANGED <<pc[k], at[k]>>
    BY <1>1, OneJob DEF OnlyJob
  <2>2. ASSUME NEW k \in Writers \ {j}, InFlight(j)', InFlight(k)', NEW m,
               m \in {at[j], T(j)}', m \in {at[k], T(k)}'
        PROVE  m \in shared'
    <3>1. InFlight(k) /\ T(k)' = T(k) /\ at'[k] = at[k]
      BY <2>1, <2>2 DEF InFlight, T, TmpOf
    <3>2. CASE InFlight(j) /\ UNCHANGED at[j]
      <4>1. T(j)' = T(j) /\ at'[j] = at[j]
        BY <3>2 DEF T, TmpOf
      <4> QED
        BY <1>0, <2>2, <3>1, <3>2, <4>1 DEF Claimed
    <3>3. ASSUME NEW n \in Names, Claim(j, n)
          PROVE  m \in shared'
      <4>1. at'[j] = n
        BY <3>3 DEF Claim, Types, TypeOK
      <4>2. T(j)' = TmpOf(j, n)
        BY <4>1 DEF T, TmpOf
      <4>3. m \in {n, TmpOf(j, n)} /\ m \in {at[k], TmpOf(k, at[k])}
        BY <2>2, <3>1, <4>1, <4>2 DEF T
      <4> QED
        BY <3>1, <3>3, <4>3 DEF Claim
    <3> QED
      BY <1>1, <2>2, <3>2, <3>3, Claims
  <2>3. ASSUME NEW k \in Writers \ {j}, NEW l \in Writers \ {j}, k # l,
               InFlight(k)', InFlight(l)'
        PROVE  ({at[k], T(k)} \cap {at[l], T(l)})' \subseteq shared'
    <3>1. UNCHANGED <<at[k], T(k), at[l], T(l)>> /\ InFlight(k) /\ InFlight(l)
      BY <2>1, <2>3 DEF InFlight, T, TmpOf
    <3> QED
      BY <1>0, <2>3, <3>1 DEF Claimed
  <2> QED
    BY <2>2, <2>3 DEF Claimed
<1>2. CASE Lock \/ \E p \in Paths : Unlock(p)
  BY <1>2 DEF Lock, Unlock, Claimed, InFlight, T, TmpOf, locals, history
<1>3. CASE Crash
  BY <1>3 DEF Crash, Claimed, InFlight
<1>4. CASE UNCHANGED vars
  BY <1>4 DEF vars, Claimed, InFlight, T, TmpOf, locals, history
<1> QED
  BY <1>1, <1>2, <1>3, <1>4, NextCases
-----------------------------------------------------------------------------
\* A file has one name.
Unique ==
    \A m, n \in Names : /\ file[m] # None /\ file[m] = file[n] => m = n
                        /\ tmp[m] # None /\ tmp[m] = tmp[n] => m = n
                        /\ file[m] # None => file[m] # tmp[n]

\* A file a job has yet to make is not there.
UnusedBy(j) ==
    pc[j] \in {"idle", "path", "open"} => /\ \A n \in Names : file[n] # j /\ tmp[n] # j
                                         /\ \A k \in Writers : fd[k] # j
Unused == \A j \in Writers : UnusedBy(j)

\* A file a job is still writing is the temporary file it opened; only
\* another job on that temporary file can have moved it under a final name,
\* removed it or written to it, or replaced what it renamed.
Own(j) == T(j) \notin shared /\ (pc[j] = "renamed" => at[j] \notin shared)
GripOf(j) ==
    /\ pc[j] = "write" =>
          /\ \A n \in Names : tmp[n] = fd[j] => n = T(j)
          /\ \A n \in Names : file[n] = fd[j] => n \in shared /\ T(j) \in shared
    /\ Own(j) =>
          /\ pc[j] \in {"write", "rename"} => tmp[T(j)] = fd[j]
          /\ pc[j] = "write" => data[fd[j]] = Torn
          /\ pc[j] = "rename" => data[fd[j]] = image[j]
          /\ pc[j] = "renamed" => file[at[j]] = fd[j] /\ data[fd[j]] = image[j]
Grip == \A j \in Writers : GripOf(j)

Links == Unique /\ Unused /\ Grip

\* A step that moves no name and writes nothing.
LEMMA LinksKept ==
    ASSUME Links, UNCHANGED files, shared \subseteq shared',
           \A k \in Writers :
              /\ pc'[k] \in {"write", "rename", "renamed"} =>
                    UNCHANGED <<pc[k], at[k], fd[k], image[k]>>
              /\ pc'[k] \in {"idle", "path", "open"} => pc[k] \in {"idle", "path", "open"}
              /\ fd'[k] \in {fd[k], None}
    PROVE  Links'
<1> USE DEF files
<1>1. Unique'
  BY DEF Links, Unique
<1>2. Unused'
  BY WritersAssumption DEF Links, Unused, UnusedBy, Inodes
<1>3. Grip'
  <2> SUFFICES ASSUME NEW j \in Writers, pc'[j] \in {"write", "rename", "renamed"}
               PROVE  GripOf(j)'
    BY DEF Grip, GripOf
  <2>1. UNCHANGED <<pc[j], at[j], fd[j], image[j], T(j)>>
    BY DEF T, TmpOf
  <2>2. Own(j)' => Own(j)
    BY <2>1 DEF Own
  <2> QED
    BY <2>1, <2>2 DEF Links, Grip, GripOf
<1> QED
  BY <1>1, <1>2, <1>3 DEF Links

\* Whoever writes where nobody else is at work writes alone.
LEMMA SoleWriter ==
    ASSUME Types, Places, Claimed, Links, NEW j \in Writers, InFlight(j), T(j) \notin shared,
           tmp[T(j)] # None
    PROVE  \A k \in Writers \ {j} : pc[k] = "write" => fd[k] # tmp[T(j)]
<1>1. T(j) \in Names
  BY TmpIsName
<1> QED
  BY <1>1 DEF Claimed, InFlight, Links, Grip, GripOf

LEMMA LinksInit == Init => Claimed /\ Links
<1> SUFFICES ASSUME Init PROVE Claimed /\ Links
  OBVIOUS
<1> USE WritersAssumption
<1>1. Claimed /\ Grip
  BY DEF Init, Claimed, Grip, GripOf, InFlight
<1>2. Unique
  BY DEF Init, Unique, Inodes, Names
<1>3. Unused
  BY DEF Init, Unused, UnusedBy, Inodes, Writers
<1> QED
  BY <1>1, <1>2, <1>3 DEF Links

\* Nobody whose file is its own has the file that another job is writing.
LEMMA OtherFile ==
    ASSUME Types, Places, Claimed, Links, NEW j \in Writers, pc[j] = "write",
           NEW k \in Writers \ {j}, pc[k] \in {"write", "rename", "renamed"}, Own(k)
    PROVE  fd[k] # fd[j]
<1>1. InFlight(j) /\ InFlight(k) /\ T(k) \in Names /\ at[k] \in Names
  BY TmpIsName DEF InFlight
<1>2. T(k) # T(j)
  BY <1>1 DEF Claimed, Own
<1>3. CASE pc[k] = "renamed"
  BY <1>1, <1>3 DEF Links, Grip, GripOf, Own
<1>4. CASE pc[k] # "renamed"
  BY <1>1, <1>2, <1>4 DEF Links, Grip, GripOf
<1> QED
  BY <1>3, <1>4

\* The steps that write: of the file a job has, or of no name's.
LEMMA LinksWritten ==
    ASSUME Types, Places, Claimed, Links, NEW j \in Writers, WriteEnd(j) \/ WriteFails(j)
    PROVE  Links'
<1> USE DEF Goto, history
<1>1. CASE pc[j] = "open"
  <2>1. WriteFails(j) /\ UNCHANGED files
    BY <1>1 DEF WriteEnd, WriteFails, files
  <2> QED
    BY <2>1, LinksKept DEF WriteFails, Answer, Types, TypeOK
<1>2. CASE pc[j] = "write"
  <2>1. JobStep(j) /\ OnlyJob(j)
    BY OneJob DEF JobStep, Write
  <2>2. /\ UNCHANGED <<file, tmp, shared>> /\ fd[j] \in Inodes /\ fd[j] # None
        /\ pc'[j] \in {"rename", "done"} /\ fd'[j] \in {fd[j], None}
        /\ \A i \in Inodes \ {fd[j]} : data'[i] = data[i]
    BY <1>2, WritersAssumption
    DEF WriteEnd, WriteFails, Answer, Types, TypeOK, Places, JobPlace, Opened
  <2>3. Unique'
    BY <2>2 DEF Links, Unique
  <2>4. Unused'
    <3> SUFFICES ASSUME NEW k \in Writers, pc'[k] \in {"idle", "path", "open"}
                 PROVE  UnusedBy(k)'
      BY DEF Unused, UnusedBy
    <3>1. k # j /\ k # None /\ pc[k] = pc'[k]
      BY <2>1, <2>2, WritersAssumption DEF OnlyJob, Inodes
    <3>2. \A l \in Writers : fd'[l] \in {fd[l], None}
      BY <2>1, <2>2 DEF OnlyJob
    <3> QED
      BY <2>2, <3>1, <3>2 DEF Links, Unused, UnusedBy
  <2>5. ASSUME NEW k \in Writers \ {j}
        PROVE  GripOf(k)'
    <3>1. UNCHANGED <<pc[k], at[k], fd[k], image[k], T(k)>> /\ (Own(k)' => Own(k))
      BY <2>1, <2>2 DEF OnlyJob, T, TmpOf, Own
    <3>2. pc[k] \in {"write", "rename", "renamed"} /\ Own(k) => UNCHANGED data[fd[k]]
      <4> SUFFICES ASSUME pc[k] \in {"write", "rename", "renamed"}, Own(k)
                   PROVE  UNCHANGED data[fd[k]]
        OBVIOUS
      <4>1. fd[k] # fd[j]
        BY <1>2, OtherFile
      <4>2. fd[k] \in Inodes
        BY DEF Places, JobPlace, Opened
      <4> QED
        BY <2>2, <3>1, <4>1, <4>2
    <3> QED
      BY <2>2, <3>1, <3>2 DEF Links, Grip, GripOf
  <2>6. GripOf(j)'
    <3>1. CASE pc'[j] # "rename"
      BY <2>2, <3>1 DEF GripOf
    <3>2. CASE pc'[j] = "rename"
      <4>1. WriteEnd(j) /\ UNCHANGED <<at, fd, image, T(j)>>
        BY <1>2, <3>2 DEF WriteEnd, WriteFails, Answer, Types, TypeOK, T, TmpOf
      <4>2. ASSUME T(j) \notin shared
            PROVE  tmp[T(j)] = fd[j] /\ data'[fd[j]] = image[j]
        <5>1. tmp[T(j)] = fd[j] /\ data[fd[j]] = Torn
          BY <1>2, <4>2 DEF Links, Grip, GripOf, Own
        <5>2. \A k \in Writers \ {j} : pc[k] = "write" => fd[k] # fd[j]
          BY <1>2, <2>2, <4>2, <5>1, SoleWriter DEF InFlight
        <5>3. Writing(fd[j]) = {j}
          BY <1>2, <5>2 DEF Writing
        <5> QED
          BY <2>2, <4>1, <5>1, <5>3 DEF WriteEnd, Types, TypeOK
      <4> QED
        BY <2>2, <3>2, <4>1, <4>2 DEF GripOf, Own
    <3> QED
      BY <3>1, <3>2
  <2> QED
    BY <2>3, <2>4, <2>5, <2>6 DEF Links, Grip, GripOf
<1> QED
  BY <1>1, <1>2 DEF WriteEnd, WriteFails

\* Opening the temporary file: it is new, or it was nobody's.
LEMMA LinksOpened ==
    ASSUME Types, Places, Claimed, Links, NEW j \in Writers, OpenTmp(j)
    PROVE  Links'
<1> DEFINE t == T(j)
           i == IF tmp[t] = None THEN j ELSE tmp[t]
<1> USE WritersAssumption
<1>1. InFlight(j) /\ TmpOf(j, at[j]) = t /\ t \in Names /\ pc[j] = "open"
  BY TmpIsName DEF OpenTmp, InFlight
<1>2. /\ tmp' = [tmp EXCEPT ![t] = i] /\ fd' = [fd EXCEPT ![j] = i]
      /\ data' = [data EXCEPT ![i] = IF Writing(i) = {} THEN Torn ELSE Mixed]
      /\ UNCHANGED <<file, at, shared>> /\ pc'[j] = "write"
      /\ \A k \in Writers \ {j} : pc'[k] = pc[k]
    BY <1>1 DEF OpenTmp, Goto, history, Types, TypeOK
<1>3. OnlyJob(j)
  BY OneJob DEF JobStep, Write
<1>4. /\ i \in Inodes /\ i # None
      /\ tmp \in [Names -> Inodes \cup {None}] /\ data \in [Inodes -> Content \cup {Torn, Mixed}]
      /\ fd \in [Writers -> Inodes \cup {None}]
  BY <1>1 DEF Types, TypeOK, Inodes
<1>5. /\ \A n \in Names : file[n] # j /\ tmp[n] # j
      /\ \A k \in Writers : fd[k] # j
  BY <1>1 DEF Links, Unused, UnusedBy
<1>6. i = j \/ (i = tmp[t] /\ tmp[t] # None)
  OBVIOUS
<1>7. \A n \in Names : file[n] # i /\ (tmp[n] = i => n = t)
  BY <1>1, <1>4, <1>5, <1>6 DEF Links, Unique
<1> HIDE DEF t, i
<1>8. Unique'
  BY <1>1, <1>2, <1>4, <1>7 DEF Links, Unique
<1>9. Unused'
  <2> SUFFICES ASSUME NEW k \in Writers, pc'[k] \in {"idle", "path", "open"}
               PROVE  UnusedBy(k)'
    BY DEF Unused, UnusedBy
  <2>1. k # j /\ pc[k] = pc'[k]
    BY <1>2, <1>4
  <2>2. i # k
    BY <1>1, <1>6, <2>1 DEF Links, Unused, UnusedBy
  <2> QED
    BY <1>2, <1>4, <2>1, <2>2 DEF Links, Unused, UnusedBy
<1>10. GripOf(j)'
  <2>1. pc'[j] = "write" /\ fd'[j] = i /\ T(j)' = t
    BY <1>2, <1>4 DEF T, TmpOf, t
  <2>2. \A n \in Names : (tmp'[n] = i => n = t) /\ file'[n] # i
    BY <1>2, <1>4, <1>7
  <2>3. tmp'[t] = i
    BY <1>1, <1>2, <1>4
  <2>4. ASSUME t \notin shared
        PROVE  data'[i] = Torn
    <3>1. \A k \in Writers : pc[k] = "write" => fd[k] # i
      BY <1>1, <1>5, <1>6, <2>4, SoleWriter DEF t
    <3>2. Writing(i) = {}
      BY <3>1 DEF Writing
    <3> QED
      BY <1>2, <1>4, <3>2
  <2> QED
    BY <1>2, <2>1, <2>2, <2>3, <2>4 DEF GripOf, Own
<1>11. ASSUME NEW k \in Writers \ {j}
       PROVE  GripOf(k)'
  <2>1. UNCHANGED <<pc[k], at[k], fd[k], image[k], T(k)>> /\ (Own(k)' => Own(k))
    BY <1>2, <1>3 DEF OnlyJob, T, TmpOf, Own
  <2>2. CASE pc[k] \notin {"write", "rename", "renamed"}
    BY <2>1, <2>2 DEF GripOf
  <2>3. CASE pc[k] \in {"write", "rename", "renamed"}
    <3>1. InFlight(k) /\ T(k) \in Names /\ at[k] \in Names /\ fd[k] \in Inodes
      BY <2>3, TmpIsName DEF InFlight, Places, JobPlace, Opened
    <3>2. pc[k] = "write" => \A n \in Names : tmp'[n] = fd[k] => n = T(k)
      <4> SUFFICES ASSUME pc[k] = "write", NEW n \in Names, tmp'[n] = fd[k] PROVE n = T(k)
        OBVIOUS
      <4>1. CASE tmp[n] = fd[k]
        BY <4>1 DEF Links, Grip, GripOf
      <4>2. CASE tmp[n] # fd[k]
        <5>1. n = t /\ i = fd[k]
          BY <1>2, <1>4, <4>2
        <5> QED
          BY <1>5, <1>6, <4>2, <5>1
      <4> QED
        BY <4>1, <4>2
    <3>3. ASSUME Own(k)
          PROVE  T(k) # t /\ fd[k] # i
      <4>1. T(k) # t
        BY <1>1, <3>1, <3>3 DEF Claimed, Own, t
      <4>2. fd[k] \in {tmp[T(k)], file[at[k]]}
        BY <2>3, <3>3 DEF Links, Grip, GripOf
      <4> QED
        BY <1>7, <3>1, <4>1, <4>2
    <3> QED
      BY <1>2, <1>4, <2>1, <2>3, <3>1, <3>2, <3>3 DEF Links, Grip, GripOf
  <2> QED
    BY <2>2, <2>3
<1> QED
  BY <1>8, <1>9, <1>10, <1>11 DEF Links, Grip, GripOf

\* The temporary name is gone, by a rename or by the removal of the file.
LEMMA LinksMoved ==
    ASSUME Types, Places, Claimed, Links, NEW j \in Writers, Rename(j) \/ Cleanup(j)
    PROVE  Links'
<1> DEFINE t == T(j)
<1> USE WritersAssumption
<1>1. InFlight(j) /\ TmpOf(j, at[j]) = t /\ t \in Names /\ at[j] \in Names
  BY TmpIsName DEF Rename, Cleanup, InFlight
<1>2. /\ tmp' = [tmp EXCEPT ![t] = None] /\ UNCHANGED data
      /\ \/ file' = [file EXCEPT ![at[j]] = tmp[t]] /\ tmp[t] # None /\ Rename(j)
         \/ UNCHANGED file /\ Cleanup(j)
  BY <1>1 DEF Rename, Cleanup, history
<1>0. shared \subseteq shared' /\ (Rename(j) /\ t \in shared => at[j] \in shared')
  <2>1. CASE Cleanup(j)
    BY <2>1 DEF Cleanup, history, Rename
  <2>2. CASE Rename(j) /\ j \in Exporters
    BY <1>1, <2>2 DEF Rename
  <2>3. CASE Rename(j) /\ j \notin Exporters
    BY <2>3 DEF Rename, T, TmpOf
  <2> QED
    BY <2>1, <2>2, <2>3
<1>3. /\ pc'[j] \in {"renamed", "done"} /\ fd'[j] \in {fd[j], None}
      /\ pc'[j] = "renamed" => Rename(j) /\ pc[j] = "rename" /\ UNCHANGED <<at, fd, image>>
  BY DEF Rename, Cleanup, Answer, Goto, Types, TypeOK
<1>4. OnlyJob(j)
  BY OneJob DEF JobStep, Write
<1>5. tmp \in [Names -> Inodes \cup {None}] /\ file \in [Names -> Inodes \cup {None}]
  BY DEF Types, TypeOK
<1> HIDE DEF t
<1>7. Unique'
  BY <1>1, <1>2, <1>5 DEF Links, Unique
<1>8. Unused'
  <2> SUFFICES ASSUME NEW k \in Writers, pc'[k] \in {"idle", "path", "open"}
               PROVE  UnusedBy(k)'
    BY DEF Unused, UnusedBy
  <2>1. k # j /\ k # None /\ pc[k] = pc'[k]
    BY <1>3, <1>4 DEF OnlyJob, Inodes
  <2>2. \A l \in Writers : fd'[l] \in {fd[l], None}
    BY <1>3, <1>4 DEF OnlyJob
  <2> QED
    BY <1>1, <1>2, <1>5, <2>1, <2>2 DEF Links, Unused, UnusedBy
<1>9. GripOf(j)'
  <2>1. CASE pc'[j] = "done"
    BY <2>1 DEF GripOf
  <2>2. CASE pc'[j] = "renamed"
    <3>1. T(j)' = t /\ file'[at[j]] = tmp[t]
      BY <1>1, <1>2, <1>3, <1>5, <2>2 DEF T, TmpOf, t, Cleanup, Answer, Goto, Types, TypeOK
    <3>2. t \notin shared => tmp[t] = fd[j] /\ data[fd[j]] = image[j]
      BY <1>3, <2>2 DEF Links, Grip, GripOf, Own, t
    <3>3. Own(j)' => t \notin shared
      BY <1>0, <3>1 DEF Own
    <3> QED
      BY <1>2, <1>3, <2>2, <3>1, <3>2, <3>3 DEF GripOf
  <2> QED
    BY <1>3, <2>1, <2>2
<1>10. ASSUME NEW k \in Writers \ {j}
       PROVE  GripOf(k)'
  <2>1. UNCHANGED <<pc[k], at[k], fd[k], image[k], T(k)>> /\ (Own(k)' => Own(k))
    BY <1>0, <1>4 DEF OnlyJob, T, TmpOf, Own
  <2>2. CASE pc[k] \notin {"write", "rename", "renamed"}
    BY <2>1, <2>2 DEF GripOf
  <2>3. CASE pc[k] \in {"write", "rename", "renamed"}
    <3>1. InFlight(k) /\ T(k) \in Names /\ at[k] \in Names /\ fd[k] \in Inodes /\ fd[k] # None
      BY <2>3, TmpIsName DEF InFlight, Places, JobPlace, Opened
    <3>2. (T(k) = t => t \in shared) /\ (at[k] = at[j] => at[k] \in shared)
      BY <1>1, <3>1 DEF Claimed, t
    <3>3. ASSUME pc[k] = "write", NEW n \in Names
          PROVE  /\ tmp'[n] = fd[k] => n = T(k)
                 /\ file'[n] = fd[k] => n \in shared' /\ T(k) \in shared'
      <4>1. tmp'[n] = fd[k] => tmp[n] = fd[k]
        BY <1>2, <1>5, <3>1
      <4>2. ASSUME file'[n] = fd[k], file[n] # fd[k]
            PROVE  n \in shared' /\ T(k) \in shared'
        <5>1. n = at[j] /\ tmp[t] = fd[k] /\ Rename(j)
          BY <1>2, <1>5, <4>2
        <5>2. t = T(k)
          BY <1>1, <3>3, <5>1 DEF Links, Grip, GripOf
        <5> QED
          BY <1>0, <3>2, <5>1, <5>2
      <4> QED
        BY <1>0, <3>3, <4>1, <4>2 DEF Links, Grip, GripOf
    <3>4. ASSUME Own(k)
          PROVE  tmp'[T(k)] = tmp[T(k)] /\ (pc[k] = "renamed" => file'[at[k]] = file[at[k]])
      <4>1. T(k) # t /\ (pc[k] = "renamed" => at[k] # at[j])
        BY <3>2, <3>4 DEF Own
      <4> QED
        BY <1>1, <1>2, <1>5, <3>1, <4>1
    <3> QED
      BY <1>2, <2>1, <2>3, <3>1, <3>3, <3>4 DEF Links, Grip, GripOf
  <2> QED
    BY <2>2, <2>3
<1> QED
  BY <1>7, <1>8, <1>9, <1>10 DEF Links, Grip, GripOf

LEMMA LinksNext == Types /\ Places /\ Claimed /\ Links /\ [Next]_vars => Links'
<1> SUFFICES ASSUME Types, Places, Claimed, Links, [Next]_vars PROVE Links'
  OBVIOUS
<1>0. shared \subseteq shared'
  BY SharedGrows
<1>1. ASSUME NEW j \in Writers, JobStep(j)
      PROVE  Links'
  <2>0. OnlyJob(j)
    BY <1>1, OneJob
  <2>1. CASE OpenTmp(j)
    BY <2>1, LinksOpened
  <2>2. CASE WriteEnd(j) \/ WriteFails(j)
    BY <2>2, LinksWritten
  <2>3. CASE Rename(j) \/ Cleanup(j)
    BY <2>3, LinksMoved
  <2>4. CASE ~Write(j) \/ RenameFails(j) \/ Reply(j)
    <3> DEFINE Quiet ==
             /\ UNCHANGED files
             /\ pc'[j] \in {"write", "rename", "renamed"} =>
                    UNCHANGED <<pc[j], at[j], fd[j], image[j]>>
             /\ pc'[j] \in {"idle", "path", "open"} => pc[j] \in {"idle", "path", "open"}
             /\ fd'[j] \in {fd[j], None}
    <3>1. Quiet
      <4> USE DEF Goto, Types, TypeOK
      <4>1. CASE j \in Savers /\ SaveStart(j)
        BY <4>1 DEF SaveStart
      <4>2. ASSUME NEW p \in Paths, CreateCheck(j, p)
            PROVE  Quiet
        BY <4>2 DEF CreateCheck, Answer
      <4>3. CASE ExportPath(j)
        BY <4>3 DEF ExportPath, Answer
      <4>4. ASSUME NEW d \in Dests, ExportVerify(j, d)
            PROVE  Quiet
        BY <4>4 DEF ExportVerify
      <4>5. CASE RenameFails(j) \/ Reply(j)
        BY <4>5 DEF RenameFails, Reply, Answer
      <4> QED
        BY <1>1, <2>4, <4>1, <4>2, <4>3, <4>4, <4>5 DEF JobStep
    <3>2. \A k \in Writers \ {j} : UNCHANGED <<pc[k], at[k], fd[k], image[k]>>
      BY <2>0 DEF OnlyJob
    <3> QED
      BY <1>0, <3>1, <3>2, LinksKept
  <2> QED
    BY <2>1, <2>2, <2>3, <2>4 DEF Write
<1>2. CASE Lock \/ \E p \in Paths : Unlock(p)
  BY <1>0, <1>2, LinksKept DEF Lock, Unlock, locals
<1>3. CASE Crash
  <2>1. UNCHANGED files
    BY <1>3 DEF Crash
  <2>2. \A k \in Writers : /\ pc'[k] = (IF InFlight(k) THEN "done" ELSE pc[k])
                           /\ fd'[k] = None /\ UNCHANGED <<at[k], image[k]>>
    BY <1>3 DEF Crash
  <2>3. ASSUME NEW k \in Writers
        PROVE  /\ pc'[k] \notin {"write", "rename", "renamed"}
               /\ pc'[k] \in {"idle", "path", "open"} => pc[k] \in {"idle", "path", "open"}
    BY <2>2 DEF InFlight
  <2> QED
    BY <1>0, <2>1, <2>2, <2>3, LinksKept
<1>4. CASE UNCHANGED vars
  BY <1>0, <1>4, LinksKept DEF vars, locals
<1> QED
  BY <1>1, <1>2, <1>3, <1>4, NextCases

\* The jobs, the claims and the names, together.
Base == Types /\ Places /\ Claimed /\ Links

LEMMA BaseInit == Init => Base
BY TypesInit, LinksInit DEF Base

LEMMA BaseNext == Base /\ [Next]_vars => Base'
BY TypesNext, PlacesNext, ClaimedNext, LinksNext DEF Base
-----------------------------------------------------------------------------
\* A saver's image is the session; a new vault's, its creator's.
Images ==
    /\ \A s \in Savers : pc[s] \in Opened => image[s] = [pw |-> session.pw, jobs |-> session.jobs]
    /\ \A c \in Creators : pc[c] \in Opened => image[c] = [pw |-> c, jobs |-> {c}]

\* The session has what its file has.
HasItsFile ==
    /\ file[session.path] # None
    /\ session.path \notin shared =>
          Whole(session.path) /\ At(session.path).jobs \subseteq session.jobs
SessionCurrent == session # Locked => HasItsFile

\* The path of a vault being created stays free until the vault is there.
Vacant == \A c \in Creators :
    InFlight(c) /\ pc[c] # "renamed" /\ at[c] \notin shared => file[at[c]] = None

\* Until it is copied, a vault has what was reported when the export was
\* asked for.
AskedThen == \A e \in Exporters :
    pc[e] \in {"path", "open"} /\ seen[e].path \notin shared =>
       asked[e] \subseteq acked[seen[e].path]

\* And it keeps the password the export verified.
SamePassword(e) ==
    /\ Whole(seen[e].path) /\ At(seen[e].path).pw = seen[e].pw
    /\ session # Locked /\ session.path = seen[e].path => session.pw = seen[e].pw
PasswordStays == \A e \in Exporters :
    pc[e] \in {"path", "open"} /\ e \notin unsure /\ seen[e].path \notin shared =>
       SamePassword(e)

\* And the copy is what an export reported Ok must be.
GoodCopy(e) ==
    /\ image[e] \in Content
    /\ source[e] = seen[e].path => /\ asked[e] \subseteq image[e].jobs
                                   /\ e \in unsure \/ image[e].pw = seen[e].pw
Copied == \A e \in Exporters :
    /\ pc[e] \in {"write", "rename"} /\ source[e] \notin shared => GoodCopy(e)
    /\ (pc[e] = "renamed" \/ result[e] = "ok") /\ at[e] \notin shared => GoodCopy(e)

Contents == /\ Images /\ SessionCurrent /\ Vacant /\ WholeFiles /\ AckedKept
            /\ AskedThen /\ PasswordStays /\ Copied

LEMMA ContentsInit == Init => Contents
<1> SUFFICES ASSUME Init PROVE Contents
  OBVIOUS
<1> USE WritersAssumption
<1>1. Images /\ SessionCurrent /\ Vacant /\ AskedThen /\ PasswordStays /\ Copied
  BY DEF Init, Images, SessionCurrent, Vacant, AskedThen, PasswordStays, Copied, Opened, InFlight,
         Writers
<1>2. WholeFiles
  BY DEF Init, WholeFiles, Whole, Content, Inodes
<1>3. AckedKept
  BY DEF Init, AckedKept
<1> QED
  BY <1>1, <1>2, <1>3 DEF Contents

LEMMA StaysOpened ==
    ASSUME Base, [Next]_vars, NEW j \in Writers, pc'[j] \in Opened, ~OpenTmp(j)
    PROVE  /\ pc[j] \in Opened
           /\ pc'[j] \in {"write", "rename"} => pc[j] \in {"write", "rename"}
           /\ pc'[j] = "renamed" => pc[j] = "renamed" \/ Rename(j)
           /\ UNCHANGED <<at[j], image[j]>>
           /\ j \in Savers => UNCHANGED session
           /\ j \in Exporters => UNCHANGED <<seen[j], source[j]>>
<1> DEFINE Same == /\ pc[j] \in Opened
                   /\ pc'[j] \in {"write", "rename"} => pc[j] \in {"write", "rename"}
                   /\ pc'[j] = "renamed" => pc[j] = "renamed" \/ Rename(j)
                   /\ UNCHANGED <<at[j], image[j]>>
                   /\ j \in Savers => UNCHANGED session
                   /\ j \in Exporters => UNCHANGED <<seen[j], source[j]>>
<1> USE DEF Base, Opened, Types, TypeOK, Goto
<1>1. CASE JobStep(j)
  <2>1. CASE WriteEnd(j) \/ RenameFails(j)
    BY <2>1 DEF WriteEnd, RenameFails
  <2>6. CASE Rename(j)
    <3>1. /\ pc[j] = "rename" /\ pc' = [pc EXCEPT ![j] = "renamed"]
          /\ UNCHANGED <<session, at, image, seen, source>>
      BY <2>6 DEF Rename
    <3> QED
      BY <2>6, <3>1
  <2>2. ~(j \in Savers /\ SaveStart(j)) /\ ~ExportPath(j)
    BY DEF SaveStart, ExportPath, Answer
  <2>3. \A p \in Paths : ~CreateCheck(j, p)
    BY DEF CreateCheck, Answer
  <2>4. \A d \in Dests : ~ExportVerify(j, d)
    BY DEF ExportVerify
  <2>5. ~WriteFails(j) /\ ~Cleanup(j) /\ ~Reply(j)
    BY DEF WriteFails, Cleanup, Reply, Answer
  <2> QED
    BY <1>1, <2>1, <2>2, <2>3, <2>4, <2>5, <2>6 DEF JobStep, Write
<1>2. ASSUME NEW k \in Writers \ {j}, JobStep(k)
      PROVE  Same
  <2>1. OnlyJob(k)
    BY <1>2, OneJob
  <2>2. pc[j] \in Opened /\ UNCHANGED <<pc[j], at[j], image[j]>>
    BY <2>1 DEF OnlyJob
  <2>3. j \in Savers => UNCHANGED session
    BY <1>2, <2>2, SaverAlone DEF InFlight
  <2> QED
    BY <2>1, <2>2, <2>3 DEF OnlyJob
<1>3. CASE Lock \/ \E p \in Paths : Unlock(p)
  <2>1. UNCHANGED locals
    BY <1>3 DEF Lock, Unlock
  <2> QED
    BY <1>3, <2>1, SaverAlone DEF locals, InFlight
<1>4. ~Crash
  BY DEF Crash, InFlight
<1>5. CASE UNCHANGED vars
  BY <1>5 DEF vars, locals
<1> QED
  BY <1>1, <1>2, <1>3, <1>4, <1>5, NextCases

\* What may become of the session.
LEMMA SessionStep ==
    ASSUME [Next]_vars, session' # Locked
    PROVE  \/ UNCHANGED session
           \/ \E s \in Savers : SaveStart(s)
           \/ \E p \in Paths : Unlock(p)
BY DEF Next, CreateCheck, ExportVerify, ExportPath, Write, OpenTmp, WriteEnd, WriteFails, Rename,
       RenameFails, Cleanup, Reply, Lock, Crash, vars

\* An export that leaves its destination one job's at a time copied a vault
\* that is one job's at a time, and replaces nothing that is in use.
LEMMA CleanRename ==
    ASSUME Base, [Next]_vars, NEW j \in Writers, Rename(j), at[j] \notin shared'
    PROVE  /\ at[j] \notin shared /\ T(j) \notin shared
           /\ j \in Exporters => source[j] \notin shared /\ ~InUse(at[j])
<1>1. TmpOf(j, at[j]) = T(j)
  BY DEF T
<1>2. CASE j \in Exporters
  BY <1>1, <1>2 DEF Rename
<1>3. CASE j \notin Exporters
  BY <1>1, <1>3 DEF Rename, TmpOf
<1> QED
  BY <1>2, <1>3

\* A name that is one job's at a time leads to what it led to, or to what a
\* job has just renamed: all it had to write.
LEMMA FileStep ==
    ASSUME Base, [Next]_vars, NEW n \in Names, n \notin shared'
    PROVE  \/ UNCHANGED file[n] /\ (file[n] # None => UNCHANGED At(n))
           \/ \E j \in Writers : /\ Rename(j) /\ at[j] = n
                                 /\ Whole(n)' <=> image[j] \in Content
                                 /\ file'[n] # None /\ At(n)' = image[j]
<1> DEFINE Kept == UNCHANGED file[n] /\ (file[n] # None => UNCHANGED At(n))
<1> USE WritersAssumption DEF Base, Types, TypeOK
<1>0. n \notin shared
  BY SharedGrows
<1>1. ASSUME NEW j \in Writers, OpenTmp(j)
      PROVE  Kept
  <2>1. UNCHANGED file
    BY <1>1 DEF OpenTmp
  <2>2. PICK i \in Inodes : /\ data' = [data EXCEPT ![i] = IF Writing(i) = {} THEN Torn ELSE Mixed]
                            /\ file[n] # i
    <3> DEFINE t == T(j)
               i == IF tmp[t] = None THEN j ELSE tmp[t]
    <3>1. TmpOf(j, at[j]) = t /\ t \in Names /\ pc[j] = "open"
      BY <1>1, TmpIsName DEF OpenTmp, InFlight
    <3>2. i \in Inodes /\ file[n] # i
      BY <3>1 DEF Links, Unique, Unused, UnusedBy, Inodes
    <3> QED
      BY <1>1, <3>1, <3>2 DEF OpenTmp
  <2> QED
    BY <2>1, <2>2 DEF At
<1>2. ASSUME NEW j \in Writers, WriteEnd(j) \/ WriteFails(j)
      PROVE  Kept
  <2>1. UNCHANGED file /\ \A i \in Inodes : data'[i] = data[i] \/ (pc[j] = "write" /\ i = fd[j])
    BY <1>2 DEF WriteEnd, WriteFails
  <2>2. pc[j] = "write" => file[n] # fd[j]
    BY <1>0 DEF Links, Grip, GripOf
  <2> QED
    BY <2>1, <2>2 DEF At
<1>3. ASSUME NEW j \in Writers, Rename(j), at[j] # n
      PROVE  Kept
  BY <1>3 DEF Rename, At
<1>4. ASSUME NEW j \in Writers, Rename(j), at[j] = n
      PROVE  /\ Whole(n)' <=> image[j] \in Content
             /\ file'[n] # None /\ At(n)' = image[j]
  <2>1. T(j) \notin shared /\ TmpOf(j, at[j]) = T(j) /\ pc[j] = "rename"
    BY <1>4, CleanRename DEF T, Rename
  <2>2. tmp[T(j)] = fd[j] /\ data[fd[j]] = image[j]
    BY <2>1 DEF Links, Grip, GripOf, Own
  <2>3. file'[n] = fd[j] /\ fd[j] # None /\ UNCHANGED data
    BY <1>4, <2>1, <2>2 DEF Rename
  <2> QED
    BY <2>2, <2>3 DEF Whole, At
<1>5. CASE UNCHANGED <<file, data>>
  BY <1>5 DEF At
<1>6. \/ \E j \in Writers : OpenTmp(j) \/ WriteEnd(j) \/ WriteFails(j) \/ Rename(j)
      \/ UNCHANGED <<file, data>>
  BY DEF Next, SaveStart, CreateCheck, ExportVerify, ExportPath, Write, RenameFails, Cleanup, Reply,
         Lock, Unlock, Crash, vars, files
<1> QED
  BY <1>1, <1>2, <1>3, <1>4, <1>5, <1>6

\* No name is ever removed.
LEMMA FileStays ==
    ASSUME Types, [Next]_vars, NEW n \in Names, file[n] # None
    PROVE  file'[n] # None
BY DEF Next, SaveStart, CreateCheck, ExportVerify, ExportPath, Write, OpenTmp, WriteEnd, WriteFails,
       Rename, RenameFails, Cleanup, Reply, Lock, Unlock, Crash, vars, files, Types, TypeOK

\* What a save or a creation renames is the session, or a new vault where
\* there was none.
LEMMA Renamed ==
    ASSUME Base, Contents, NEW j \in Writers \ Exporters, Rename(j)
    PROVE  \/ /\ j \in Savers /\ session \in Sessions /\ session.path = at[j]
              /\ image[j] = [pw |-> session.pw, jobs |-> session.jobs] /\ image[j] \in Content
           \/ /\ j \in Creators /\ image[j] \in Content
              /\ at[j] \notin shared => file[at[j]] = None
<1> USE WritersAssumption
<1>1. pc[j] = "rename" /\ InFlight(j) /\ pc[j] \in Opened
  BY DEF Rename, InFlight, Opened
<1>3. CASE j \in Savers
  <2>1. session \in Sessions /\ session.path = at[j]
    BY <1>1, <1>3 DEF Base, Places, SaverPlace, Types, TypeOK
  <2>2. image[j] = [pw |-> session.pw, jobs |-> session.jobs]
    BY <1>1, <1>3 DEF Contents, Images
  <2> QED
    BY <1>3, <2>1, <2>2 DEF Sessions, Content, Inodes
<1>4. CASE j \in Creators
  <2>1. image[j] = [pw |-> j, jobs |-> {j}]
    BY <1>1, <1>4 DEF Contents, Images
  <2> QED
    BY <1>1, <1>4, <2>1 DEF Content, Contents, Vacant, Writers
<1> QED
  BY <1>3, <1>4 DEF Writers

\* What an export renames is the copy it promised.
LEMMA Exported ==
    ASSUME Base, Contents, [Next]_vars, NEW j \in Exporters, Rename(j), at[j] \notin shared'
    PROVE  GoodCopy(j) /\ ~InUse(at[j])
<1>1. j \in Writers /\ pc[j] = "rename"
  BY DEF Rename, Writers
<1>2. source[j] \notin shared /\ ~InUse(at[j])
  BY <1>1, CleanRename
<1> QED
  BY <1>1, <1>2 DEF Contents, Copied

LEMMA ImagesNext == Base /\ Contents /\ [Next]_vars => Images'
<1> SUFFICES ASSUME Base, Contents, [Next]_vars PROVE Images'
  OBVIOUS
<1>1. ASSUME NEW j \in Savers \cup Creators, pc'[j] \in Opened
      PROVE  IF j \in Savers THEN image'[j] = [pw |-> session'.pw, jobs |-> session'.jobs]
                             ELSE image'[j] = [pw |-> j, jobs |-> {j}]
  <2>0. j \in Writers
    BY DEF Writers
  <2>1. CASE OpenTmp(j)
    <3>1. image'[j] = Bytes(j) /\ UNCHANGED session
      BY <2>0, <2>1 DEF OpenTmp, Base, Types, TypeOK
    <3> QED
      BY <3>1, WritersAssumption DEF Bytes
  <2>2. CASE ~OpenTmp(j)
    BY <1>1, <2>0, <2>2, StaysOpened DEF Contents, Images
  <2> QED
    BY <2>1, <2>2
<1> QED
  BY <1>1, WritersAssumption DEF Images

LEMMA SessionCurrentNext == Base /\ Contents /\ [Next]_vars => SessionCurrent'
<1> SUFFICES ASSUME Base, Contents, [Next]_vars, session' # Locked
             PROVE  HasItsFile'
  BY DEF SessionCurrent, HasItsFile
<1>0. shared \subseteq shared'
  BY SharedGrows
<1>1. CASE UNCHANGED session
  <2>0. PICK p \in Paths : p = session.path
    BY <1>1 DEF Base, Types, TypeOK, Sessions
  <2>1. p \in Names /\ session # Locked
    BY <1>1 DEF Names
  <2>2. file[p] # None /\ file'[p] # None
    BY <2>0, <2>1, FileStays DEF Base, Contents, SessionCurrent, HasItsFile
  <2>3. ASSUME p \notin shared'
        PROVE  Whole(p)' /\ At(p)'.jobs \subseteq session.jobs
    <3>1. p \notin shared /\ Whole(p) /\ At(p).jobs \subseteq session.jobs
      BY <1>0, <2>0, <2>1, <2>3 DEF Contents, SessionCurrent, HasItsFile
    <3>2. CASE UNCHANGED file[p] /\ UNCHANGED At(p)
      BY <3>1, <3>2 DEF Whole, At
    <3>3. ASSUME NEW j \in Writers, Rename(j), at[j] = p, Whole(p)' <=> image[j] \in Content,
                 At(p)' = image[j]
          PROVE  Whole(p)' /\ At(p)'.jobs \subseteq session.jobs
      <4>1. j \notin Exporters
        BY <2>0, <2>1, <2>3, <3>3, CleanRename DEF InUse
      <4> QED
        BY <2>0, <2>1, <2>2, <3>1, <3>3, <4>1, Renamed
    <3> QED
      BY <2>1, <2>2, <2>3, <3>1, <3>2, <3>3, FileStep
  <2> QED
    BY <1>1, <2>0, <2>2, <2>3 DEF Whole, At, HasItsFile
<1>2. ASSUME NEW s \in Savers, SaveStart(s)
      PROVE  HasItsFile'
  <2>1. /\ session # Locked /\ session \in Sessions /\ UNCHANGED <<file, data>>
        /\ session' = [session EXCEPT !.jobs = @ \cup {s}, !.pw = IF s \in Rekeys THEN s ELSE @]
    BY <1>2 DEF SaveStart, files, Base, Types, TypeOK
  <2>2. session'.path = session.path /\ session.jobs \subseteq session'.jobs
    BY <2>1 DEF Sessions
  <2> QED
    BY <1>0, <2>1, <2>2 DEF Contents, SessionCurrent, HasItsFile, Whole, At
<1>3. ASSUME NEW p \in Paths, Unlock(p)
      PROVE  HasItsFile'
  BY <1>3 DEF Unlock, files, Whole, At, HasItsFile
<1> QED
  BY <1>1, <1>2, <1>3, SessionStep

LEMMA VacantNext == Base /\ Contents /\ [Next]_vars => Vacant'
<1> SUFFICES ASSUME Base, Contents, [Next]_vars, NEW c \in Creators,
                    InFlight(c)', pc'[c] # "renamed", at'[c] \notin shared'
             PROVE  file'[at'[c]] = None
  BY DEF Vacant
<1> USE WritersAssumption DEF Base
<1>0. shared \subseteq shared' /\ c \in Writers \ (Exporters \cup Savers)
  BY SharedGrows DEF Writers
<1>1. ASSUME NEW p \in Paths, CreateCheck(c, p)
      PROVE  file'[at'[c]] = None
  <2>1. file[p] = None /\ Claim(c, p)
    BY <1>0, <1>1 DEF CreateCheck, Answer, Goto, InFlight, Types, TypeOK
  <2> QED
    BY <1>0, <1>1, <2>1 DEF CreateCheck, Claim, files, Types, TypeOK
<1>2. ASSUME \A p \in Paths : ~CreateCheck(c, p)
      PROVE  InFlight(c) /\ pc[c] # "renamed" /\ UNCHANGED at[c]
  <2> USE DEF InFlight, Types, TypeOK, Goto
  <2>1. CASE Write(c)
    BY <1>0, <2>1 DEF Write, OpenTmp, WriteEnd, WriteFails, Rename, RenameFails, Cleanup, Reply, Answer
  <2>2. ASSUME NEW k \in Writers \ {c}, JobStep(k)
        PROVE  UNCHANGED <<pc[c], at[c]>>
    BY <1>0, <2>2, OneJob DEF OnlyJob
  <2>3. CASE Lock \/ (\E p \in Paths : Unlock(p)) \/ UNCHANGED vars
    BY <2>3 DEF Lock, Unlock, locals, vars
  <2>4. ~Crash
    BY <1>0 DEF Crash
  <2> QED
    BY <1>0, <1>2, <2>1, <2>2, <2>3, <2>4, NextCases DEF JobStep
<1>3. ASSUME InFlight(c), pc[c] # "renamed", UNCHANGED at[c]
      PROVE  file'[at'[c]] = None
  <2> DEFINE p == at[c]
  <2>1. p \in Names /\ p \notin shared /\ p \notin shared'
    BY <1>0, <1>3 DEF Places, JobPlace, Names
  <2>2. file[p] = None
    BY <1>3, <2>1 DEF Contents, Vacant
  <2>3. ASSUME NEW j \in Writers, Rename(j), at[j] = p
        PROVE  FALSE
    <3>1. InFlight(j)
      BY <2>3 DEF Rename, InFlight
    <3>2. j = c
      BY <1>0, <1>3, <2>1, <2>3, <3>1 DEF Claimed
    <3> QED
      BY <1>0, <2>3, <3>2 DEF Rename, Goto, Types, TypeOK
  <2> QED
    BY <1>3, <2>1, <2>2, <2>3, FileStep
<1> QED
  BY <1>1, <1>2, <1>3

LEMMA WholeFilesNext == Base /\ Contents /\ [Next]_vars => WholeFiles'
<1> SUFFICES ASSUME Base, Contents, [Next]_vars, NEW n \in Names, Alone(n)', file'[n] # None
             PROVE  Whole(n)'
  BY DEF WholeFiles
<1>1. Alone(n) /\ n \notin shared'
  BY SharedGrows DEF Alone
<1>2. CASE UNCHANGED file[n] /\ (file[n] # None => UNCHANGED At(n))
  BY <1>1, <1>2 DEF Contents, WholeFiles, Whole, At
<1>3. ASSUME NEW j \in Writers, Rename(j), at[j] = n
      PROVE  image[j] \in Content
  <2>1. CASE j \in Exporters
    BY <1>1, <1>3, <2>1, Exported DEF GoodCopy
  <2>2. CASE j \notin Exporters
    BY <1>3, <2>2, Renamed
  <2> QED
    BY <2>1, <2>2
<1> QED
  BY <1>1, <1>2, <1>3, FileStep

\* A vault that is there before and after has at least what it had, unless
\* something shares its name or an export replaces it.
Replaces(e, p) == e \in Exporters /\ Rename(e) /\ at[e] = p
LEMMA JobsStay ==
    ASSUME Base, Contents, [Next]_vars, NEW p \in Paths, p \notin shared', Whole(p),
           \A e \in Exporters : ~Replaces(e, p)
    PROVE  Whole(p)' /\ At(p).jobs \subseteq At(p)'.jobs
<1>1. p \in Names /\ file[p] # None /\ p \notin shared
  BY SharedGrows DEF Names, Whole
<1>2. ASSUME NEW j \in Writers, Rename(j), at[j] = p, Whole(p)' <=> image[j] \in Content,
             At(p)' = image[j]
      PROVE  Whole(p)' /\ At(p).jobs \subseteq At(p)'.jobs
  <2>0. j \notin Exporters
    BY <1>2 DEF Replaces
  <2>1. /\ session \in Sessions /\ session.path = p /\ image[j] \in Content
        /\ image[j] = [pw |-> session.pw, jobs |-> session.jobs]
    BY <1>1, <1>2, <2>0, Renamed
  <2>2. session # Locked
    BY <2>1, WritersAssumption
  <2> QED
    BY <1>1, <1>2, <2>1, <2>2 DEF Contents, SessionCurrent, HasItsFile
<1> QED
  BY <1>1, <1>2, FileStep DEF Whole, At

LEMMA AckedKeptNext == Base /\ Contents /\ [Next]_vars => AckedKept'
<1> SUFFICES ASSUME Base, Contents, [Next]_vars, NEW p \in Paths, Alone(p)', acked'[p] # {}
             PROVE  Whole(p)' /\ acked'[p] \subseteq At(p)'.jobs
  BY DEF AckedKept
<1>1. Alone(p) /\ p \notin shared /\ p \notin shared' /\ p \in Names
  BY SharedGrows DEF Alone, Names
<1>2. CASE UNCHANGED acked[p] /\ \A e \in Exporters : ~Replaces(e, p)
  <2>1. Whole(p) /\ acked[p] \subseteq At(p).jobs
    BY <1>1, <1>2 DEF Contents, AckedKept
  <2> QED
    BY <1>1, <1>2, <2>1, JobsStay
<1>5. ASSUME NEW e \in Exporters, Replaces(e, p)
      PROVE  Whole(p)' /\ acked'[p] \subseteq At(p)'.jobs
  <2>1. GoodCopy(e) /\ e \in Writers
    BY <1>1, <1>5, Exported DEF Replaces, Writers
  <2>2. acked'[p] = IF source[e] = seen[e].path THEN asked[e] ELSE {}
    BY <1>5 DEF Replaces, Rename
  <2>3. Whole(p)' /\ At(p)' = image[e]
    <3>1. file'[p] # file[p]
      <4>1. tmp[T(e)] # None /\ T(e) \in Names /\ file'[p] = tmp[T(e)]
        BY <1>1, <1>5, <2>1, TmpIsName DEF Replaces, Rename, InFlight, T, Base, Types, TypeOK
      <4> QED
        BY <1>1, <4>1 DEF Base, Links, Unique
    <3>2. PICK k \in Writers : /\ Rename(k) /\ At(p)' = image[k]
                               /\ Whole(p)' <=> image[k] \in Content
      BY <1>1, <3>1, FileStep
    <3>3. k = e
      <4>1. JobStep(e) /\ pc'[k] = "renamed" /\ pc[k] = "rename"
        BY <1>5, <2>1, <3>2 DEF Replaces, JobStep, Write, Rename, Goto, Base, Types, TypeOK
      <4> QED
        BY <2>1, <4>1, OneJob DEF OnlyJob, Base
    <3> QED
      BY <2>1, <3>2, <3>3 DEF GoodCopy
  <2> QED
    BY <2>1, <2>2, <2>3 DEF GoodCopy
<1>3. ASSUME NEW j \in Writers \ Exporters, Reply(j), at[j] = p
      PROVE  Whole(p)' /\ acked'[p] \subseteq At(p)'.jobs
  <2> USE WritersAssumption DEF Base
  <2>1. /\ pc[j] = "renamed" /\ acked'[p] = acked[p] \cup {j} /\ UNCHANGED <<file, data>>
    BY <1>3 DEF Reply, files, Types, TypeOK
  <2>2. j \in Savers \cup Creators /\ T(j) = p
    BY <1>3 DEF Writers, T, TmpOf
  <2>3. file[p] = fd[j] /\ fd[j] # None /\ At(p) = image[j]
    BY <1>1, <1>3, <2>1, <2>2 DEF Links, Grip, GripOf, Own, Places, JobPlace, Opened, At
  <2>4. image[j] \in Content /\ j \in image[j].jobs
    <3>1. CASE j \in Savers
      <4>1. image[j] = [pw |-> session.pw, jobs |-> session.jobs]
        BY <2>1, <3>1 DEF Contents, Images, Opened
      <4>2. session \in Sessions /\ j \in session.jobs
        BY <2>1, <3>1 DEF Places, SaverPlace, InFlight, Types, TypeOK
      <4> QED
        BY <4>1, <4>2 DEF Sessions, Content, Inodes
    <3>2. CASE j \in Creators
      <4>1. image[j] = [pw |-> j, jobs |-> {j}]
        BY <2>1, <3>2 DEF Contents, Images, Opened
      <4> QED
        BY <4>1 DEF Content, Writers
    <3> QED
      BY <2>2, <3>1, <3>2
  <2>5. Whole(p)
    BY <2>3, <2>4 DEF Whole, At
  <2>6. acked[p] \subseteq At(p).jobs
    BY <1>1 DEF Contents, AckedKept
  <2> QED
    BY <2>1, <2>3, <2>4, <2>5, <2>6 DEF Whole, At
<1>4. \/ UNCHANGED acked[p]
      \/ \E j \in Writers \ Exporters : Reply(j) /\ at[j] = p
      \/ \E e \in Exporters : Replaces(e, p)
  <2>1. ASSUME NEW j \in Writers, Reply(j)
        PROVE  UNCHANGED acked[p] \/ (j \notin Exporters /\ at[j] = p)
    BY <2>1 DEF Reply, Base, Types, TypeOK
  <2>2. ASSUME NEW j \in Writers, Rename(j)
        PROVE  UNCHANGED acked[p] \/ Replaces(j, p)
    BY <2>2 DEF Rename, Replaces
  <2>3. UNCHANGED acked \/ \E j \in Writers : Reply(j) \/ Rename(j)
    BY DEF Next, SaveStart, CreateCheck, ExportVerify, ExportPath, Write, OpenTmp, WriteEnd,
       WriteFails, RenameFails, Cleanup, Lock, Unlock, Crash, vars, history
  <2> QED
    BY <2>1, <2>2, <2>3 DEF Replaces
<1> QED
  BY <1>2, <1>3, <1>4, <1>5

\* What an export asked for stays as it was.
LEMMA ExportStep ==
    ASSUME Base, [Next]_vars, NEW e \in Exporters, \A d \in Dests : ~ExportVerify(e, d)
    PROVE  /\ UNCHANGED <<seen[e], asked[e]>>
           /\ pc[e] = "idle" => pc'[e] = "idle"
           /\ pc'[e] \in {"path", "open"} => pc[e] \in {"path", "open"}
<1> USE WritersAssumption DEF Base, Types, TypeOK, Goto
<1>0. e \in Writers \ (Savers \cup Creators)
  BY DEF Writers
<1>1. UNCHANGED asked[e]
  <2>1. UNCHANGED asked \/ \E k \in Exporters, d \in Dests : ExportVerify(k, d)
    BY DEF Next, SaveStart, CreateCheck, ExportPath, Write, OpenTmp, WriteEnd, WriteFails, Rename,
       RenameFails, Cleanup, Reply, Lock, Unlock, Crash, vars, history
  <2>2. ASSUME NEW k \in Exporters, NEW d \in Dests, ExportVerify(k, d)
        PROVE  UNCHANGED asked[e]
    BY <2>2 DEF ExportVerify
  <2> QED
    BY <2>1, <2>2
<1>2. CASE JobStep(e)
  BY <1>0, <1>1, <1>2 DEF JobStep, ExportPath, Write, OpenTmp, WriteEnd, WriteFails, Rename,
     RenameFails, Cleanup, Reply, Answer
<1>3. ASSUME NEW k \in Writers \ {e}, JobStep(k)
      PROVE  UNCHANGED <<pc[e], seen[e]>>
  BY <1>0, <1>3, OneJob DEF OnlyJob
<1>4. CASE Lock \/ (\E p \in Paths : Unlock(p)) \/ UNCHANGED vars
  BY <1>1, <1>4 DEF Lock, Unlock, locals, vars
<1>5. CASE Crash
  BY <1>0, <1>1, <1>5 DEF Crash, InFlight
<1> QED
  BY <1>0, <1>1, <1>2, <1>3, <1>4, <1>5, NextCases

\* What has been reported stays so, unless an export replaces the vault, and
\* so does a doubt about an export.
LEMMA HistoryGrows ==
    ASSUME Base, [Next]_vars
    PROVE  /\ unsure \subseteq unsure'
           /\ \A p \in Paths : acked[p] \subseteq acked'[p] \/ \E e \in Exporters : Replaces(e, p)
<1>1. unsure \subseteq unsure'
  BY DEF Next, SaveStart, CreateCheck, ExportVerify, ExportPath, Write, OpenTmp, WriteEnd, WriteFails,
     Rename, RenameFails, Cleanup, Reply, Lock, Unlock, Crash, vars, history
<1>2. ASSUME NEW j \in Writers, Reply(j)
      PROVE  \A p \in Paths : acked[p] \subseteq acked'[p]
  BY <1>2 DEF Reply, Base, Types, TypeOK
<1>3. ASSUME NEW j \in Writers, Rename(j), NEW p \in Paths
      PROVE  UNCHANGED acked[p] \/ Replaces(j, p)
  BY <1>3 DEF Rename, Replaces
<1>4. (\E j \in Writers : Reply(j) \/ Rename(j)) \/ UNCHANGED acked
  BY DEF Next, SaveStart, CreateCheck, ExportVerify, ExportPath, Write, OpenTmp, WriteEnd, WriteFails,
     RenameFails, Cleanup, Lock, Unlock, Crash, vars, history
<1> QED
  BY <1>1, <1>2, <1>3, <1>4 DEF Replaces

\* No export replaces what another has yet to copy, where names are one job's.
LEMMA NotReplaced ==
    ASSUME Base, [Next]_vars, NEW e \in Exporters, pc[e] \in {"path", "open"},
           seen[e].path \notin shared'
    PROVE  \A k \in Exporters : ~Replaces(k, seen[e].path)
<1> SUFFICES ASSUME NEW k \in Exporters, Replaces(k, seen[e].path) PROVE FALSE
  OBVIOUS
<1>1. ~InUse(seen[e].path)
  BY CleanRename DEF Replaces, Writers
<1> QED
  BY <1>1 DEF InUse

LEMMA AskedThenNext == Base /\ Contents /\ [Next]_vars => AskedThen'
<1> SUFFICES ASSUME Base, Contents, [Next]_vars, NEW e \in Exporters, pc'[e] \in {"path", "open"},
                    seen'[e].path \notin shared'
             PROVE  asked'[e] \subseteq acked'[seen'[e].path]
  BY DEF AskedThen
<1>1. ASSUME NEW d \in Dests, ExportVerify(e, d)
      PROVE  asked'[e] \subseteq acked'[seen'[e].path]
  BY <1>1 DEF ExportVerify, Base, Types, TypeOK
<1>2. CASE \A d \in Dests : ~ExportVerify(e, d)
  <2>1. pc[e] \in {"path", "open"} /\ UNCHANGED <<seen[e], asked[e]>>
    BY <1>2, ExportStep
  <2>2. PICK p \in Paths : p = seen[e].path
    BY <2>1 DEF Base, Places, ExportPlace, Types, TypeOK, Sessions
  <2>3. p \notin shared /\ asked[e] \subseteq acked[p]
    BY <2>1, <2>2, SharedGrows DEF Contents, AskedThen
  <2>4. acked[p] \subseteq acked'[p]
    BY <2>1, <2>2, HistoryGrows, NotReplaced
  <2> QED
    BY <2>1, <2>2, <2>3, <2>4
<1> QED
  BY <1>1, <1>2

LEMMA PasswordStaysNext == Base /\ Contents /\ [Next]_vars => PasswordStays'
<1> SUFFICES ASSUME Base, Contents, [Next]_vars, NEW e \in Exporters, pc'[e] \in {"path", "open"},
                    e \notin unsure', seen'[e].path \notin shared'
             PROVE  SamePassword(e)'
  BY DEF PasswordStays, SamePassword
<1>0. shared \subseteq shared' /\ unsure \subseteq unsure'
  BY SharedGrows, HistoryGrows
<1>1. ASSUME NEW d \in Dests, ExportVerify(e, d)
      PROVE  SamePassword(e)'
  <2>1. seen'[e] = session /\ UNCHANGED <<session, file, data>>
    BY <1>1 DEF ExportVerify, files, Base, Types, TypeOK
  <2>2. Whole(session.path) /\ At(session.path).pw = session.pw
    BY <1>1 DEF ExportVerify
  <2> QED
    BY <2>1, <2>2 DEF Whole, At, SamePassword
<1>2. CASE \A d \in Dests : ~ExportVerify(e, d)
  <2>0. pc[e] \in {"path", "open"} /\ UNCHANGED seen[e]
    BY <1>2, ExportStep
  <2>1. PICK p \in Paths : p = seen[e].path
    BY <2>0 DEF Base, Places, ExportPlace, Types, TypeOK, Sessions
  <2>2. /\ p \in Names /\ p \notin shared /\ p \notin shared' /\ Whole(p) /\ file[p] # None
        /\ At(p).pw = seen[e].pw
        /\ session # Locked /\ session.path = p => session.pw = seen[e].pw
    BY <1>0, <2>0, <2>1 DEF Contents, PasswordStays, SamePassword, Whole, Names
  <2>5. \A k \in Exporters : ~Replaces(k, p)
    BY <2>0, <2>1, <2>2, NotReplaced
  <2>3. Whole(p)' /\ At(p)'.pw = seen[e].pw
    <3>1. Whole(p)'
      BY <2>2, <2>5, JobsStay
    <3>2. ASSUME NEW j \in Writers, Rename(j), at[j] = p, At(p)' = image[j]
          PROVE  At(p)'.pw = seen[e].pw
      <4>1. /\ session \in Sessions /\ session.path = p
            /\ image[j] = [pw |-> session.pw, jobs |-> session.jobs]
        BY <2>2, <2>5, <3>2, Renamed DEF Replaces
      <4> QED
        BY <2>2, <3>2, <4>1, WritersAssumption
    <3> QED
      BY <2>2, <3>1, <3>2, FileStep
  <2>4. ASSUME session' # Locked, session'.path = p
        PROVE  session'.pw = seen[e].pw
    <3>1. ASSUME NEW s \in Savers, SaveStart(s)
          PROVE  session' = [session EXCEPT !.jobs = @ \cup {s}] /\ session # Locked
      <4>1. e \in Writers /\ InFlight(e)
        BY <2>0 DEF InFlight, Writers
      <4>2. s \notin Rekeys
        BY <3>1, <4>1 DEF SaveStart
      <4> QED
        BY <3>1, <4>2 DEF SaveStart, Base, Types, TypeOK, Sessions
    <3>2. ASSUME NEW s \in Savers, SaveStart(s)
          PROVE  session'.pw = session.pw /\ session.path = p /\ session # Locked
      BY <2>4, <3>1, <3>2 DEF Base, Types, TypeOK, Sessions
    <3>3. ASSUME NEW q \in Paths, Unlock(q)
          PROVE  session'.pw = seen[e].pw
      BY <2>2, <2>4, <3>3 DEF Unlock
    <3> QED
      BY <2>2, <2>4, <3>2, <3>3, SessionStep
  <2> QED
    BY <2>0, <2>1, <2>3, <2>4 DEF Whole, At, SamePassword
<1> QED
  BY <1>1, <1>2

LEMMA CopiedNext == Base /\ Contents /\ [Next]_vars => Copied'
<1> SUFFICES ASSUME Base, Contents, [Next]_vars, NEW e \in Exporters,
                    \/ pc'[e] \in {"write", "rename"} /\ source'[e] \notin shared'
                    \/ (pc'[e] = "renamed" \/ result'[e] = "ok") /\ at'[e] \notin shared'
             PROVE  GoodCopy(e)'
  BY DEF Copied, GoodCopy
<1> USE WritersAssumption DEF Base
<1>0. shared \subseteq shared' /\ unsure \subseteq unsure' /\ e \in Writers \ (Savers \cup Creators)
  BY SharedGrows, HistoryGrows DEF Writers
<1>1. CASE OpenTmp(e)
  <2>1. /\ pc[e] = "open" /\ image'[e] = At(source[e]) /\ file[source[e]] # None
        /\ UNCHANGED <<source, seen, asked, unsure>>
    BY <1>0, <1>1 DEF OpenTmp, Bytes, history, Types, TypeOK
  <2>2. PICK p \in Paths : p = source[e]
    BY <2>1 DEF Places, ExportPlace
  <2>3. Alone(p) /\ p \notin shared
    <3>1. pc'[e] = "write" /\ result'[e] = result[e] /\ result[e] # "ok"
      BY <1>0, <1>1 DEF OpenTmp, Goto, Types, TypeOK, Places, JobPlace
    <3> QED
      BY <1>0, <2>1, <2>2, <3>1 DEF Alone
  <2>4. Whole(p)
    BY <2>1, <2>2, <2>3 DEF Contents, WholeFiles, Names
  <2>5. ASSUME p = seen[e].path
        PROVE  asked[e] \subseteq At(p).jobs /\ (e \in unsure \/ At(p).pw = seen[e].pw)
    <3>1. asked[e] \subseteq acked[p]
      BY <2>1, <2>3, <2>5 DEF Contents, AskedThen
    <3>2. acked[p] \subseteq At(p).jobs
      BY <2>3 DEF Contents, AckedKept
    <3>3. e \in unsure \/ At(p).pw = seen[e].pw
      BY <2>1, <2>3, <2>5 DEF Contents, PasswordStays, SamePassword
    <3> QED
      BY <3>1, <3>2, <3>3
  <2> QED
    BY <2>1, <2>2, <2>4, <2>5 DEF Whole, At, GoodCopy
<1>2. CASE ~OpenTmp(e) /\ pc'[e] \in {"write", "rename", "renamed"}
  <2>1. /\ pc[e] \in Opened
        /\ pc'[e] \in {"write", "rename"} => pc[e] \in {"write", "rename"}
        /\ pc'[e] = "renamed" => pc[e] = "renamed" \/ Rename(e)
        /\ UNCHANGED <<at[e], image[e], seen[e], source[e]>>
    BY <1>0, <1>2, StaysOpened DEF Opened
  <2>2. result'[e] # "ok"
    <3>1. JobPlace(e)'
      BY <1>0, PlacesNext DEF Places
    <3> QED
      BY <1>2, <3>1 DEF JobPlace
  <2>3. GoodCopy(e)
    <3>1. CASE pc'[e] \in {"write", "rename"}
      BY <1>0, <2>1, <2>2, <3>1 DEF Contents, Copied
    <3>2. CASE pc[e] = "renamed" /\ pc'[e] = "renamed"
      BY <1>0, <2>1, <3>2 DEF Contents, Copied
    <3>3. CASE Rename(e) /\ pc'[e] = "renamed"
      BY <2>1, <3>3, Exported
    <3> QED
      BY <1>2, <2>1, <3>1, <3>2, <3>3
  <2>4. UNCHANGED asked[e]
    <3>1. \A d \in Dests : ~ExportVerify(e, d)
      BY <2>1 DEF ExportVerify, Opened
    <3> QED
      BY <3>1, ExportStep DEF Base
  <2> QED
    BY <1>0, <2>1, <2>3, <2>4 DEF GoodCopy
<1>3. CASE ~OpenTmp(e) /\ pc'[e] \notin {"write", "rename", "renamed"}
  <2>0. result'[e] = "ok" /\ at'[e] \notin shared'
    BY <1>3
  <2>1. /\ pc[e] = "renamed" \/ result[e] = "ok"
        /\ UNCHANGED <<at[e], image[e], seen[e], source[e]>>
    <3> USE DEF Types, TypeOK, Goto
    <3>1. ASSUME NEW k \in Writers \ {e}, JobStep(k)
          PROVE  UNCHANGED <<pc[e], at[e], result[e], image[e], seen[e], source[e]>>
      BY <1>0, <3>1, OneJob DEF OnlyJob
    <3>2. CASE Reply(e)
      BY <1>0, <3>2 DEF Reply, Answer
    <3>3. CASE JobStep(e) /\ ~Reply(e)
      <4>1. result[e] # "ok"
        <5>1. pc[e] # "done"
          BY <1>0, <3>3 DEF JobStep, ExportPath, ExportVerify, Write, OpenTmp, WriteEnd, WriteFails,
             Rename, RenameFails, Cleanup
        <5> QED
          BY <1>0, <5>1 DEF Places, JobPlace
      <4>2. result'[e] # "ok"
        BY <1>0, <1>3, <3>3, <4>1 DEF JobStep, ExportPath, ExportVerify, Write, WriteEnd,
           WriteFails, Rename, RenameFails, Cleanup, Answer
      <4> QED
        BY <2>0, <4>2
    <3>4. CASE Lock \/ (\E p \in Paths : Unlock(p)) \/ Crash \/ UNCHANGED vars
      BY <2>0, <3>4 DEF Lock, Unlock, Crash, locals, vars
    <3> QED
      BY <2>0, <3>1, <3>2, <3>3, <3>4, NextCases
  <2>2. GoodCopy(e)
    BY <1>0, <2>0, <2>1 DEF Contents, Copied
  <2>3. UNCHANGED asked[e]
    <3>1. pc[e] # "idle"
      BY <1>0, <2>1 DEF Places, JobPlace
    <3>2. \A d \in Dests : ~ExportVerify(e, d)
      BY <3>1 DEF ExportVerify
    <3> QED
      BY <3>2, ExportStep
  <2> QED
    BY <1>0, <2>1, <2>2, <2>3 DEF GoodCopy
<1> QED
  BY <1>1, <1>2, <1>3

LEMMA WritersInvariant == Spec => [](Base /\ Contents)
<1>1. Base /\ Contents /\ [Next]_vars => Contents'
  BY ImagesNext, SessionCurrentNext, VacantNext, WholeFilesNext, AckedKeptNext, AskedThenNext,
     PasswordStaysNext, CopiedNext DEF Contents
<1> QED
  BY <1>1, BaseInit, BaseNext, ContentsInit, PTL DEF Spec
-----------------------------------------------------------------------------
\* Every file whose name was one job's at a time is a whole vault at every
\* moment, through failed writes and crashes: for any number of saves,
\* password changes, creations and exports, onto other vaults too.
THEOREM FilesAlwaysWhole == Spec => []WholeFiles
<1>1. Base /\ Contents => WholeFiles
  BY DEF Contents
<1> QED
  BY <1>1, WritersInvariant, PTL

\* And what its callers were told is saved, or created, is in it; where an
\* export has replaced the vault, what was reported of the vault it copied.
THEOREM ReportedAlwaysKept == Spec => []AckedKept
<1>1. Base /\ Contents => AckedKept
  BY DEF Contents
<1> QED
  BY <1>1, WritersInvariant, PTL

\* An export that was reported Ok, and the vault it copied.
LEMMA ExportOfAlone ==
    ASSUME Base, Contents, NEW e \in Exporters, result[e] = "ok", Alone(at[e])
    PROVE  GoodCopy(e)
BY DEF Alone, Contents, Copied

\* An export reported Ok has every change that had been reported Ok when it
\* was asked for.
THEOREM ExportsAlwaysCurrent == Spec => []ExportCurrent
<1>1. Base /\ Contents => ExportCurrent
  BY ExportOfAlone DEF ExportCurrent, GoodCopy
<1> QED
  BY <1>1, WritersInvariant, PTL

\* And it opens with the password its caller gave, unless the password was
\* being changed while the export was under way.
THEOREM ExportsAlwaysOpen == Spec => []ExportOpens
<1>1. Base /\ Contents => ExportOpens
  BY ExportOfAlone DEF ExportOpens, GoodCopy
<1> QED
  BY <1>1, WritersInvariant, PTL
-----------------------------------------------------------------------------
(* The writers implement VaultFiles: the initial state maps to an initial  *)
(* state, and every step to a step or a stutter.                           *)

LEMMA FilesInit == Init => Files!Init
<1> SUFFICES ASSUME Init PROVE Files!Init
  OBVIOUS
<1> USE WritersAssumption DEF Init
<1>1. VaultNow = [n \in Names |-> IF n \in Old THEN [pw |-> n, jobs |-> {n}] ELSE None]
  BY DEF VaultNow, Alone, At, Names, Inodes
<1>2. TookNow = [e \in Exporters |-> None]
  BY DEF TookNow, Writers
<1> QED
  BY <1>1, <1>2 DEF Files!Init, Files!Names, Names

\* What is seen of the files are functions: they are compared by their values.
LEMMA NowFunctions ==
    /\ VaultNow = [n \in Names |-> VaultNow[n]] /\ VaultNow' = [n \in Names |-> VaultNow'[n]]
    /\ TookNow = [e \in Exporters |-> TookNow[e]] /\ TookNow' = [e \in Exporters |-> TookNow'[e]]
BY DEF VaultNow, TookNow

\* Only a rename, and sharing, change what is seen of a file.
LEMMA VaultStep ==
    ASSUME Base, [Next]_vars, NEW n \in Names, \A j \in Writers : ~(Rename(j) /\ at[j] = n)
    PROVE  VaultNow'[n] = IF n \in shared' THEN Mixed ELSE VaultNow[n]
<1>1. n \notin shared' =>
         n \notin shared /\ UNCHANGED file[n] /\ (file[n] # None => UNCHANGED At(n))
  BY FileStep, SharedGrows
<1> QED
  BY <1>1 DEF VaultNow, Alone

Copying(e) == pc[e] \in {"write", "rename"}

LEMMA TookStep ==
    ASSUME [Next]_vars, NEW e \in Exporters,
           \/ ~Copying(e) /\ ~Copying(e)'
           \/ Copying(e) /\ Copying(e)' /\ UNCHANGED <<image[e], source[e]>>
    PROVE  TookNow'[e] = IF Copying(e)' /\ source'[e] \in shared' THEN Mixed ELSE TookNow[e]
BY SharedGrows DEF TookNow, Copying, Alone

\* A step that renames nothing and copies nothing.
LEMMA Spoiled ==
    ASSUME Base, [Next]_vars, \A j \in Writers : ~Rename(j),
           \A e \in Exporters :
              \/ ~Copying(e) /\ ~Copying(e)'
              \/ Copying(e) /\ Copying(e)' /\ UNCHANGED <<image[e], source[e]>>
    PROVE  Files!Spoil
<1> DEFINE N == shared' \cap Names
           E == {e \in Exporters : Copying(e)' /\ source'[e] \in shared'}
<1>1. VaultNow' = [n \in Names |-> IF n \in N THEN Mixed ELSE VaultNow[n]]
  <2>1. \A n \in Names : VaultNow'[n] = IF n \in N THEN Mixed ELSE VaultNow[n]
    BY VaultStep
  <2> HIDE DEF N
  <2> QED
    BY <2>1, NowFunctions
<1>2. TookNow' = [e \in Exporters |-> IF e \in E THEN Mixed ELSE TookNow[e]]
  <2>1. \A e \in Exporters : TookNow'[e] = IF e \in E THEN Mixed ELSE TookNow[e]
    BY TookStep
  <2> HIDE DEF E
  <2> QED
    BY <2>1, NowFunctions
<1>3. N \in SUBSET Names /\ E \in SUBSET Exporters
  OBVIOUS
<1> HIDE DEF N, E
<1> QED
  BY <1>1, <1>2, <1>3 DEF Files!Spoil, Files!Names, Names

\* A step that claims no name leaves what it does not rename as it is seen.
LEMMA Still ==
    ASSUME Base, [Next]_vars, UNCHANGED shared, \A e \in Exporters : UNCHANGED source[e]
    PROVE  /\ \A n \in Names : (\A j \in Writers : ~(Rename(j) /\ at[j] = n)) =>
                 VaultNow'[n] = VaultNow[n]
           /\ \A e \in Exporters :
                 /\ UNCHANGED <<pc[e], image[e]>> => TookNow'[e] = TookNow[e]
                 /\ ~Copying(e)' => TookNow'[e] = None
<1>1. ASSUME NEW n \in Names, \A j \in Writers : ~(Rename(j) /\ at[j] = n)
      PROVE  VaultNow'[n] = VaultNow[n]
  <2>1. VaultNow'[n] = IF n \in shared THEN Mixed ELSE VaultNow[n]
    BY <1>1, VaultStep
  <2> QED
    BY <2>1 DEF VaultNow, Alone
<1>2. ASSUME NEW e \in Exporters
      PROVE  /\ UNCHANGED <<pc[e], image[e]>> => TookNow'[e] = TookNow[e]
             /\ ~Copying(e)' => TookNow'[e] = None
  BY DEF TookNow, Copying, Alone
<1> QED
  BY <1>1, <1>2

\* A job changes the session: nothing is seen of the files but the sharing.
LEMMA SaveStartRefines ==
    ASSUME Base, [Next]_vars, NEW s \in Savers, SaveStart(s)
    PROVE  Files!Change(s)
<1> USE WritersAssumption DEF Base, Types, TypeOK
<1>1. /\ session # Locked /\ session \in Sessions
      /\ session' = [session EXCEPT !.jobs = @ \cup {s}, !.pw = IF s \in Rekeys THEN s ELSE @]
  BY DEF SaveStart
<1>2. Files!Spoil
  <2>1. \A j \in Writers : ~Rename(j)
    BY DEF SaveStart, Rename, files, Goto
  <2>2. s \in Writers \ Exporters /\ \A e \in Exporters : e \in Writers \ {s}
    BY DEF Writers
  <2>3. \A e \in Exporters : UNCHANGED <<pc[e], image[e], source[e]>>
    BY <2>2, OneJob DEF OnlyJob, JobStep
  <2> QED
    BY <2>1, <2>3, Spoiled DEF Copying
<1>3. \E pw \in {session.pw, s} :
         session' = [session EXCEPT !.jobs = @ \cup {s}, !.pw = pw]
  BY <1>1 DEF Sessions
<1> QED
  BY <1>1, <1>2, <1>3 DEF Files!Change

\* The first steps of a creation and of an export are not seen.
LEMMA ClaimsRefine ==
    ASSUME Base, [Next]_vars, NEW j \in Writers,
           \/ j \in Creators /\ \E p \in Paths : CreateCheck(j, p)
           \/ j \in Exporters /\ (ExportPath(j) \/ \E d \in Dests : ExportVerify(j, d))
    PROVE  UNCHANGED session /\ Files!Spoil
<1> USE WritersAssumption DEF Base, Types, TypeOK, Goto
<1>1. UNCHANGED <<session, file, tmp, data>> /\ pc[j] \in {"idle", "path"}
      /\ pc'[j] \in {"path", "open", "done"}
  BY DEF CreateCheck, ExportVerify, ExportPath, Answer, files
<1>2. \A e \in Exporters \ {j} : e \in Writers /\ UNCHANGED <<pc[e], image[e], source[e]>>
  BY OneJob DEF OnlyJob, JobStep, Writers
<1>3. ASSUME NEW k \in Writers
      PROVE  ~Rename(k)
  <2>1. k # j => UNCHANGED pc[k]
    BY OneJob DEF OnlyJob, JobStep
  <2> QED
    BY <1>1, <2>1 DEF Rename
<1> QED
  BY <1>1, <1>2, <1>3, Spoiled DEF Copying

\* The steps of a writer that rename nothing: an export takes its copy when
\* it opens its files, and gives it up with an error.
LEMMA WritesRefine ==
    ASSUME Base, Contents, [Next]_vars, NEW j \in Writers,
           \/ OpenTmp(j) \/ WriteEnd(j) \/ WriteFails(j)
           \/ RenameFails(j) \/ Cleanup(j) \/ Reply(j)
    PROVE  \/ j \in Exporters /\ (Files!Drop(j) \/ \E p \in Paths : Files!Take(j, p))
           \/ UNCHANGED <<VaultNow, session, TookNow>>
<1> USE WritersAssumption DEF Base, Types, TypeOK, Goto, history
<1>0. JobStep(j) /\ OnlyJob(j)
  BY OneJob DEF JobStep, Write
<1>1. UNCHANGED <<shared, session, source>>
  BY DEF OpenTmp, WriteEnd, WriteFails, RenameFails, Cleanup, Reply, Answer, files
<1>2. \A k \in Writers : ~Rename(k)
  <2>1. ~Rename(j)
    BY DEF OpenTmp, WriteEnd, WriteFails, RenameFails, Cleanup, Reply, Answer, Rename
  <2>2. \A k \in Writers \ {j} : ~Rename(k)
    BY <1>0 DEF OnlyJob, Rename
  <2> QED
    BY <2>1, <2>2
<1>3. UNCHANGED VaultNow
  <2>1. \A n \in Names : VaultNow'[n] = VaultNow[n]
    BY <1>1, <1>2, Still
  <2> QED
    BY <2>1, NowFunctions
<1>4. \A e \in Exporters \ {j} : TookNow'[e] = TookNow[e]
  <2>1. \A e \in Exporters \ {j} : e \in Writers /\ UNCHANGED <<pc[e], image[e]>>
    BY <1>0 DEF OnlyJob, Writers
  <2> QED
    BY <1>1, <2>1, Still
<1>5. CASE j \notin Exporters
  <2>1. UNCHANGED TookNow
    BY <1>4, <1>5, NowFunctions
  <2> QED
    BY <1>1, <1>3, <2>1
<1>6. CASE j \in Exporters /\ OpenTmp(j)
  <2>1. PICK p \in Paths : p = source[j]
    BY <1>6 DEF OpenTmp, Places, ExportPlace
  <2>2. /\ pc'[j] = "write" /\ image'[j] = At(p) /\ file[p] # None
    BY <1>6, <2>1 DEF OpenTmp, Bytes, Writers
  <2>3. TookNow'[j] = VaultNow[p]
    BY <1>1, <1>6, <2>1, <2>2 DEF TookNow, VaultNow, Alone, Names, At, OpenTmp
  <2>4. VaultNow[p] # None
    <3>1. p \notin shared => Whole(p)
      BY <2>2 DEF Contents, WholeFiles, Alone, Names
    <3> QED
      BY <2>2, <3>1 DEF VaultNow, Alone, Names, Whole, At
  <2>5. TookNow' = [TookNow EXCEPT ![j] = VaultNow[p]]
    BY <1>4, <1>6, <2>3, NowFunctions
  <2> QED
    BY <1>1, <1>3, <1>6, <2>4, <2>5 DEF Files!Take
<1>7. CASE j \in Exporters /\ (WriteEnd(j) \/ Cleanup(j) \/ Reply(j))
  <2>1. TookNow'[j] = TookNow[j]
    BY <1>1, <1>7 DEF WriteEnd, Cleanup, Reply, Answer, TookNow, Alone
  <2>2. UNCHANGED TookNow
    BY <1>4, <2>1, NowFunctions
  <2> QED
    BY <1>1, <1>3, <2>2
<1>8. CASE j \in Exporters /\ (WriteFails(j) \/ RenameFails(j))
  <2>1. TookNow'[j] = None
    BY <1>8 DEF WriteFails, RenameFails, Answer, TookNow
  <2>2. TookNow' = [TookNow EXCEPT ![j] = None]
    BY <1>4, <1>8, <2>1, NowFunctions
  <2> QED
    BY <1>1, <1>3, <1>8, <2>2 DEF Files!Drop
<1> QED
  BY <1>5, <1>6, <1>7, <1>8

\* An export takes effect when it renames: it delivers what it took, unless
\* what it replaces is in use.
LEMMA ExportRefines ==
    ASSUME Base, Contents, [Next]_vars, NEW j \in Exporters, Rename(j)
    PROVE  \E d \in Dests : Files!Deliver(j, d)
<1> USE WritersAssumption DEF Base, Types, TypeOK
<1>0. j \in Writers /\ \A e \in Exporters : e \in Writers
  BY DEF Writers
<1>1. /\ pc[j] = "rename" /\ pc'[j] = "renamed"
      /\ UNCHANGED <<session, source, image>>
      /\ shared' \subseteq shared \cup {at[j]} /\ shared \subseteq shared'
  BY <1>0 DEF Rename, Goto
<1>2. \A k \in Writers \ {j} : UNCHANGED pc[k] /\ ~Rename(k)
  BY <1>0, OneJob DEF OnlyJob, JobStep, Write, Rename, Goto
<1>3. PICK d \in Dests : d = at[j]
  BY <1>0, <1>1 DEF Places, JobPlace, InFlight
<1>4. d \in Names
  BY DEF Names
<1>5. TookNow[j] # None
  <2>1. source[j] \notin shared => image[j] \in Content
    BY <1>1 DEF Contents, Copied, GoodCopy
  <2> QED
    BY <1>1, <2>1 DEF TookNow, Alone
<1>6. PICK c \in {TookNow[j], Mixed} : VaultNow'[d] = c
  <2>1. CASE d \in shared'
    BY <1>4, <2>1 DEF VaultNow, Alone
  <2>2. CASE d \notin shared'
    <3>1. source[j] \notin shared
      BY <1>0, <1>3, <2>2, CleanRename
    <3>2. TookNow[j] = image[j]
      BY <1>1, <3>1 DEF TookNow, Alone
    <3>3. file'[d] # None /\ At(d)' = image[j]
      <4>1. file'[d] # file[d]
        <5>1. tmp[T(j)] # None /\ T(j) \in Names /\ file'[d] = tmp[T(j)]
          BY <1>0, <1>1, <1>3, <1>4, TmpIsName DEF Rename, InFlight
        <5> QED
          BY <1>4, <5>1 DEF Links, Unique
      <4>2. PICK k \in Writers : Rename(k) /\ at[k] = d /\ file'[d] # None /\ At(d)' = image[k]
        BY <1>4, <2>2, <4>1, FileStep
      <4> QED
        BY <1>2, <4>2
    <3> QED
      BY <1>4, <2>2, <3>2, <3>3 DEF VaultNow, Alone
  <2> QED
    BY <2>1, <2>2
<1>7. VaultNow' = [VaultNow EXCEPT ![d] = c]
  <2>1. \A n \in Names \ {d} : VaultNow'[n] = VaultNow[n]
    <3> SUFFICES ASSUME NEW n \in Names \ {d} PROVE VaultNow'[n] = VaultNow[n]
      OBVIOUS
    <3>1. VaultNow'[n] = IF n \in shared' THEN Mixed ELSE VaultNow[n]
      BY <1>2, <1>3, VaultStep
    <3>2. n \in shared' <=> n \in shared
      BY <1>1, <1>3
    <3> QED
      BY <3>1, <3>2 DEF VaultNow, Alone
  <2> QED
    BY <1>4, <1>6, <2>1, NowFunctions
<1> DEFINE E == {e \in Exporters \ {j} : Copying(e) /\ source[e] \in shared'}
<1>8. TookNow' = [e \in Exporters |-> CASE e = j -> None
                                        [] e \in E -> Mixed
                                        [] OTHER -> TookNow[e]]
  <2>1. TookNow'[j] = None
    BY <1>1 DEF TookNow
  <2>2. \A e \in Exporters \ {j} : TookNow'[e] = IF e \in E THEN Mixed ELSE TookNow[e]
    <3> SUFFICES ASSUME NEW e \in Exporters \ {j}
                 PROVE  TookNow'[e] = IF e \in E THEN Mixed ELSE TookNow[e]
      OBVIOUS
    <3>1. UNCHANGED <<pc[e], image[e], source[e]>>
      BY <1>0, <1>1, <1>2
    <3>2. TookNow'[e] = IF Copying(e)' /\ source'[e] \in shared' THEN Mixed ELSE TookNow[e]
      BY <3>1, TookStep DEF Copying
    <3> QED
      BY <3>1, <3>2 DEF Copying
  <2>3. j \notin E
    OBVIOUS
  <2> HIDE DEF E
  <2> QED
    BY <2>1, <2>2, <2>3, NowFunctions
<1>9. E \in SUBSET (Exporters \ {j})
  OBVIOUS
<1> HIDE DEF E
<1> QED
  BY <1>1, <1>5, <1>6, <1>7, <1>8, <1>9 DEF Files!Deliver

\* And so does a save or a creation.
LEMMA RenameRefines ==
    ASSUME Base, Contents, [Next]_vars, NEW j \in Writers \ Exporters, Rename(j)
    PROVE  \/ Files!Save
           \/ \E p \in Paths : Files!Create(j, p)
           \/ UNCHANGED <<VaultNow, session, TookNow>>
<1> USE WritersAssumption DEF Base, Types, TypeOK
<1>1. /\ pc[j] = "rename" /\ pc'[j] = "renamed"
      /\ UNCHANGED <<shared, data, session, at, source, image>>
  BY DEF Rename, Goto
<1>2. \A k \in Writers \ {j} : UNCHANGED pc[k] /\ ~Rename(k)
  BY OneJob DEF OnlyJob, JobStep, Write, Rename, Goto
<1>3. /\ \A n \in Names : at[j] # n => VaultNow'[n] = VaultNow[n]
      /\ \A e \in Exporters : TookNow'[e] = TookNow[e]
  <2>1. \A e \in Exporters : e \in Writers \ {j}
    BY DEF Writers
  <2> QED
    BY <1>1, <1>2, <2>1, Still
<1>4. PICK p \in Paths : p = at[j] /\ p \in Names
  BY <1>1 DEF Places, JobPlace, InFlight, Names
<1>5. UNCHANGED TookNow
  BY <1>3, NowFunctions
<1>6. CASE p \in shared
  <2>1. VaultNow'[p] = VaultNow[p]
    BY <1>1, <1>4, <1>6 DEF VaultNow, Alone
  <2>2. UNCHANGED VaultNow
    BY <1>3, <1>4, <2>1, NowFunctions
  <2> QED
    BY <1>1, <1>5, <2>2
<1>7. CASE p \notin shared
  <2>1. file'[p] # None /\ At(p)' = image[j]
    <3>1. file'[p] # file[p]
      <4>1. tmp[T(j)] # None /\ T(j) \in Names /\ file'[p] = tmp[T(j)]
        BY <1>1, <1>4, TmpIsName DEF Rename, InFlight
      <4> QED
        BY <1>4, <4>1 DEF Links, Unique
    <3>2. PICK k \in Writers : Rename(k) /\ at[k] = p /\ file'[p] # None /\ At(p)' = image[k]
      BY <1>1, <1>4, <1>7, <3>1, FileStep
    <3> QED
      BY <1>2, <3>2
  <2>2. VaultNow'[p] = image[j]
    BY <1>1, <1>4, <1>7, <2>1 DEF VaultNow, Alone
  <2>3. VaultNow' = [VaultNow EXCEPT ![p] = image[j]]
    BY <1>3, <1>4, <2>2, NowFunctions
  <2>4. CASE /\ session \in Sessions /\ session.path = p
             /\ image[j] = [pw |-> session.pw, jobs |-> session.jobs]
    BY <1>1, <1>5, <2>3, <2>4 DEF Files!Save
  <2>5. CASE j \in Creators /\ file[p] = None
    <3>1. image[j] = [pw |-> j, jobs |-> {j}]
      BY <1>1, <2>5 DEF Contents, Images, Opened
    <3>2. VaultNow[p] = None
      BY <1>4, <1>7, <2>5 DEF VaultNow, Alone
    <3> QED
      BY <1>1, <1>5, <2>3, <3>1, <3>2 DEF Files!Create
  <2> QED
    BY <1>4, <1>7, <2>4, <2>5, Renamed
<1> QED
  BY <1>6, <1>7

\* The session's own steps.
LEMMA SessionRefines ==
    ASSUME Base, Contents, [Next]_vars
    PROVE  /\ \A p \in Paths : Unlock(p) => Files!Open(p)
           /\ Lock => Files!Close
           /\ Crash => Files!Crash
<1> USE WritersAssumption DEF Base, Types, TypeOK
<1>1. UNCHANGED <<files, shared>> => UNCHANGED VaultNow
  BY DEF files, VaultNow, Alone, At
<1>2. UNCHANGED <<pc, image, shared, source>> => UNCHANGED TookNow
  BY DEF TookNow, Alone
<1>3. ASSUME NEW p \in Paths, Unlock(p)
      PROVE  Files!Open(p)
  <2>1. UNCHANGED <<VaultNow, TookNow>>
    BY <1>1, <1>2, <1>3 DEF Unlock, locals, history
  <2>2. At(p) \in Content /\ file[p] # None
    BY <1>3 DEF Unlock, Whole, At
  <2>3. /\ session' = [path |-> p, pw |-> At(p).pw, jobs |-> At(p).jobs]
        /\ At(p) = [pw |-> At(p).pw, jobs |-> At(p).jobs]
    BY <1>3, <2>2 DEF Unlock, Content
  <2>4. session' \in Files!Sessions /\ session'.path = p
    BY <2>2, <2>3 DEF Content, Files!Sessions, Inodes
  <2>5. VaultNow[p] # None /\ (VaultNow[p] # Mixed => VaultNow[p] = At(p))
    BY <1>3, <2>2 DEF VaultNow, Alone, Names
  <2>6. At(p) = [pw |-> session'.pw, jobs |-> session'.jobs]
    BY <2>3
  <2> QED
    BY <2>1, <2>4, <2>5, <2>6 DEF Files!Open
<1>4. ASSUME Lock
      PROVE  Files!Close
  BY <1>1, <1>2, <1>4 DEF Lock, locals, history, Files!Close
<1>5. ASSUME Crash
      PROVE  Files!Crash
  <2>1. UNCHANGED VaultNow /\ session' = Locked
    BY <1>1, <1>5 DEF Crash, history
  <2>2. \A e \in Exporters : ~Copying(e)'
    BY <1>5 DEF Crash, InFlight, Copying, Writers
  <2>3. TookNow' = [e \in Exporters |-> None]
    BY <2>2 DEF TookNow, Copying
  <2> QED
    BY <2>1, <2>3 DEF Files!Crash
<1> QED
  BY <1>3, <1>4, <1>5

LEMMA FilesNext == Base /\ Contents /\ [Next]_vars => [Files!Next]_(Files!vars)
<1> SUFFICES ASSUME Base, Contents, [Next]_vars PROVE [Files!Next]_(Files!vars)
  OBVIOUS
<1> USE DEF Files!Next, Files!vars
<1>1. ASSUME NEW j \in Writers, JobStep(j)
      PROVE  [Files!Next]_(Files!vars)
  <2>0. j \in Inodes
    BY <1>1 DEF Inodes
  <2>1. CASE j \in Savers /\ SaveStart(j)
    BY <2>0, <2>1, SaveStartRefines
  <2>2. CASE \/ j \in Creators /\ \E p \in Paths : CreateCheck(j, p)
             \/ j \in Exporters /\ (ExportPath(j) \/ \E d \in Dests : ExportVerify(j, d))
    BY <2>2, ClaimsRefine
  <2>3. CASE \/ OpenTmp(j) \/ WriteEnd(j) \/ WriteFails(j)
             \/ RenameFails(j) \/ Cleanup(j) \/ Reply(j)
    BY <2>3, WritesRefine
  <2>4. CASE Rename(j) /\ j \in Exporters
    BY <2>4, ExportRefines
  <2>5. CASE Rename(j) /\ j \notin Exporters
    BY <2>0, <2>5, RenameRefines
  <2> QED
    BY <1>1, <2>1, <2>2, <2>3, <2>4, <2>5 DEF JobStep, Write
<1>2. CASE Lock \/ (\E p \in Paths : Unlock(p)) \/ Crash
  BY <1>2, SessionRefines
<1>3. CASE UNCHANGED vars
  BY <1>3 DEF vars, files, locals, history, VaultNow, TookNow, Alone, At
<1> QED
  BY <1>1, <1>2, <1>3, NextCases

\* Saves and creations take effect at one moment, as a whole, and an export
\* is its vault as it was at one moment, whatever fails, crashes or is
\* renamed in between: for any number of writers, vaults and destinations.
THEOREM WritersKeepFiles == Spec => FilesKept
<1>1. Init => Files!Init
  BY FilesInit
<1>2. Base /\ Contents /\ [Next]_vars => [Files!Next]_(Files!vars)
  BY FilesNext
<1> QED
  BY <1>1, <1>2, WritersInvariant, PTL DEF Spec, FilesKept, Files!Spec
=============================================================================
