--------------------------- MODULE FirmwareProofs ---------------------------
(* Proofs about Firmware, for every set of versions, bodies and deleters.   *)
EXTENDS Firmware, FiniteSetTheorems, TLAPS

(* Who is at work: uploads exclude each other; a request that is not idle   *)
(* names a version, and what it does to that version is in the history.     *)
RequestsRecorded ==
    /\ \A b, c \in Bodies : Active(b) /\ Active(c) => b = c
    /\ \A b \in Bodies : upload[b].pc # "idle" => <<upload[b].version, b>> \in uploaded
    /\ \A d \in Deleters : deletion[d].pc # "idle" => deletion[d].version \in disturbed
    /\ cut \subseteq disturbed
    /\ uploaded \subseteq Versions \X Bodies

(* A body is only ever seen under a version it was uploaded as.             *)
BodiesUploaded ==
    /\ \A v \in Versions : bin[v] \in Bodies => <<v, bin[v]>> \in uploaded
    /\ device.body \in Bodies => <<device.version, device.body>> \in uploaded
    /\ device.pc # "idle" => device.version \in Versions

(* How far the files of a version are, at each step of its upload; a        *)
(* deletion may have taken either of them away, if there was one.           *)
Holds(file, v, contents) ==
    \/ file[v] = contents
    \/ file[v] = None /\ v \in disturbed

UploadInFiles(b) ==
    LET v == upload[b].version IN
    /\ upload[b].pc = "opened" => Holds(bin, v, Empty)
    /\ upload[b].pc \in {"written", "sha_opened", "sha_written"} => Holds(bin, v, b)
    /\ upload[b].pc = "sha_opened" => Holds(sha, v, Empty)
    /\ upload[b].pc = "sha_written" => Holds(sha, v, b)

UploadedTo(v) == \E b \in Bodies : Active(b) /\ upload[b].version = v

(* The files of a version nobody is uploading, and no restart has hit.      *)
FilesAtRest(v) ==
    /\ bin[v] \in Bodies \cup {None}
    /\ sha[v] \in Bodies \cup {None}
    /\ None \in {bin[v], sha[v]} \/ bin[v] = sha[v]

LatestAtRest ==
    latest \notin disturbed \cup {None} =>
      /\ ~UploadedTo(latest)
      /\ bin[latest] \in Bodies
      /\ sha[latest] = bin[latest]

Inv ==
    /\ TypeOK
    /\ RequestsRecorded
    /\ BodiesUploaded
    /\ VerifiedWereUploaded
    /\ \A b \in Bodies : UploadInFiles(b)
    /\ \A v \in Versions : UploadedTo(v) \/ v \in cut \/ FilesAtRest(v)
    /\ LatestAtRest

-----------------------------------------------------------------------------
LEMMA ContentsDistinct ==
    /\ None # Empty /\ None # Torn /\ Empty # Torn
    /\ None \notin Bodies /\ Empty \notin Bodies /\ Torn \notin Bodies
    /\ None \notin Versions
<1>1. \A x, y : Cardinality({x, y}) # 3
  <2> TAKE x, y
  <2>1. IsFiniteSet({x}) /\ Cardinality({x}) = 1
    BY FS_Singleton
  <2>2. Cardinality({x} \cup {y}) = IF y \in {x} THEN 1 ELSE 2
    BY <2>1, FS_AddElement
  <2>3. {x, y} = {x} \cup {y}
    OBVIOUS
  <2> QED
    BY <2>2, <2>3
<1>2. None # Empty
  <2> SUFFICES ASSUME None = Empty PROVE FALSE
    OBVIOUS
  <2>1. {None, Empty, Torn} = {Empty, Torn}
    OBVIOUS
  <2>2. Cardinality({Empty, Torn}) # 3
    BY <1>1
  <2> QED
    BY <2>1, <2>2, ContentsAssumption
<1>3. None # Torn
  <2> SUFFICES ASSUME None = Torn PROVE FALSE
    OBVIOUS
  <2>1. {None, Empty, Torn} = {None, Empty}
    OBVIOUS
  <2>2. Cardinality({None, Empty}) # 3
    BY <1>1
  <2> QED
    BY <2>1, <2>2, ContentsAssumption
<1>4. Empty # Torn
  <2> SUFFICES ASSUME Empty = Torn PROVE FALSE
    OBVIOUS
  <2>1. {None, Empty, Torn} = {None, Empty}
    OBVIOUS
  <2>2. Cardinality({None, Empty}) # 3
    BY <1>1
  <2> QED
    BY <2>1, <2>2, ContentsAssumption
<1> QED
  BY <1>2, <1>3, <1>4, ContentsAssumption

LEMMA InitInv == Init => Inv
BY ContentsDistinct DEF Init, Inv, TypeOK, Contents, Request, Idle, IdleDevice, Run, RequestsRecorded,
   BodiesUploaded, VerifiedWereUploaded, UploadInFiles, FilesAtRest, UploadedTo, Active, LatestAtRest

(* The steps of the updater and of its transfer change the device only.     *)
DeviceStep ==
    \/ Check \/ FindFiles \/ ReadSha \/ Stat \/ ReadFirst \/ ReadRest
    \/ DownloadFails \/ BreakTransfer \/ Verify

LEMMA DeviceStepType ==
    ASSUME TypeOK, DeviceStep, BodiesUploaded
    PROVE  TypeOK'
<1> USE ContentsDistinct DEF TypeOK, Contents, Request, IdleDevice, Run, files, history, BodiesUploaded
<1>1. CASE Check
  BY <1>1 DEF Check
<1>2. CASE FindFiles
  BY <1>2 DEF FindFiles
<1>3. CASE ReadSha
  BY <1>3 DEF ReadSha
<1>4. CASE Stat
  BY <1>4 DEF Stat
<1>5. CASE ReadFirst
  BY <1>5 DEF ReadFirst
<1>6. CASE ReadRest
  <2>1. PICK body \in Contents : device' = [device EXCEPT !.pc = "downloaded", !.body = body]
    BY <1>6 DEF ReadRest
  <2> QED
    BY <1>6, <2>1 DEF ReadRest
<1>7. CASE BreakTransfer
  BY <1>7 DEF BreakTransfer
<1>8. CASE Verify
  <2>1. CASE Accepts(device.expected, device.body)
    <3>1. device' = Run("accepted", device.version)
      BY <1>8, <2>1 DEF Verify
    <3>2. verified' = verified \cup {<<device.version, device.body>>}
      BY <1>8, <2>1 DEF Verify
    <3>3. device.version \in Versions /\ UNCHANGED <<bin, sha, latest, upload, deletion, uploaded, cut, disturbed>>
      BY <1>8 DEF Verify
    <3> QED
      BY <3>1, <3>2, <3>3
  <2>2. CASE ~Accepts(device.expected, device.body)
    BY <1>8, <2>2 DEF Verify
  <2> QED
    BY <2>1, <2>2
<1>9. CASE DownloadFails
  BY <1>9 DEF DownloadFails, Downloading, Failed
<1> QED
  BY <1>1, <1>2, <1>3, <1>4, <1>5, <1>6, <1>7, <1>8, <1>9 DEF DeviceStep

\* What a downloaded body has to do with the files: it is a body only if the
\* file held it under the device's version, or if it did before.
LEMMA DeviceStepBodies ==
    ASSUME TypeOK, BodiesUploaded, VerifiedWereUploaded, DeviceStep
    PROVE  BodiesUploaded' /\ VerifiedWereUploaded'
<1> USE ContentsDistinct DEF TypeOK, Contents, IdleDevice, Run, files, history, BodiesUploaded,
        VerifiedWereUploaded
<1>1. CASE Check
  BY <1>1 DEF Check
<1>2. CASE FindFiles
  BY <1>2 DEF FindFiles
<1>3. CASE ReadSha
  BY <1>3 DEF ReadSha
<1>4. CASE Stat
  BY <1>4 DEF Stat
<1>5. CASE ReadFirst
  BY <1>5 DEF ReadFirst
<1>6. CASE ReadRest
  <2>1. PICK body \in {device.body, Torn} :
          device' = [device EXCEPT !.pc = "downloaded", !.body = body]
    BY <1>6 DEF ReadRest
  <2> QED
    BY <1>6, <2>1 DEF ReadRest
<1>7. CASE BreakTransfer
  BY <1>7 DEF BreakTransfer
<1>8. CASE Verify
  <2>1. Accepts(device.expected, device.body) => device.body \in Bodies
    BY DEF Accepts
  <2>2. CASE Accepts(device.expected, device.body)
    <3>1. device' = Run("accepted", device.version)
      BY <1>8, <2>2 DEF Verify
    <3>2. verified' = verified \cup {<<device.version, device.body>>}
      BY <1>8, <2>2 DEF Verify
    <3>3. device.version \in Versions /\ UNCHANGED <<bin, uploaded>>
      BY <1>8 DEF Verify
    <3> QED
      BY <2>1, <2>2, <3>1, <3>2, <3>3
  <2>3. CASE ~Accepts(device.expected, device.body)
    BY <1>8, <2>3 DEF Verify
  <2> QED
    BY <2>2, <2>3
<1>9. CASE DownloadFails
  BY <1>9 DEF DownloadFails, Downloading, Failed
<1> QED
  BY <1>1, <1>2, <1>3, <1>4, <1>5, <1>6, <1>7, <1>8, <1>9 DEF DeviceStep

LEMMA DeviceStepKeeps ==
    ASSUME Inv, DeviceStep
    PROVE  Inv'
<1>1. UNCHANGED <<bin, sha, latest, upload, deletion, uploaded, cut, disturbed>>
  BY DEF DeviceStep, Check, FindFiles, ReadSha, Stat, ReadFirst, ReadRest, DownloadFails,
         BreakTransfer, Verify, files, history
<1>2. TypeOK' /\ BodiesUploaded' /\ VerifiedWereUploaded'
  BY DeviceStepType, DeviceStepBodies DEF Inv
<1>3. RequestsRecorded'
  BY <1>1 DEF Inv, RequestsRecorded, Active
<1>4. \A b \in Bodies : UploadInFiles(b)'
  BY <1>1 DEF Inv, UploadInFiles, Holds
<1>5. \A v \in Versions : UploadedTo(v)' <=> UploadedTo(v)
  BY <1>1 DEF UploadedTo, Active
<1>6. \A v \in Versions : (UploadedTo(v) \/ v \in cut \/ FilesAtRest(v))'
  BY <1>1, <1>5 DEF Inv, FilesAtRest
<1>7. LatestAtRest'
  BY <1>1, <1>5 DEF Inv, LatestAtRest, TypeOK
<1> QED
  BY <1>2, <1>3, <1>4, <1>6, <1>7 DEF Inv

-----------------------------------------------------------------------------
(* The upload: each step leaves the files as its place says.                *)
LEMMA UploadOpenKeeps ==
    ASSUME Inv, NEW b \in Bodies, NEW v \in Versions, UploadOpen(b, v)
    PROVE  Inv'
<1> USE ContentsDistinct
<1>1. /\ upload[b].pc = "idle" /\ \A c \in Bodies : ~Active(c)
      /\ upload' = [upload EXCEPT ![b] = [pc |-> "opened", version |-> v]]
      /\ latest' = latest
      /\ bin' = [bin EXCEPT ![v] = Empty]
      /\ uploaded' = uploaded \cup {<<v, b>>}
      /\ disturbed \subseteq disturbed' /\ disturbed' \subseteq disturbed \cup {v}
      /\ (\E c \in Bodies : <<v, c>> \in uploaded) => v \in disturbed'
      /\ UNCHANGED <<sha, deletion, device, verified, cut>>
  BY DEF UploadOpen, EventLoopFree, LatestAfter
<1>2. TypeOK'
  BY <1>1 DEF Inv, TypeOK, Request, Contents
<1>3. Active(b)' /\ \A c \in Bodies \ {b} : ~Active(c)'
  BY <1>1 DEF Active, Inv, TypeOK
<1>4. RequestsRecorded'
  BY <1>1, <1>3 DEF Inv, RequestsRecorded, TypeOK
<1>5. BodiesUploaded' /\ VerifiedWereUploaded'
  BY <1>1 DEF Inv, BodiesUploaded, VerifiedWereUploaded, TypeOK
<1>6. \A c \in Bodies : UploadInFiles(c)'
  BY <1>1, <1>3 DEF Inv, UploadInFiles, Holds, TypeOK, Active
<1>7. UploadedTo(v)' /\ \A w \in Versions \ {v} : ~UploadedTo(w)'
  BY <1>1, <1>3 DEF UploadedTo, Inv, TypeOK
<1>8. \A w \in Versions : (UploadedTo(w) \/ w \in cut \/ FilesAtRest(w))'
  BY <1>1, <1>7 DEF Inv, FilesAtRest, TypeOK, UploadedTo
<1>9. LatestAtRest'
  BY <1>1, <1>7 DEF Inv, LatestAtRest, TypeOK, BodiesUploaded
<1> QED
  BY <1>2, <1>4, <1>5, <1>6, <1>8, <1>9 DEF Inv

\* The steps after the first: the version being uploaded stays the same.
LEMMA UploadKeeps ==
    ASSUME Inv, NEW b \in Bodies, Upload(b)
    PROVE  Inv'
<1> DEFINE v == upload[b].version
<1> USE ContentsDistinct
<1>1. /\ Active(b) /\ \A c \in Bodies \ {b} : ~Active(c)
      /\ v \in Versions /\ <<v, b>> \in uploaded
  BY DEF Upload, UploadWrite, UploadOpenSha, UploadWriteSha, UploadAnnounce, UploadTo, Active,
         Inv, TypeOK, RequestsRecorded
<1>2. UploadedTo(v) /\ \A w \in Versions \ {v} : ~UploadedTo(w)
  BY <1>1 DEF UploadedTo
<1>3. CASE UploadWrite(b) \/ UploadOpenSha(b) \/ UploadWriteSha(b)
  <2>1. /\ \E pc \in {"written", "sha_opened", "sha_written"} : upload' = [upload EXCEPT ![b].pc = pc]
        /\ latest' = latest
        /\ UNCHANGED <<deletion, device, history>>
    BY <1>3 DEF UploadWrite, UploadOpenSha, UploadWriteSha, UploadTo, LatestAfter
  <2>2. /\ \E c \in {bin[v], b} : bin' = [bin EXCEPT ![v] = c]
        /\ \E c \in {sha[v], b, Empty} : sha' = [sha EXCEPT ![v] = c]
    BY <1>1, <1>3 DEF UploadWrite, UploadOpenSha, UploadWriteSha, Written, Inv, TypeOK
  <2>3. TypeOK'
    BY <1>1, <2>1, <2>2 DEF Inv, TypeOK, Request, Contents, history
  <2>4. /\ upload'[b].version = v
        /\ Active(b)' /\ \A c \in Bodies \ {b} : ~Active(c)' /\ upload'[c] = upload[c]
    BY <1>1, <2>1 DEF Active, Inv, TypeOK, Request
  <2>5. UploadedTo(v)' /\ \A w \in Versions \ {v} : ~UploadedTo(w)'
    BY <2>4 DEF UploadedTo
  <2>6. RequestsRecorded'
    BY <1>1, <2>1, <2>4 DEF Inv, RequestsRecorded, history
  <2>7. BodiesUploaded' /\ VerifiedWereUploaded'
    BY <1>1, <2>1, <2>2 DEF Inv, BodiesUploaded, VerifiedWereUploaded, history, TypeOK
  <2>8. UploadInFiles(b)'
    <3>1. CASE UploadWrite(b)
      <4>1. /\ upload[b].pc = "opened" /\ upload'[b].pc = "written"
            /\ bin'[v] = IF bin[v] = None THEN None ELSE b
            /\ disturbed' = disturbed
        BY <1>1, <3>1 DEF UploadWrite, UploadTo, Written, Inv, TypeOK, history
      <4> QED
        BY <2>4, <4>1 DEF Inv, UploadInFiles, Holds
    <3>2. CASE UploadOpenSha(b)
      <4>1. /\ upload[b].pc = "written" /\ upload'[b].pc = "sha_opened"
            /\ bin'[v] = bin[v] /\ sha'[v] = Empty
            /\ disturbed' = disturbed
        BY <1>1, <3>2 DEF UploadOpenSha, UploadTo, Inv, TypeOK, history
      <4> QED
        BY <2>4, <4>1 DEF Inv, UploadInFiles, Holds
    <3>3. CASE UploadWriteSha(b)
      <4>1. /\ upload[b].pc = "sha_opened" /\ upload'[b].pc = "sha_written"
            /\ bin'[v] = bin[v] /\ sha'[v] = IF sha[v] = None THEN None ELSE b
            /\ disturbed' = disturbed
        BY <1>1, <3>3 DEF UploadWriteSha, UploadTo, Written, Inv, TypeOK, history
      <4> QED
        BY <2>4, <4>1 DEF Inv, UploadInFiles, Holds
    <3> QED
      BY <1>3, <3>1, <3>2, <3>3
  <2>9. \A c \in Bodies : UploadInFiles(c)'
    BY <2>4, <2>8 DEF UploadInFiles, Active
  <2>10. \A w \in Versions \ {v} : bin'[w] = bin[w] /\ sha'[w] = sha[w]
    BY <1>1, <2>2 DEF Inv, TypeOK
  <2>11. \A w \in Versions : (UploadedTo(w) \/ w \in cut \/ FilesAtRest(w))'
    BY <1>2, <2>1, <2>5, <2>10 DEF Inv, FilesAtRest, history
  <2>12. LatestAtRest'
    BY <1>2, <2>1, <2>5, <2>10 DEF Inv, LatestAtRest, TypeOK, history
  <2> QED
    BY <2>3, <2>6, <2>7, <2>9, <2>11, <2>12 DEF Inv
<1>4. CASE UploadAnnounce(b)
  <2>1. /\ upload[b].pc = "sha_written" /\ upload' = [upload EXCEPT ![b].pc = "done"]
        /\ latest' = v
        /\ UNCHANGED <<bin, sha, deletion, device, uploaded, verified, cut, disturbed>>
    BY <1>4 DEF UploadAnnounce, UploadTo, LatestAfter, files, history, Inv, TypeOK
  <2>2. TypeOK'
    BY <1>1, <2>1 DEF Inv, TypeOK, Request, Contents
  <2>3. /\ \A c \in Bodies : ~Active(c)'
        /\ \A c \in Bodies : upload'[c].version = upload[c].version
        /\ \A c \in Bodies \ {b} : upload'[c] = upload[c]
    BY <1>1, <2>1 DEF Active, Inv, TypeOK, Request
  <2>4. RequestsRecorded'
    BY <1>1, <2>1, <2>3 DEF Inv, RequestsRecorded
  <2>5. BodiesUploaded' /\ VerifiedWereUploaded'
    BY <2>1 DEF Inv, BodiesUploaded, VerifiedWereUploaded
  <2>6. \A c \in Bodies : UploadInFiles(c)'
    BY <2>1, <2>3 DEF Inv, UploadInFiles, Holds, TypeOK, Active
  <2>7. Holds(bin, v, b) /\ Holds(sha, v, b)
    BY <2>1 DEF Inv, UploadInFiles
  <2>8. \A w \in Versions : (UploadedTo(w) \/ w \in cut \/ FilesAtRest(w))'
    BY <1>1, <1>2, <2>1, <2>7 DEF Inv, FilesAtRest, Holds
  <2>9. LatestAtRest'
    BY <1>1, <2>1, <2>3, <2>7 DEF LatestAtRest, Holds, UploadedTo
  <2> QED
    BY <2>2, <2>4, <2>5, <2>6, <2>8, <2>9 DEF Inv
<1> QED
  BY <1>3, <1>4 DEF Upload

-----------------------------------------------------------------------------
LEMMA SetLatestKeeps ==
    ASSUME Inv, NEW v \in Versions, SetLatest(v)
    PROVE  Inv'
<1>1. /\ latest' = v /\ disturbed' = disturbed \cup {v}
      /\ UNCHANGED <<bin, sha, upload, deletion, device, uploaded, verified, cut>>
  BY DEF SetLatest, files
<1>2. TypeOK'
  BY <1>1 DEF Inv, TypeOK
<1>3. RequestsRecorded' /\ BodiesUploaded' /\ VerifiedWereUploaded'
  BY <1>1 DEF Inv, RequestsRecorded, BodiesUploaded, VerifiedWereUploaded, Active
<1>4. \A b \in Bodies : UploadInFiles(b)'
  BY <1>1 DEF Inv, UploadInFiles, Holds
<1>5. \A w \in Versions : (UploadedTo(w) \/ w \in cut \/ FilesAtRest(w))'
  BY <1>1 DEF Inv, FilesAtRest, UploadedTo, Active
<1>6. LatestAtRest'
  BY <1>1 DEF LatestAtRest
<1> QED
  BY <1>2, <1>3, <1>4, <1>5, <1>6 DEF Inv

-----------------------------------------------------------------------------
(* A deletion takes away files of a version it has disturbed, and no other. *)
DeleteStep(d) == DeleteBin(d) \/ DeleteSha(d) \/ \E v \in Versions : DeleteStart(d, v)

LEMMA DeleteStepEffect ==
    ASSUME TypeOK, RequestsRecorded, NEW d \in Deleters, DeleteStep(d)
    PROVE  /\ UNCHANGED <<latest, upload, device, uploaded, verified, cut>>
           /\ TypeOK'
           /\ disturbed \subseteq disturbed'
           /\ \A c \in Deleters : deletion'[c].pc # "idle" => deletion'[c].version \in disturbed'
           /\ \A v \in Versions : bin'[v] = bin[v] \/ (bin'[v] = None /\ v \in disturbed')
           /\ \A v \in Versions : sha'[v] = sha[v] \/ (sha'[v] = None /\ v \in disturbed')
<1> USE DEF TypeOK, RequestsRecorded, Request, Contents, Idle, files, history
<1>0. deletion[d].pc # "idle" => deletion[d].version \in Versions \cap disturbed
  OBVIOUS
<1>1. CASE DeleteBin(d)
  <2>1. deletion' \in [Deleters -> Request]
    BY <1>1 DEF DeleteBin
  <2>2. \A c \in Deleters : deletion'[c].pc # "idle" => deletion'[c].version \in disturbed'
    BY <1>1 DEF DeleteBin
  <2> QED
    BY <1>0, <1>1, <2>1, <2>2 DEF DeleteBin
<1>2. CASE DeleteSha(d)
  BY <1>2 DEF DeleteSha
<1>3. ASSUME NEW v \in Versions, DeleteStart(d, v)
      PROVE  /\ UNCHANGED <<bin, sha, latest, upload, device, uploaded, verified, cut>>
             /\ deletion' = [deletion EXCEPT ![d] = [pc |-> "found", version |-> v]]
             /\ disturbed' = disturbed \cup {v}
  BY <1>3 DEF DeleteStart
<1>4. CASE \E v \in Versions : DeleteStart(d, v)
  <2>1. PICK v \in Versions : DeleteStart(d, v)
    BY <1>4
  <2>2. /\ UNCHANGED <<bin, sha, latest, upload, device, uploaded, verified, cut>>
        /\ deletion' = [deletion EXCEPT ![d] = [pc |-> "found", version |-> v]]
        /\ disturbed' = disturbed \cup {v}
    BY <1>3, <2>1
  <2> QED
    BY <2>2
<1> QED
  BY <1>1, <1>2, <1>4 DEF DeleteStep

LEMMA DeleteStepKeeps ==
    ASSUME Inv, NEW d \in Deleters, DeleteStep(d)
    PROVE  Inv'
<1>1. TypeOK /\ RequestsRecorded
  BY DEF Inv
<1>2. /\ UNCHANGED <<latest, upload, device, uploaded, verified, cut>>
      /\ TypeOK'
      /\ disturbed \subseteq disturbed'
      /\ \A c \in Deleters : deletion'[c].pc # "idle" => deletion'[c].version \in disturbed'
      /\ \A v \in Versions : bin'[v] = bin[v] \/ (bin'[v] = None /\ v \in disturbed')
      /\ \A v \in Versions : sha'[v] = sha[v] \/ (sha'[v] = None /\ v \in disturbed')
  BY <1>1, DeleteStepEffect
<1>3. RequestsRecorded'
  BY <1>1, <1>2 DEF RequestsRecorded, Active
<1>4. BodiesUploaded' /\ VerifiedWereUploaded'
  BY <1>2, ContentsDistinct DEF Inv, BodiesUploaded, VerifiedWereUploaded
<1>5. \A b \in Bodies : UploadInFiles(b)'
  <2> SUFFICES ASSUME NEW b \in Bodies, upload[b].pc # "idle" PROVE UploadInFiles(b)'
    BY <1>2 DEF UploadInFiles
  <2> DEFINE v == upload[b].version
  <2>1. v \in Versions /\ upload'[b] = upload[b] /\ UploadInFiles(b)
    BY <1>1, <1>2 DEF Inv, RequestsRecorded
  <2>2. \A c : /\ Holds(bin, v, c) => Holds(bin, v, c)'
               /\ Holds(sha, v, c) => Holds(sha, v, c)'
    BY <1>2, <2>1 DEF Holds
  <2> QED
    BY <2>1, <2>2 DEF UploadInFiles
<1>6. \A v \in Versions : UploadedTo(v)' <=> UploadedTo(v)
  BY <1>2 DEF UploadedTo, Active
<1>7. \A v \in Versions : (UploadedTo(v) \/ v \in cut \/ FilesAtRest(v))'
  BY <1>2, <1>6 DEF Inv, FilesAtRest
<1>8. LatestAtRest'
  BY <1>1, <1>2, <1>6 DEF Inv, LatestAtRest, TypeOK
<1> QED
  BY <1>2, <1>3, <1>4, <1>5, <1>7, <1>8 DEF Inv

-----------------------------------------------------------------------------
(* A restart leaves files half written only of versions it cuts short.      *)
LEMMA RestartKeeps ==
    ASSUME Inv, Restart
    PROVE  Inv'
<1> USE ContentsDistinct
<1> DEFINE broken == {upload[b].version : b \in {x \in Bodies : Active(x)}}
                       \cup {deletion[d].version : d \in {x \in Deleters : deletion[x].pc # "idle"}}
<1>1. /\ latest' = None
      /\ device' = IF Downloading THEN Failed ELSE device
      /\ deletion' = [d \in Deleters |-> Idle]
      /\ upload' = [b \in Bodies |-> IF Active(b) THEN [upload[b] EXCEPT !.pc = "done"] ELSE upload[b]]
      /\ cut' = cut \cup broken
      /\ disturbed' = disturbed \cup broken
      /\ UNCHANGED <<sha, uploaded, verified>>
  BY DEF Restart
<1>2. \A b \in Bodies : Active(b) => upload[b].version \in broken /\ upload[b].version \in Versions
  <2> TAKE b \in Bodies
  <2> HAVE Active(b)
  <2>1. upload[b].version \in broken
    OBVIOUS
  <2>2. upload[b].version \in Versions
    BY DEF Inv, RequestsRecorded, Active
  <2> QED
    BY <2>1, <2>2
<1>3. broken \subseteq Versions
  BY <1>2 DEF Inv, RequestsRecorded, TypeOK
<1> HIDE DEF broken
<1>4. /\ bin' \in [Versions -> Contents]
      /\ \A v \in Versions : bin'[v] = bin[v] \/ (bin[v] = Empty /\ bin'[v] = Torn)
  BY DEF Restart, Inv, TypeOK, Contents
<1>5. TypeOK'
  <2>1. Downloading => device.version \in Versions
    BY DEF Downloading, Inv, BodiesUploaded
  <2>2. device' \in [pc : {"idle", "offered", "sha_found", "headers", "stat", "reading",
                           "downloaded", "broken", "accepted", "failed"},
                     version : Versions \cup {None}, size : Contents,
                     body : Contents, expected : Bodies \cup {Empty}]
    BY <1>1, <2>1, ContentsDistinct DEF Inv, TypeOK, Contents, Failed, Run
  <2>3. upload' \in [Bodies -> Request] /\ deletion' \in [Deleters -> Request]
    BY <1>1 DEF Inv, TypeOK, Request, Idle
  <2> QED
    BY <1>1, <1>3, <1>4, <2>2, <2>3 DEF Inv, TypeOK
<1>6. \A b \in Bodies :
        /\ upload'[b].version = upload[b].version
        /\ upload'[b].pc \in {"idle", "done"}
        /\ upload[b].pc = "idle" => upload'[b].pc = "idle"
  <2> TAKE b \in Bodies
  <2>1. upload[b] \in Request
    BY DEF Inv, TypeOK
  <2>2. CASE Active(b)
    <3>1. upload'[b] = [upload[b] EXCEPT !.pc = "done"]
      BY <1>1, <2>2
    <3> QED
      BY <2>1, <2>2, <3>1 DEF Active, Request
  <2>3. CASE ~Active(b)
    <3>1. upload'[b] = upload[b]
      BY <1>1, <2>3
    <3> QED
      BY <2>3, <3>1 DEF Active
  <2> QED
    BY <2>2, <2>3
<1>7. RequestsRecorded'
  <2>1. \A d \in Deleters : deletion'[d].pc = "idle"
    BY <1>1 DEF Idle
  <2>2. cut' \subseteq disturbed' /\ uploaded' = uploaded
    BY <1>1 DEF Inv, RequestsRecorded
  <2> QED
    BY <1>6, <2>1, <2>2 DEF Inv, RequestsRecorded, Active
<1>8. BodiesUploaded' /\ VerifiedWereUploaded'
  BY <1>1, <1>4 DEF Inv, BodiesUploaded, VerifiedWereUploaded, Run, Failed, Downloading
<1>9. \A b \in Bodies : UploadInFiles(b)'
  <2> SUFFICES ASSUME NEW b \in Bodies PROVE UploadInFiles(b)'
    OBVIOUS
  <2>1. upload'[b].pc \in {"idle", "done"}
    BY <1>6
  <2> QED
    BY <2>1 DEF UploadInFiles
<1>10. \A v \in Versions : (v \in cut \/ FilesAtRest(v))'
  <2> SUFFICES ASSUME NEW v \in Versions, v \notin cut' PROVE FilesAtRest(v)'
    OBVIOUS
  <2>1. ~UploadedTo(v) /\ v \notin cut
    BY <1>1, <1>2 DEF UploadedTo
  <2>2. FilesAtRest(v)
    BY <2>1 DEF Inv
  <2> QED
    BY <1>1, <1>4, <2>2 DEF FilesAtRest
<1>11. LatestAtRest'
  BY <1>1 DEF LatestAtRest
<1> QED
  BY <1>5, <1>7, <1>8, <1>9, <1>10, <1>11 DEF Inv

-----------------------------------------------------------------------------
LEMMA NextInv ==
    ASSUME Inv, [Next]_vars
    PROVE  Inv'
<1>1. CASE UNCHANGED vars
  BY <1>1 DEF vars, files, history, Inv, TypeOK, RequestsRecorded, BodiesUploaded, UploadInFiles, Holds,
     VerifiedWereUploaded, FilesAtRest, LatestAtRest, UploadedTo, Active
<1>2. ASSUME NEW b \in Bodies, Upload(b) PROVE Inv'
  BY <1>2, UploadKeeps
<1>3. ASSUME NEW b \in Bodies, NEW v \in Versions, UploadOpen(b, v) PROVE Inv'
  BY <1>3, UploadOpenKeeps
<1>4. ASSUME NEW v \in Versions, SetLatest(v) PROVE Inv'
  BY <1>4, SetLatestKeeps
<1>5. ASSUME NEW d \in Deleters, DeleteStep(d) PROVE Inv'
  BY <1>5, DeleteStepKeeps
<1>6. CASE DeviceStep
  BY <1>6, DeviceStepKeeps
<1>7. CASE Restart
  BY <1>7, RestartKeeps
<1> QED
  BY <1>1, <1>2, <1>3, <1>4, <1>5, <1>6, <1>7 DEF Next, Updater, DeviceStep, DeleteStep

LEMMA InvAlways == Spec => []Inv
<1>1. Init => Inv
  BY InitInv
<1>2. Inv /\ [Next]_vars => Inv'
  BY NextInv
<1> QED
  BY <1>1, <1>2, PTL DEF Spec

(* Files, requests and the device keep their types: a checksum file is      *)
(* never of part of a body.                                                 *)
THEOREM TypeCorrect == Spec => []TypeOK
<1>1. Inv => TypeOK
  BY DEF Inv
<1> QED
  BY <1>1, InvAlways, PTL

(* Whatever uploads, deletions, restarts and broken transfers happen while  *)
(* FirmwareUpdater downloads, it accepts only what somebody uploaded, whole,*)
(* as the version it was offered.                                           *)
THEOREM AcceptedWereUploaded == Spec => []VerifiedWereUploaded
<1>1. Inv => VerifiedWereUploaded
  BY DEF Inv, VerifiedWereUploaded
<1> QED
  BY <1>1, InvAlways, PTL

(* The checksum file that upload_firmware leaves is of the binary beside it.*)
THEOREM ChecksumsMatchBinaries == Spec => []ChecksumsMatch
<1>1. Inv => ChecksumsMatch
  BY DEF Inv, ChecksumsMatch, FilesAtRest, UploadedTo
<1> QED
  BY <1>1, InvAlways, PTL

(* upload_firmware announces a version only when both its files are there,  *)
(* and nothing but what the history of the version records takes them away. *)
THEOREM AnnouncedIsComplete == Spec => []LatestIsComplete
<1>1. Inv => LatestIsComplete
  BY DEF Inv, LatestIsComplete, LatestAtRest
<1> QED
  BY <1>1, InvAlways, PTL

=============================================================================
