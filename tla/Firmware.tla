------------------------------ MODULE Firmware ------------------------------
(***************************************************************************)
(* Firmware distribution: the binary and checksum files and the latest     *)
(* version on the hub (app/main.py, app/firmware.py), and the device's     *)
(* FirmwareUpdater (client-cpp).                                           *)
(*                                                                         *)
(* upload_firmware runs on the event loop and does not await after it has  *)
(* the body, so uploads exclude each other; deletions and downloads run on *)
(* threads and interleave with it between any two file operations.  An     *)
(* upload overwrites a file in place; a deleted file that is being written *)
(* or read goes on under no name.                                          *)
(***************************************************************************)
EXTENDS Naturals, FiniteSets

CONSTANTS
    Versions,
    Bodies,     \* the bodies of the uploads, all different
    Deleters,   \* threads that serve delete_firmware_version
    None,       \* no file, no version
    Empty,      \* a file that was opened for writing and not yet written
    Torn        \* part of a body, or of two

ASSUME ContentsAssumption ==
    /\ Cardinality({None, Empty, Torn}) = 3
    /\ {None, Empty, Torn} \cap (Bodies \cup Versions) = {}

VARIABLES
    bin,        \* bin[v]: contents of v.bin
    sha,        \* sha[v]: the body whose checksum v.bin.sha256 holds
    latest,     \* firmware_tracker._latest_version
    upload,     \* upload[b]: where the upload of body b is
    deletion,   \* deletion[d]: where d's request is
    device,     \* the device's update run
    uploaded,   \* <<version, body>> of every upload begun
    verified,   \* <<version, body>> of every update the device accepted
    cut,        \* versions an upload of which a restart has cut short
    disturbed   \* versions deleted, uploaded again, cut short, or announced
                \* by other means than an upload

files == <<bin, sha>>
history == <<uploaded, verified, cut, disturbed>>
vars == <<files, latest, upload, deletion, device, history>>

Idle == [pc |-> "idle", version |-> None]
\* An update run of which nothing but its version matters.
Run(pc, v) == [pc |-> pc, version |-> v, size |-> None, body |-> None, expected |-> Empty]
IdleDevice == Run("idle", None)

Init ==
    /\ bin = [v \in Versions |-> None]
    /\ sha = [v \in Versions |-> None]
    /\ latest = None
    /\ upload = [b \in Bodies |-> Idle]
    /\ deletion = [d \in Deleters |-> Idle]
    /\ device = IdleDevice
    /\ uploaded = {}
    /\ verified = {}
    /\ cut = {}
    /\ disturbed = {}

-----------------------------------------------------------------------------
(* Faulty variants of definitions below: bugs this code could well have.    *)

\* Faulty: a plain `def` endpoint, so uploads interleave.
EventLoopFreeAlways == TRUE

\* Faulty: a missing checksum is no reason to refuse.
AcceptsUnchecked(expected, actual) == expected = Empty \/ actual = expected

\* Faulty: the version is announced before its files are written.
LatestAfterEarly(b, pc) == IF pc = "opened" THEN upload'[b].version ELSE latest

\* Faulty: the body is announced in the place of its version.
LatestAfterBody(b, pc) == IF pc = "done" THEN b ELSE latest

\* Faulty: the checksum is looked for under another name.
ShaFoundNever(v) == FALSE

-----------------------------------------------------------------------------
(* upload_firmware: write the binary, write its checksum, announce.         *)
Active(b) == upload[b].pc \notin {"idle", "done"}

EventLoopFree == \A b \in Bodies : ~Active(b)

LatestAfter(b, pc) == IF pc = "done" THEN upload[b].version ELSE latest

UploadTo(b, from, pc) ==
    /\ upload[b].pc = from
    /\ upload' = [upload EXCEPT ![b].pc = pc]
    /\ latest' = LatestAfter(b, pc)

UploadOpen(b, v) ==
    /\ EventLoopFree
    /\ upload[b].pc = "idle"
    /\ upload' = [upload EXCEPT ![b] = [pc |-> "opened", version |-> v]]
    /\ latest' = LatestAfter(b, "opened")
    /\ bin' = [bin EXCEPT ![v] = Empty]
    /\ uploaded' = uploaded \cup {<<v, b>>}
    /\ disturbed' = IF \E c \in Bodies : <<v, c>> \in uploaded THEN disturbed \cup {v} ELSE disturbed
    /\ UNCHANGED <<sha, deletion, device, verified, cut>>

\* What a file holds after a write to it: the name may be gone by now.
Written(file, v, contents) == [file EXCEPT ![v] = IF @ = None THEN None ELSE contents]

UploadWrite(b) ==
    /\ UploadTo(b, "opened", "written")
    /\ bin' = Written(bin, upload[b].version, b)
    /\ UNCHANGED <<sha, deletion, device, history>>

UploadOpenSha(b) ==
    /\ UploadTo(b, "written", "sha_opened")
    /\ sha' = [sha EXCEPT ![upload[b].version] = Empty]
    /\ UNCHANGED <<bin, deletion, device, history>>

UploadWriteSha(b) ==
    /\ UploadTo(b, "sha_opened", "sha_written")
    /\ sha' = Written(sha, upload[b].version, b)
    /\ UNCHANGED <<bin, deletion, device, history>>

UploadAnnounce(b) ==
    /\ UploadTo(b, "sha_written", "done")
    /\ UNCHANGED <<files, deletion, device, history>>

(* set_latest_firmware announces any version.                               *)
SetLatest(v) ==
    /\ latest' = v
    /\ disturbed' = disturbed \cup {v}
    /\ UNCHANGED <<files, upload, deletion, device, uploaded, verified, cut>>

-----------------------------------------------------------------------------
(* delete_firmware_version: 404 without a binary, then remove it and, if    *)
(* there is one, the checksum.  Removing a file that is gone is a 500.      *)
DeleteStart(d, v) ==
    /\ deletion[d].pc = "idle"
    /\ bin[v] # None
    /\ deletion' = [deletion EXCEPT ![d] = [pc |-> "found", version |-> v]]
    /\ disturbed' = disturbed \cup {v}
    /\ UNCHANGED <<files, latest, upload, device, uploaded, verified, cut>>

DeleteBin(d) ==
    /\ deletion[d].pc = "found"
    /\ bin' = [bin EXCEPT ![deletion[d].version] = None]
    /\ deletion' = [deletion EXCEPT ![d] =
                      IF bin[deletion[d].version] = None THEN Idle
                      ELSE [@ EXCEPT !.pc = "bin_removed"]]
    /\ UNCHANGED <<sha, latest, upload, device, history>>

DeleteSha(d) ==
    /\ deletion[d].pc = "bin_removed"
    /\ sha' = [sha EXCEPT ![deletion[d].version] = None]
    /\ deletion' = [deletion EXCEPT ![d] = Idle]
    /\ UNCHANGED <<bin, latest, upload, device, history>>

-----------------------------------------------------------------------------
(* FirmwareUpdater::run_once and the handlers it calls.  A failed download  *)
(* or comparison ends the run; another may start with the next process.  A  *)
(* check that is refused or finds no update changes nothing.                *)
Ended == device.pc \in {"idle", "accepted", "failed"}

Check ==
    /\ Ended
    /\ latest # None
    /\ device' = Run("offered", latest)
    /\ UNCHANGED <<files, latest, upload, deletion, history>>

ShaFound(v) == sha[v] # None

FindFiles ==
    /\ device.pc = "offered"
    /\ device' = IF bin[device.version] = None THEN IdleDevice
                 ELSE [device EXCEPT !.pc = IF ShaFound(device.version) THEN "sha_found"
                                            ELSE "headers"]
    /\ UNCHANGED <<files, latest, upload, deletion, history>>

ReadSha ==
    /\ device.pc = "sha_found"
    /\ device' = IF sha[device.version] = None THEN IdleDevice
                 ELSE [device EXCEPT !.pc = "headers", !.expected = sha[device.version]]
    /\ UNCHANGED <<files, latest, upload, deletion, history>>

(* FileResponse: the length for the headers, then the contents in pieces.   *)
Stat ==
    /\ device.pc = "headers"
    /\ device' = IF bin[device.version] = None THEN IdleDevice
                 ELSE [device EXCEPT !.pc = "stat", !.size = bin[device.version]]
    /\ UNCHANGED <<files, latest, upload, deletion, history>>

ReadFirst ==
    /\ device.pc = "stat"
    /\ device' = IF bin[device.version] = None THEN IdleDevice
                 ELSE [device EXCEPT !.pc = "reading", !.body = bin[device.version]]
    /\ UNCHANGED <<files, latest, upload, deletion, history>>

(* If the file changed since it was opened or measured, the device may get  *)
(* what was there, or parts; download() does not ask whether it got all.    *)
ReadRest ==
    LET same == bin[device.version] = device.body /\ device.size = device.body IN
    /\ device.pc = "reading"
    /\ \E body \in IF same THEN {device.body} ELSE {device.body, Torn} :
         device' = [device EXCEPT !.pc = "downloaded", !.body = body]
    /\ UNCHANGED <<files, latest, upload, deletion, history>>

(* The limiter refuses the download, the connection fails before the        *)
(* transfer, or the output cannot be opened: download() is false.           *)
Downloading == device.pc \in {"offered", "sha_found", "headers", "stat", "reading"}

Failed == Run("failed", device.version)

DownloadFails ==
    /\ Downloading
    /\ device' = Failed
    /\ UNCHANGED <<files, latest, upload, deletion, history>>

(* The connection breaks during the transfer; the status is already 200.    *)
BreakTransfer ==
    /\ device.pc = "reading"
    /\ device' = [device EXCEPT !.pc = "broken", !.body = Torn]
    /\ UNCHANGED <<files, latest, upload, deletion, history>>

(* Both an empty and a missing checksum give no x-sha256 header.            *)
Accepts(expected, actual) == expected # Empty /\ actual = expected

Verify ==
    /\ device.pc \in {"downloaded", "broken"}
    /\ IF Accepts(device.expected, device.body)
         THEN /\ verified' = verified \cup {<<device.version, device.body>>}
              /\ device' = Run("accepted", device.version)
         ELSE device' = IdleDevice /\ UNCHANGED verified
    /\ UNCHANGED <<files, latest, upload, deletion, uploaded, cut, disturbed>>

-----------------------------------------------------------------------------
(* The server restarts: files stay, partly written ones too; the latest     *)
(* version is only in memory.  A download is cut off: a whole body is not.  *)
Restart ==
    LET broken == {upload[b].version : b \in {x \in Bodies : Active(x)}}
                    \cup {deletion[d].version : d \in {x \in Deleters : deletion[x].pc # "idle"}}
    IN
    /\ latest' = None
    /\ bin' \in {bin, [v \in Versions |-> IF bin[v] = Empty THEN Torn ELSE bin[v]]}
    /\ upload' = [b \in Bodies |-> IF Active(b) THEN [upload[b] EXCEPT !.pc = "done"] ELSE upload[b]]
    /\ deletion' = [d \in Deleters |-> Idle]
    /\ device' = IF Downloading THEN Failed ELSE device
    /\ cut' = cut \cup broken
    /\ disturbed' = disturbed \cup broken
    /\ UNCHANGED <<sha, uploaded, verified>>

Updater == FindFiles \/ ReadSha \/ Stat \/ ReadFirst \/ ReadRest \/ Verify

Upload(b) == UploadWrite(b) \/ UploadOpenSha(b) \/ UploadWriteSha(b) \/ UploadAnnounce(b)

Next ==
    \/ \E b \in Bodies : Upload(b) \/ \E v \in Versions : UploadOpen(b, v)
    \/ \E v \in Versions : SetLatest(v)
    \/ \E d \in Deleters : DeleteBin(d) \/ DeleteSha(d) \/ \E v \in Versions : DeleteStart(d, v)
    \/ Check
    \/ Updater
    \/ DownloadFails
    \/ BreakTransfer
    \/ Restart

Spec == Init /\ [][Next]_vars

(* A run of the updater and the handlers it calls go on.                    *)
FairSpec == Spec /\ WF_vars(Updater)

-----------------------------------------------------------------------------
Contents == Bodies \cup {None, Empty, Torn}
Request == [pc : {"idle", "opened", "written", "sha_opened", "sha_written", "done",
                  "found", "bin_removed"}, version : Versions \cup {None}]

(* Files hold bodies, parts of them or nothing; requests have their types.  *)
TypeOK ==
    /\ bin \in [Versions -> Contents]
    /\ sha \in [Versions -> Bodies \cup {None, Empty}]
    /\ latest \in Versions \cup {None}
    /\ upload \in [Bodies -> Request]
    /\ deletion \in [Deleters -> Request]
    /\ device \in [pc : {"idle", "offered", "sha_found", "headers", "stat", "reading",
                         "downloaded", "broken", "accepted", "failed"}, version : Versions \cup {None}, size : Contents,
                   body : Contents, expected : Bodies \cup {Empty}]
    /\ uploaded \cup verified \subseteq Versions \X Contents
    /\ cut \cup disturbed \subseteq Versions

(* The device accepts only what somebody uploaded, whole, as the version it *)
(* was offered: whatever uploads, deletions, restarts and broken transfers  *)
(* happen while it downloads.                                               *)
VerifiedWereUploaded ==
    \A u \in verified : u \in uploaded /\ u[2] \in Bodies

(* While nobody uploads a version, its checksum file is of the body in its  *)
(* binary, if both are there, unless a restart cut somebody short: also     *)
(* while the version is being deleted.                                      *)
ChecksumsMatch ==
    \A v \in Versions :
      \/ \E b \in Bodies : Active(b) /\ upload[b].version = v
      \/ v \in cut
      \/ None \in {bin[v], sha[v]}
      \/ bin[v] = sha[v]

(* A version is announced only when its files are complete.                 *)
LatestIsComplete ==
    latest \notin disturbed \cup {None} => bin[latest] \in Bodies /\ sha[latest] = bin[latest]

(* A run that is offered a version ends with the version accepted, unless   *)
(* its download is refused or its connection breaks, or the version was     *)
(* deleted, uploaded again, cut short or announced by hand.                 *)
OffersAreAccepted ==
    \A v \in Versions :
      device.pc = "offered" /\ device.version = v
        ~> \/ v \in disturbed
           \/ device.version = v /\ device.pc \in {"accepted", "failed", "broken"}
=============================================================================
