---------------------------- MODULE SessionWatch ----------------------------
(********************************************************************************)
(* How the browsers learn that a transcript has changed (server/watcher.go):    *)
(* file events are debounced by timers and looked at one at a time, or a poller *)
(* looks at the files where there are no events; a later modification time      *)
(* broadcasts a reload.                                                         *)
(*                                                                              *)
(* One file, whose directory may be new too.  Time goes in ticks, the           *)
(* granularity of modification times.                                           *)
(********************************************************************************)
EXTENDS Naturals

CONSTANTS WaWrites,   \* bound: writes
          WaTicks,    \* bound: ticks
          WaWakeCap   \* capacity of wakeCh

ASSUME WaConstants == WaWrites \in Nat \ {0} /\ WaTicks \in Nat \ {0} /\ WaWakeCap \in Nat \ {0}

VARIABLES
  waFsnotify,           \* watchFilesFsnotify has succeeded
  waClock, waVersion, waMod,  \* now; the file's version, 0 for none, and modification time
  waDir,                \* its directory: "absent", "created", "watched"
  waUnwatched,          \* history: the file was created before its directory was watched
  waEvents,             \* file events not handled: "directory", "create", "write"
  waTimer,              \* d.timers[path], 0 for none
  waArmed, waMade,      \* timers that will fire; timers made
  waFired, waSending,   \* callbacks that wait for d.mu; that send
  waWake,               \* length of wakeCh
  waRun,                \* what the loop or the poller is recording
  waKnown, waFileMod,   \* fileMod: recorded, and what
  waSeen, waFirst,      \* history: version of the recorded time; and of a first look without a mark
  waTold,               \* history: version when a reload was last broadcast
  waStop

waFileVars == <<waClock, waVersion, waMod, waDir, waUnwatched>>
waTimerVars == <<waTimer, waArmed, waMade, waFired, waSending>>
waRecordVars == <<waKnown, waFileMod, waSeen, waFirst, waTold>>
waVars == <<waFsnotify, waFileVars, waEvents, waTimerVars, waWake, waRun, waRecordVars, waStop>>

WaIdle == [at |-> "idle", mod |-> 0, version |-> 0]

\* Either the file was there when the watcher scanned for changes, or nothing was.
WaInit ==
  /\ waFsnotify \in BOOLEAN
  /\ waClock = 1 /\ waUnwatched = FALSE
  /\ \/ waVersion = 1 /\ waMod = 1 /\ waDir = "watched" /\ waKnown = TRUE /\ waSeen = 1
     \/ waVersion = 0 /\ waMod = 0 /\ waDir = "absent" /\ waKnown = FALSE /\ waSeen = 0
  /\ waFileMod = waMod /\ waFirst = waVersion /\ waTold = waVersion
  /\ waEvents = {} /\ waTimer = 0 /\ waArmed = {} /\ waMade = 0 /\ waFired = 0 /\ waSending = 0
  /\ waWake = 0 /\ waRun = WaIdle /\ waStop = "no"

-----------------------------------------------------------------------------
(* The files.                                                               *)

WaTick ==
  /\ waClock < WaTicks /\ waClock' = waClock + 1
  /\ UNCHANGED <<waFsnotify, waVersion, waMod, waDir, waUnwatched, waEvents, waTimerVars, waWake,
                 waRun, waRecordVars, waStop>>

WaMakeDir ==
  /\ waDir = "absent" /\ waDir' = "created"
  /\ waEvents' = IF waFsnotify THEN {"directory"} ELSE {}
  /\ UNCHANGED <<waFsnotify, waClock, waVersion, waMod, waUnwatched, waTimerVars, waWake, waRun,
                 waRecordVars, waStop>>

\* An append is a Write, a new file or a projection renamed into place a Create.
WaWrite ==
  /\ waDir # "absent" /\ waVersion < WaWrites
  /\ waVersion' = waVersion + 1 /\ waMod' = waClock
  /\ waUnwatched' = (waUnwatched \/ (waVersion = 0 /\ waDir = "created"))
  /\ \E kind \in {"create", "write"} :
       /\ waVersion = 0 => kind = "create"
       /\ waEvents' = waEvents \cup (IF waFsnotify /\ waDir = "watched" THEN {kind} ELSE {})
  /\ UNCHANGED <<waFsnotify, waClock, waDir, waTimerVars, waWake, waRun, waRecordVars, waStop>>

-----------------------------------------------------------------------------
(* handleFsEvent and debouncer.                                             *)

\* A timer in the map is pushed back if it has not fired.  If it has, Reset starts
\* it again all the same, and a new one is made.
WaSchedule ==
  IF waTimer \in waArmed THEN UNCHANGED <<waTimer, waArmed, waMade>>
  ELSE /\ waMade' = waMade + 1 /\ waTimer' = waMade'
       /\ waArmed' = waArmed \cup ({waTimer} \ {0}) \cup {waMade'}

WaDirectoryEvent ==
  /\ waStop = "no" /\ "directory" \in waEvents
  /\ waEvents' = waEvents \ {"directory"} /\ waDir' = "watched"
  /\ UNCHANGED <<waFsnotify, waClock, waVersion, waMod, waUnwatched, waTimerVars, waWake, waRun,
                 waRecordVars, waStop>>

\* mutant: a new file is not marked.
WaUnmarked(kind) == UNCHANGED <<waKnown, waFileMod>>

\* A new file is marked as known, at time zero, so that its first look is a change.
WaMark(kind) ==
  IF kind = "create" /\ ~waKnown THEN waKnown' = TRUE /\ waFileMod' = 0
  ELSE UNCHANGED <<waKnown, waFileMod>>

WaFileEvent(kind) ==
  /\ waStop = "no" /\ kind \in waEvents \ {"directory"}
  /\ kind = "write" => "create" \notin waEvents  \* events come in order
  /\ waEvents' = waEvents \ {kind}
  /\ WaMark(kind)
  /\ WaSchedule
  /\ UNCHANGED <<waFsnotify, waFileVars, waFired, waSending, waWake, waRun, waSeen, waFirst, waTold,
                 waStop>>

WaFire(t) ==
  /\ t \in waArmed
  /\ waArmed' = waArmed \ {t} /\ waFired' = waFired + 1
  /\ UNCHANGED <<waFsnotify, waFileVars, waEvents, waTimer, waMade, waSending, waWake, waRun,
                 waRecordVars, waStop>>

\* The callback deletes the path's timer, which may be a later one.
WaCallback ==
  /\ waFired > 0
  /\ waFired' = waFired - 1 /\ waTimer' = 0 /\ waSending' = waSending + 1
  /\ UNCHANGED <<waFsnotify, waFileVars, waEvents, waArmed, waMade, waWake, waRun, waRecordVars, waStop>>

WaSend ==
  /\ waSending > 0 /\ waSending' = waSending - 1
  /\ \/ waWake < WaWakeCap /\ waWake' = waWake + 1
     \/ waStop # "no" /\ UNCHANGED waWake
  /\ UNCHANGED <<waFsnotify, waFileVars, waEvents, waTimer, waArmed, waMade, waFired, waRun,
                 waRecordVars, waStop>>

-----------------------------------------------------------------------------
(* run, scanForChanges and recordModTime.                                   *)

WaLook == waRun' = [at |-> "record", mod |-> waMod, version |-> waVersion]

WaRun ==
  /\ waStop # "stopped" /\ waRun = WaIdle /\ waWake > 0
  /\ waWake' = waWake - 1
  /\ WaLook
  /\ UNCHANGED <<waFsnotify, waFileVars, waEvents, waTimerVars, waRecordVars, waStop>>

WaPoll ==
  /\ waStop = "no" /\ ~waFsnotify /\ waRun = WaIdle /\ waVersion > 0
  /\ ~waKnown \/ waMod # waFileMod  \* else nothing comes of it
  /\ WaLook
  /\ UNCHANGED <<waFsnotify, waFileVars, waEvents, waTimerVars, waWake, waRecordVars, waStop>>

WaRecord ==
  /\ waRun.at = "record"
  /\ waRun' = IF waKnown /\ waRun.mod > waFileMod THEN [waRun EXCEPT !.at = "broadcast"] ELSE WaIdle
  /\ waKnown' = TRUE /\ waFileMod' = waRun.mod
  /\ waSeen' = IF waKnown /\ waRun.mod = waFileMod THEN waSeen ELSE waRun.version
  /\ waFirst' = IF waKnown THEN waFirst ELSE waRun.version
  /\ UNCHANGED <<waFsnotify, waFileVars, waEvents, waTimerVars, waWake, waTold, waStop>>

\* The page that reloads reads what is there by then.
WaBroadcast ==
  /\ waRun.at = "broadcast"
  /\ waRun' = WaIdle /\ waTold' = waVersion
  /\ UNCHANGED <<waFsnotify, waFileVars, waEvents, waTimerVars, waWake, waKnown, waFileMod, waSeen,
                 waFirst, waStop>>

-----------------------------------------------------------------------------
\* stop: the watcher's loop ends first, and waits for run.
WaStopping ==
  /\ waStop = "no" /\ waStop' = "stopping"
  /\ waArmed' = waArmed \ {waTimer} /\ waTimer' = 0
  /\ UNCHANGED <<waFsnotify, waFileVars, waEvents, waMade, waFired, waSending, waWake, waRun,
                 waRecordVars>>
WaStopped ==
  /\ waStop = "stopping" /\ waRun = WaIdle /\ waStop' = "stopped"
  /\ UNCHANGED <<waFsnotify, waFileVars, waEvents, waTimerVars, waWake, waRun, waRecordVars>>

WaNext ==
  \/ WaTick \/ WaMakeDir \/ WaWrite \/ WaDirectoryEvent
  \/ \E kind \in {"create", "write"} : WaFileEvent(kind)
  \/ \E t \in waArmed : WaFire(t)
  \/ WaCallback \/ WaSend \/ WaRun \/ WaPoll \/ WaRecord \/ WaBroadcast \/ WaStopping \/ WaStopped

WaSpec == WaInit /\ [][WaNext]_waVars

-----------------------------------------------------------------------------
(* Properties.                                                              *)

WaTypeOK ==
  /\ waClock \in 1..WaTicks /\ waVersion \in 0..WaWrites /\ waMod \in 0..waClock
  /\ waTimer \in 0..waMade /\ waWake \in 0..WaWakeCap /\ waTold \in 0..waVersion

WaAtRest ==
  waStop = "no" /\ waEvents = {} /\ waArmed = {} /\ waFired = 0 /\ waSending = 0 /\ waWake = 0
    /\ waRun = WaIdle /\ (waFsnotify \/ waFileMod = waMod)

\* The file was written again within the tick of the modification time recorded.
WaSameTick == waFileMod = waMod /\ waSeen < waVersion

\* Whatever the timers do, the last change is followed by a reload.  The first look
\* at a file is none when nothing announced the file: under the poller, or when it
\* was created before its directory was watched.
WaReloadsFollow ==
  WaAtRest => \/ waTold = waVersion
              \/ WaSameTick
              \/ waVersion = waFirst
              \/ waUnwatched /\ waSeen < waVersion

\* A file in a watched directory is announced from its first line on.
WaFirstLineTold ==
  WaAtRest /\ waFsnotify /\ ~waUnwatched /\ ~WaSameTick => waTold = waVersion

\* Close leaves no recording behind.
WaQuietAfterStop == waStop = "stopped" => waRun = WaIdle
=============================================================================
