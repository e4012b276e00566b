----------------------------- MODULE AlertBridge -----------------------------
(***************************************************************************)
(* The hand-over of alerts between two containers of a node: zt-pipeline   *)
(* appends one JSON line per alert to alerts.json (FileAlertHandler), the  *)
(* alert-bridge tails that file and publishes each line on zt.alerts.raw.  *)
(*                                                                         *)
(* The two share nothing but the file.  A file is the sequence of its      *)
(* units; a line is some units, the first of which starts with '{' and the *)
(* last of which ends with the newline.  A line that crosses a page        *)
(* boundary can become visible piece by piece (Torn).                      *)
(***************************************************************************)
EXTENDS Integers, Sequences

CONSTANTS
    Lengths,      \* lengths of lines, in units
    BufSize,      \* units the bridge's bufio.Reader takes with one read
    Torn,         \* may a line be visible in part?
    Faults,       \* what may go wrong
    MaxLines,     \* bound: alerts raised
    MaxFaults     \* bound: restarts and removals

FaultKinds == {"pipeline", "bridge", "remove", "publish"}

ASSUME BridgeAssumption ==
    /\ Lengths \subseteq Nat \ {0} /\ BufSize \in Nat \ {0}
    /\ Torn \in BOOLEAN /\ Faults \subseteq FaultKinds

VARIABLES
    files,        \* contents by inode number
    path,         \* the inode alerts.json names, 0 if there is none
    wfd,          \* the inode the pipeline has open
    rest,         \* units of the current line that are not in the file yet
    written,      \* alerts the pipeline has raised; the last one's number
    pc, rfd, off, buf,    \* the bridge: open file, its offset, the bufio buffer
    faults,       \* restarts and removals so far (the bound's counter)
    (* Observability variables. *)
    published,    \* line numbers the bridge published, 0 for a fragment
    opened,       \* alerts raised when the bridge opened the file
    intact,       \* has that file not been truncated since?
    excused       \* alerts that became visible in parts or Publish refused

pipelineVars == <<wfd, rest, written>>
bridgeVars   == <<pc, rfd, off, buf, published>>
ghosts       == <<opened, intact, excused>>
vars == <<files, path, pipelineVars, bridgeVars, faults, ghosts>>

Unit == [line : Nat, pos : Nat, len : Nat]

\* A line between two newlines that is not a whole alert.
Fragment == 0

\* The bridge may hold the file open, be asleep before it looks for a rotated
\* file, or have to open the file.
BridgePc == {"open", "read", "check"}

\* The types of the state: the offset may point beyond the end of the file.
TypeOK ==
    /\ files \in Seq(Seq(Unit))
    /\ path \in 0..Len(files) /\ wfd \in 0..Len(files) /\ rfd \in 0..Len(files)
    /\ rest \in Seq(Unit)
    /\ written \in Nat /\ faults \in Nat /\ opened \in Nat
    /\ intact \in BOOLEAN /\ excused \in SUBSET Nat
    /\ pc \in BridgePc /\ off \in Nat /\ buf \in Seq(Unit)
    /\ published \in Seq(Nat)

Init ==
    /\ files = <<>> /\ path = 0
    /\ wfd = 0 /\ rest = <<>> /\ written = 0
    /\ pc = "open" /\ rfd = 0 /\ off = 0 /\ buf = <<>> /\ published = <<>>
    /\ faults = 0 /\ opened = 0 /\ intact = TRUE /\ excused = {}

-----------------------------------------------------------------------------
(***************************************************************************)
(* The pipeline.                                                           *)
(***************************************************************************)
Line(id, len) == [p \in 1..len |-> [line |-> id, pos |-> p, len |-> len]]

AppendUnits(units) == files' = [files EXCEPT ![wfd] = @ \o units]

\* What one write makes visible of the units it is given.
Pieces(units) == IF Torn THEN 1..Len(units) ELSE {Len(units)}

WriteUnits(units) ==
    \E n \in Pieces(units) :
        /\ AppendUnits(SubSeq(units, 1, n))
        /\ rest' = SubSeq(units, n + 1, Len(units))
        /\ excused' = IF n < Len(units) THEN excused \cup {units[1].line} ELSE excused

\* FileAlertHandler::send for the next alert.
Send ==
    /\ wfd # 0 /\ rest = <<>> /\ written < MaxLines
    /\ written' = written + 1
    /\ \E len \in Lengths : WriteUnits(Line(written + 1, len))
    /\ UNCHANGED <<path, wfd, bridgeVars, faults, opened, intact>>

\* The rest of a torn line becomes visible.
SendRest ==
    /\ rest # <<>>
    /\ WriteUnits(rest)
    /\ UNCHANGED <<path, wfd, written, bridgeVars, faults, opened, intact>>

Disturb(kind) ==
    /\ kind \in Faults /\ faults < MaxFaults
    /\ faults' = faults + 1

\* FileAlertHandler's constructor: the file is created, or truncated where it
\* is.  The first start creates it; a later one follows the death of the
\* process, in the middle of a line or not.
OpenTruncating ==
    /\ \/ wfd = 0 /\ UNCHANGED faults
       \/ Disturb("pipeline")
    /\ IF path = 0
       THEN /\ files' = Append(files, <<>>) /\ path' = Len(files) + 1
            /\ UNCHANGED intact
       ELSE /\ files' = [files EXCEPT ![path] = <<>>]
            /\ intact' = (intact /\ (pc = "open" \/ rfd # path))
            /\ UNCHANGED path
    /\ wfd' = path' /\ rest' = <<>>
    /\ UNCHANGED <<written, bridgeVars, opened, excused>>

\* External: somebody moves alerts.json away.  The pipeline keeps its inode.
Remove ==
    /\ path # 0
    /\ Disturb("remove")
    /\ path' = 0
    /\ UNCHANGED <<files, pipelineVars, bridgeVars, ghosts>>

-----------------------------------------------------------------------------
(***************************************************************************)
(* The bridge: tailAndPublish around readForever.                          *)
(***************************************************************************)
SeekStart(ino) == 0

SeekLast(ino) == Len(files[ino]) - 1

SeekEnd(ino) == Len(files[ino])

\* waitForFile, seek to the end, a new bufio.Reader.
Open ==
    /\ pc = "open" /\ path # 0
    /\ rfd' = path /\ off' = SeekEnd(path) /\ buf' = <<>> /\ pc' = "read"
    /\ opened' = written /\ intact' = TRUE
    /\ UNCHANGED <<files, path, pipelineVars, published, faults, excused>>

Newlines(units) == {k \in DOMAIN units : units[k].pos = units[k].len}

AtEnd == off >= Len(files[rfd])

UpTo(n) == IF n < Len(files[rfd]) THEN n ELSE Len(files[rfd])

\* ReadBytes has no newline in its buffer: one read from the file.
Fill ==
    /\ pc = "read" /\ Newlines(buf) = {} /\ ~AtEnd
    /\ buf' = buf \o SubSeq(files[rfd], off + 1, UpTo(off + BufSize))
    /\ off' = UpTo(off + BufSize)
    /\ UNCHANGED <<files, path, pipelineVars, pc, rfd, published, faults, ghosts>>

\* ReadBytes meets the end of the file: it hands over what it has read, and
\* readForever drops it.
EndOfFile ==
    /\ pc = "read" /\ Newlines(buf) = {} /\ AtEnd
    /\ buf' = <<>> /\ pc' = "check"
    /\ UNCHANGED <<files, path, pipelineVars, rfd, off, published, faults, ghosts>>

\* A line as it was raised, from its first unit to its last.  The bridge does not
\* look; published records it of every line for the properties.
Whole(units) ==
    /\ Len(units) = units[1].len
    /\ \A k \in DOMAIN units : units[k] = [units[1] EXCEPT !.pos = k]

AfterNothing(units, k) == <<>>

\* What stays in the buffer when ReadBytes returns its first k units.
After(units, k) == SubSeq(units, k + 1, Len(units))

\* ReadBytes returns a line.  A line that does not start with '{' is skipped; a
\* fragment may start with one (details is a nested object).  Publish may fail.
Take ==
    \E k \in Newlines(buf) :
        LET line == SubSeq(buf, 1, k) IN
        /\ pc = "read" /\ \A j \in Newlines(buf) : k <= j
        /\ buf' = After(buf, k)
        /\ \/ /\ published' = Append(published, IF Whole(line) THEN line[1].line
                                                               ELSE Fragment)
              /\ UNCHANGED excused
           \/ /\ line[1].pos # 1 \/ "publish" \in Faults
              /\ excused' = excused \cup {line[k].line}
              /\ UNCHANGED published
        /\ UNCHANGED <<files, path, pipelineVars, pc, rfd, off, faults, opened, intact>>

Rotated == path # rfd

\* After half a second: the inode of the path is compared with the open one.
Check ==
    /\ pc = "check"
    /\ pc' = IF Rotated THEN "open" ELSE "read"
    /\ UNCHANGED <<files, path, pipelineVars, rfd, off, buf, published, faults, ghosts>>

\* The bridge's process dies and starts again.
BridgeRestart ==
    /\ Disturb("bridge")
    /\ pc' = "open" /\ buf' = <<>>
    /\ UNCHANGED <<files, path, pipelineVars, rfd, off, published, ghosts>>

BridgeStep == Open \/ Fill \/ EndOfFile \/ Take \/ Check

Next ==
    \/ Send \/ SendRest \/ OpenTruncating \/ Remove
    \/ BridgeStep \/ BridgeRestart

Spec == Init /\ [][Next]_vars

(***************************************************************************)
(* The bridge's loop never stops, and a started write finishes.  No alert  *)
(* has to be raised, and nothing has to be restarted.                      *)
(***************************************************************************)
FairSpec == Spec /\ WF_vars(BridgeStep) /\ WF_vars(SendRest)

-----------------------------------------------------------------------------
(***************************************************************************)
(* Properties.                                                             *)
(***************************************************************************)

(* The bridge publishes each alert at most once and in the order in which    *)
(* the pipeline raised them, although it reopens the file, the file is       *)
(* truncated under its offset and both processes restart.                    *)
PublishedInOrder ==
    \A m, n \in DOMAIN published :
        m < n /\ published[m] # Fragment /\ published[n] # Fragment =>
            published[m] < published[n]

Published(id) == \E n \in DOMAIN published : published[n] = id

Holds(units, id) == \E k \in DOMAIN units : units[k].line = id

\* The alerts appended to the file the bridge follows since it opened it.
Appended(id) == pc # "open" /\ wfd = rfd /\ id \in (opened + 1)..written

(* As long as the file the bridge follows is not truncated, every alert that *)
(* became visible whole since the bridge opened it has been published, is in *)
(* the bufio buffer, or lies in the file beyond the offset: no read, end of  *)
(* file, torn neighbour or look at the inode loses one.                      *)
NothingSkipped ==
    \A id \in 1..written : intact /\ Appended(id) /\ id \notin excused =>
        \/ Published(id)
        \/ Holds(buf, id)
        \/ Holds(SubSeq(files[rfd], off + 1, Len(files[rfd])), id)

(* main.go:56-57: the bridge re-publishes every line appended since it       *)
(* opened the file, unless the file is truncated, the bridge has to open it  *)
(* again, the line was torn or Publish refuses it.                           *)
AppendedLinesArePublished ==
    \A id \in 1..MaxLines :
        Appended(id) ~> Published(id) \/ ~Appended(id) \/ ~intact \/ id \in excused

(* main.go:57: if the file is truncated the loop reopens it.                 *)
TruncationReopens == ~intact ~> pc = "open"
=============================================================================
