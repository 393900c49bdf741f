---------------------------- MODULE CaptureFiles ----------------------------
(***************************************************************************)
(* Captured interactions: the thread that appends each event to the file   *)
(* of its key and day (shared/capture/mod.rs), and the Telegram thread     *)
(* (servers/telegram.rs), which compresses the files of a day when it sees *)
(* that the day is over.  Both work on the same directories without a      *)
(* lock, and gzip reads a file to its end, writes its output and removes   *)
(* the file in three steps.                                                *)
(*                                                                         *)
(* A file is a sequence of what was written to it: newlines, and events    *)
(* written whole or in part.  An event can be read back if it is whole and *)
(* has a line of its own.                                                  *)
(***************************************************************************)
EXTENDS Integers, Sequences, FiniteSets

CONSTANTS
  Events,      \* captured requests
  KeyOf,       \* event -> key_id
  LastDay,     \* bound on the days that pass
  None,        \* no event, no file
  Newline,
  MaxFaults,   \* bound on failing file operations
  MaxCrashes   \* bound on restarts

ASSUME CaptureAssumption ==
  /\ IsFiniteSet(Events)
  /\ LastDay \in Nat \ {0}
  /\ MaxFaults \in Nat
  /\ MaxCrashes \in Nat
  /\ None \notin Events
  /\ Newline \notin Events \X BOOLEAN
  /\ None \notin Seq({Newline} \cup (Events \X BOOLEAN))

VARIABLES
  day,       \* the local date
  stage,     \* event -> "new", "relaying", "sent", "written", "failed" or "lost"
  created,   \* event -> the day of its created_at
  channel,   \* capture_tx to capture_rx
  plain,     \* <<key, day>> -> content of interactions.jsonl, None if no file
  gz,        \* <<key, day>> -> content of interactions.jsonl.gz, None if none
  writer,    \* the writer: "idle", "body" (file opened) or "newline"
  event,     \* the event it writes
  linked,    \* the file it has opened is still in its directory
  bot,       \* the Telegram thread: "idle", "next", "read" (gzip has read to
             \* the end) or "unlink" (its output is complete)
  current,   \* its current_day
  todo,      \* files compress_capture_day has not come to
  file,      \* the file gzip works on
  copy,      \* what gzip has read
  faults,    \* failed operations so far (bounded)
  crashes,   \* restarts so far (bounded)
  overtaken  \* events written to a file that gzip had read (history)

writerVars == <<writer, event, linked>>
botVars    == <<bot, current, todo, file, copy>>
disk       == <<plain, gz>>
bounds     == <<faults, crashes>>
vars == <<day, stage, created, channel, disk, writerVars, botVars, bounds, overtaken>>

Keys  == {KeyOf[e] : e \in Events}
Days  == 1..LastDay
Files == Keys \X Days

FileOf(e)  == <<KeyOf[e], created[e]>>
Whole(e)   == <<e, TRUE>>
Part(e)    == <<e, FALSE>>
Content(c) == IF c = None THEN <<>> ELSE c

Init ==
  /\ day = 1
  /\ stage = [e \in Events |-> "new"]
  /\ created = [e \in Events |-> 1]
  /\ channel = <<>>
  /\ plain = [f \in Files |-> None]
  /\ gz = [f \in Files |-> None]
  /\ writer = "idle"
  /\ event = None
  /\ linked = TRUE
  /\ bot = "idle"
  /\ current = 1
  /\ todo = {}
  /\ file = None
  /\ copy = <<>>
  /\ faults = 0
  /\ crashes = 0
  /\ overtaken = {}

Fault == faults < MaxFaults /\ faults' = faults + 1 /\ UNCHANGED crashes

-----------------------------------------------------------------------------
(* handle_poll, for a request of a key with capture *)

\* The worker connection takes the request: created_at is set here.
Take(e) ==
  /\ stage[e] = "new"
  /\ stage' = [stage EXCEPT ![e] = "relaying"]
  /\ created' = [created EXCEPT ![e] = day]
  /\ UNCHANGED <<day, channel, disk, writerVars, botVars, bounds, overtaken>>

\* The response is relayed, perhaps on a later day; the writer never returns, so
\* the event is received.
Send(e) ==
  /\ stage[e] = "relaying"
  /\ stage' = [stage EXCEPT ![e] = "sent"]
  /\ channel' = Append(channel, e)
  /\ UNCHANGED <<day, created, disk, writerVars, botVars, bounds, overtaken>>

-----------------------------------------------------------------------------
(* run_capture_writer *)

\* A write through the opened file: it vanishes with a file gzip has removed.
Write(f, x) == plain' = IF linked THEN [plain EXCEPT ![f] = Append(@, x)] ELSE plain

\* Variants (suffix _Bug...) are wrong on purpose: each shows that a property
\* stated below can fail.  This one keeps the file open for the next event.
Settle_BugKeepsOpen(outcome) ==
  /\ writer' = "idle"
  /\ stage' = [stage EXCEPT ![event] = outcome]
  /\ event' = None
  /\ UNCHANGED linked

Settle(outcome) ==
  /\ writer' = "idle"
  /\ stage' = [stage EXCEPT ![event] = outcome]
  /\ event' = None
  /\ linked' = TRUE

\* The next event's file is opened for appending, or created.
Open ==
  /\ writer = "idle"
  /\ channel # <<>>
  /\ writer' = "body"
  /\ event' = Head(channel)
  /\ channel' = Tail(channel)
  /\ plain' = [plain EXCEPT ![FileOf(Head(channel))] = Content(@)]
  /\ UNCHANGED <<day, stage, created, gz, linked, botVars, bounds, overtaken>>

\* gzip has read the file the writer writes to, or removed it.
Overtakes == ~ linked \/ (bot \in {"read", "unlink"} /\ file = FileOf(event))

WriteBody ==
  /\ writer = "body"
  /\ writer' = "newline"
  /\ Write(FileOf(event), Whole(event))
  /\ overtaken' = IF Overtakes THEN overtaken \cup {event} ELSE overtaken
  /\ UNCHANGED <<day, stage, created, channel, gz, event, linked, botVars, bounds>>

\* The newline is forgotten.
WriteNewline_BugNone ==
  /\ writer = "newline"
  /\ Settle("written")
  /\ UNCHANGED <<day, created, channel, disk, botVars, bounds, overtaken>>

WriteNewline ==
  /\ writer = "newline"
  /\ Write(FileOf(event), Newline)
  /\ Settle("written")
  /\ UNCHANGED <<day, created, channel, gz, botVars, bounds, overtaken>>

\* A write fails, perhaps in the middle: the event is given up and logged, what
\* was written stays, and the next event follows on the same line.
WriteFails ==
  /\ writer # "idle"
  /\ Fault
  /\ \/ UNCHANGED plain
     \/ writer = "body" /\ Write(FileOf(event), Part(event))
  /\ Settle("failed")
  /\ UNCHANGED <<day, created, channel, gz, botVars, overtaken>>

-----------------------------------------------------------------------------
(* send_daily_report_if_needed and compress_capture_day *)

\* The day changes while the Telegram thread waits for updates; it looks many
\* times a day, so it does not miss one.
NextDay ==
  /\ day < LastDay
  /\ bot = "idle"
  /\ current = day
  /\ day' = day + 1
  /\ UNCHANGED <<stage, created, channel, disk, writerVars, botVars, bounds, overtaken>>

\* Compresses the day that begins.
BeginReport_BugNewDay ==
  /\ bot = "idle"
  /\ current # day
  /\ current' = day
  /\ bot' = "next"
  /\ todo' = {f \in Files : f[2] = day}
  /\ UNCHANGED <<day, stage, created, channel, disk, writerVars, file, copy, overtaken, bounds>>

\* current_day moves on first: a usage report that fails ends the attempt.
BeginReport ==
  /\ bot = "idle"
  /\ current # day
  /\ current' = day
  /\ \/ bot' = "next" /\ todo' = {f \in Files : f[2] = current} /\ UNCHANGED bounds
     \/ bot' = "idle" /\ UNCHANGED todo /\ Fault
  /\ UNCHANGED <<day, stage, created, channel, disk, writerVars, file, copy, overtaken>>

\* gzip has read the file and has created its output, in place of an older one.
Gzip(f) ==
  /\ bot = "next"
  /\ f \in todo
  /\ plain[f] # None
  /\ bot' = "read"
  /\ todo' = todo \ {f}
  /\ file' = f
  /\ copy' = plain[f]
  /\ gz' = [gz EXCEPT ![f] = <<>>]
  /\ UNCHANGED <<day, stage, created, channel, plain, writerVars, current, bounds, overtaken>>

\* There is nothing to compress in a key's directory, or the file cannot be read
\* or gzip started: the error is reported and the next key has its turn.
Skip(f) ==
  /\ bot = "next"
  /\ f \in todo
  /\ IF plain[f] = None THEN UNCHANGED bounds ELSE Fault
  /\ todo' = todo \ {f}
  /\ UNCHANGED <<day, stage, created, channel, disk, writerVars, bot, current, file,
                 copy, overtaken>>

\* gzip completes its output, or fails, removes it and keeps the file.
GzipOutput ==
  /\ bot = "read"
  /\ \/ /\ bot' = "unlink"
        /\ gz' = [gz EXCEPT ![file] = copy]
        /\ UNCHANGED <<file, copy, bounds>>
     \/ /\ bot' = "next"
        /\ gz' = [gz EXCEPT ![file] = None]
        /\ file' = None
        /\ copy' = <<>>
        /\ Fault
  /\ UNCHANGED <<day, stage, created, channel, plain, writerVars, current, todo, overtaken>>

GzipUnlink ==
  /\ bot = "unlink"
  /\ bot' = "next"
  /\ plain' = [plain EXCEPT ![file] = None]
  /\ linked' = (linked /\ ~ (writer # "idle" /\ FileOf(event) = file))
  /\ file' = None
  /\ copy' = <<>>
  /\ UNCHANGED <<day, stage, created, channel, gz, writer, event, current, todo, bounds,
                 overtaken>>

EndReport ==
  /\ bot = "next"
  /\ todo = {}
  /\ bot' = "idle"
  /\ UNCHANGED <<day, stage, created, channel, disk, writerVars, current, todo, file,
                 copy, bounds, overtaken>>

-----------------------------------------------------------------------------
\* Goes through the days again after a restart.
Restart_BugCatchesUp ==
  /\ crashes < MaxCrashes
  /\ crashes' = crashes + 1
  /\ channel' = <<>>
  /\ stage' = [e \in Events |-> IF stage[e] \in {"relaying", "sent"} THEN "lost" ELSE stage[e]]
  /\ writer' = "idle"
  /\ event' = None
  /\ linked' = TRUE
  /\ bot' = "idle"
  /\ current' = 1
  /\ todo' = {}
  /\ file' = None
  /\ copy' = <<>>
  /\ UNCHANGED <<day, created, disk, faults, overtaken>>

\* The process and gzip stop at any point, and the process starts again: what
\* the writer had begun stays, current_day is the new day, and a day whose
\* report was due or in progress is not come back to.
Restart ==
  /\ crashes < MaxCrashes
  /\ crashes' = crashes + 1
  /\ \/ UNCHANGED plain
     \/ writer = "body" /\ Write(FileOf(event), Part(event))
  /\ channel' = <<>>
  /\ stage' = [e \in Events |-> IF stage[e] \in {"relaying", "sent"} THEN "lost" ELSE stage[e]]
  /\ writer' = "idle"
  /\ event' = None
  /\ linked' = TRUE
  /\ bot' = "idle"
  /\ current' = day
  /\ todo' = {}
  /\ file' = None
  /\ copy' = <<>>
  /\ UNCHANGED <<day, created, gz, faults, overtaken>>

Writer == Open \/ WriteBody \/ WriteNewline \/ WriteFails

Bot == BeginReport \/ (\E f \in Files : Gzip(f) \/ Skip(f)) \/ GzipOutput \/ GzipUnlink
       \/ EndReport

Next ==
  \/ \E e \in Events : Take(e) \/ Send(e)
  \/ Writer \/ Bot \/ NextDay \/ Restart

Spec == Init /\ [][Next]_vars

\* The writer and the Telegram thread go on, and days pass.
FairSpec == Spec /\ WF_vars(Writer) /\ WF_vars(Bot) /\ WF_vars(NextDay)

-----------------------------------------------------------------------------
(* Properties *)

Tokens == {Newline} \cup (Events \X BOOLEAN)

\* Types; the writer holds a removed file open only while it writes an event to
\* it, and gzip's input is there until gzip itself removes it.
TypeOK ==
  /\ day \in Days
  /\ stage \in [Events -> {"new", "relaying", "sent", "written", "failed", "lost"}]
  /\ created \in [Events -> Days]
  /\ channel \in Seq(Events)
  /\ {plain, gz} \subseteq [Files -> Seq(Tokens) \cup {None}]
  /\ writer \in {"idle", "body", "newline"}
  /\ event \in Events \cup {None}
  /\ linked \in BOOLEAN
  /\ bot \in {"idle", "next", "read", "unlink"}
  /\ current \in Days
  /\ todo \subseteq Files
  /\ faults \in 0..MaxFaults
  /\ crashes \in 0..MaxCrashes
  /\ (writer = "idle") <=> (event = None)
  /\ ~ linked => writer # "idle"
  /\ bot \in {"read", "unlink"} => file \in Files /\ plain[file] # None

Holds(c, e) == \E i \in 1..Len(Content(c)) : c[i] = Whole(e)

\* The event is whole and has a line of its own.
Readable(c, e) ==
  \E i \in 1..Len(Content(c)) :
    /\ c[i] = Whole(e)
    /\ i > 1 => c[i - 1] = Newline
    /\ i < Len(c) => c[i + 1] = Newline

\* An event whose write succeeded is on disk for ever, in the file of its day or
\* compressed: no failed or interrupted compression and no second one loses it.
\* The exception is an event written while gzip works on its day's file.
Kept ==
  \A e \in Events : stage[e] = "written" =>
    \/ Holds(plain[FileOf(e)], e)
    \/ Holds(gz[FileOf(e)], e)
    \/ e \in overtaken

\* A failed or interrupted write spoils the line of at most one event whose
\* write succeeded, the one that follows it.
OneSpoiltPerFault ==
  Cardinality({e \in Events :
    /\ stage[e] = "written"
    /\ e \notin overtaken
    /\ ~ Readable(plain[FileOf(e)], e)
    /\ ~ Readable(gz[FileOf(e)], e)}) <= faults + crashes

\* A file that is there when its day ends is compressed, if nothing fails and
\* the process goes on.  (A file made by an event of that day that is written
\* later is not.)
EndedDayCompressed ==
  \A f \in Files :
    plain[f] # None /\ f[2] = current /\ f[2] < LastDay ~> gz[f] # None \/ faults + crashes > 0
=============================================================================
