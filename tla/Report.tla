------------------------------- MODULE Report -------------------------------
(***************************************************************************)
(* /report: the snapshot a run seals (snapshotBuilder), the report         *)
(* generated from the last completed one, and WriteReport in a worker,     *)
(* where every step on the disk may fail and the process may die.          *)
(***************************************************************************)
EXTENDS Integers, Sequences, FiniteSets, SequencesExt, FiniteSetsExt

CONSTANTS
    CallIds,          \* ids the model gives to its tool calls
    MaxResultLines,   \* maxResultLines (40 in the code)
    MaxResultBytes,   \* maxResultBytes (4096 in the code)
    MaxReportSteps,   \* BOUND: events of all runs
    MaxReports        \* BOUND: reports written

ASSUME ReportAssumption == MaxResultLines \in Nat \ {0} /\ MaxResultBytes \in Nat \ {0}

VARIABLES
    builder,      \* the snapshotBuilder of the current run, or NoRun
    lastSnapshot, \* Model.lastSnapshot, or NoRun
    writers,      \* the WriteReport calls: what each writes, and how far it is
    disk,         \* final file name (a second) -> the report in it, and whose it is
    temps,        \* writers whose temp file exists
    notes,        \* what the user was told
    second,       \* the clock, in the resolution of the file name
    runNo, steps, rpDead

rpVars == <<builder, lastSnapshot, writers, disk, temps, notes, second, runNo, steps, rpDead>>

NoRun == [run |-> 0]
Finishes == {"stop", "cancelled", "error"}
(* Results by the bytes of their lines: too many, too long together, alone. *)
Results == {<<1, 1, 1>>, <<2, 1>>, <<4>>}
Seconds == 1..2
-----------------------------------------------------------------------------
(* summarize: whole lines within both bounds, or the head of a first line   *)
(* that is too long alone.                                                  *)
Joined(lines) ==
    LET bytes[n \in 0..Len(lines)] == IF n = 0 THEN 0 ELSE bytes[n-1] + lines[n]
    IN  bytes[Len(lines)] + (IF lines = <<>> THEN 0 ELSE Len(lines) - 1)

lineFitInBytes(lines, max) ==
    Max({n \in 0..Len(lines) : Joined(SubSeq(lines, 1, n)) <= max})

summarize(lines) ==
    LET kept == SubSeq(lines, 1, Min({MaxResultLines, Len(lines)}))
        n == lineFitInBytes(kept, MaxResultBytes)
    IN  IF lines = <<>> THEN [shown |-> <<>>, dropped |-> 0]
        ELSE IF n = 0 THEN [shown |-> <<Min({lines[1], MaxResultBytes})>>, dropped |-> 0]
        ELSE [shown |-> SubSeq(kept, 1, n), dropped |-> Len(lines) - n]

finishLabel(snap) == IF snap.finish = "stop" THEN "complete" ELSE "failed"

(* The report: header, question, process and conclusion of one snapshot. *)
Generate(snap, now) ==
    [run |-> snap.run, at |-> now, label |-> finishLabel(snap), whole |-> TRUE,
     process |-> [i \in DOMAIN snap.timeline |-> summarize(snap.timeline[i].result)],
     conclusion |-> IF snap.answer THEN "answer" ELSE finishLabel(snap)]
-----------------------------------------------------------------------------
(* The builder.  A call has its place in the timeline, and an entry names   *)
(* the call whose result it shows: the code sees only ids.  open are the    *)
(* calls without a result, and taken those of them whose id a later call    *)
(* got meanwhile.                                                           *)
newSnapshotBuilder(n) ==
    [run |-> n, answer |-> FALSE, timeline |-> <<>>, idIndex |-> [i \in CallIds |-> 0],
     open |-> {}, taken |-> {}]

addToolCall(b, id) ==
    LET place == Len(b.timeline) + 1
    IN  [b EXCEPT !.timeline = Append(@, [id |-> id, answered |-> 0, result |-> <<>>]),
                  !.idIndex[id] = place, !.open = @ \cup {place},
                  !.taken = @ \cup {i \in b.open : b.timeline[i].id = id}]

addToolResult(b, id, call, res) ==
    LET at == b.idIndex[id]
        rest == [b EXCEPT !.open = @ \ {call}]
    IN  IF at = 0 THEN rest
        ELSE [rest EXCEPT !.timeline[at] = [id |-> id, answered |-> call, result |-> res]]

seal(b, f) ==
    [run |-> b.run, answer |-> b.answer, timeline |-> b.timeline, finish |-> f,
     open |-> b.open, taken |-> b.taken]
-----------------------------------------------------------------------------
RpInit ==
    /\ builder = NoRun /\ lastSnapshot = NoRun /\ writers = <<>> /\ disk = <<>>
    /\ temps = {} /\ notes = <<>> /\ second = 1 /\ runNo = 0 /\ steps = 0 /\ rpDead = FALSE

Running == builder # NoRun
Count == ~rpDead /\ steps < MaxReportSteps /\ steps' = steps + 1
Disk == <<writers, disk, temps, notes, second, rpDead>>

RpSubmit ==
    /\ Count /\ ~Running
    /\ runNo' = runNo + 1 /\ builder' = newSnapshotBuilder(runNo + 1)
    /\ UNCHANGED <<lastSnapshot, Disk>>

RpText == Count /\ Running /\ builder' = [builder EXCEPT !.answer = TRUE]
          /\ UNCHANGED <<lastSnapshot, runNo, Disk>>

(* Nothing keeps a model from giving one id to two calls. *)
RpToolCall(id) ==
    /\ Count /\ Running
    /\ builder' = addToolCall(builder, id)
    /\ UNCHANGED <<lastSnapshot, runNo, Disk>>

RpToolResult(i, res) ==
    /\ Count /\ Running /\ i \in builder.open
    /\ builder' = addToolResult(builder, builder.timeline[i].id, i, res)
    /\ UNCHANGED <<lastSnapshot, runNo, Disk>>

(* A cancelled run does not replace the snapshot of a completed one. *)
RpFinish(f) ==
    /\ Count /\ Running
    /\ lastSnapshot' = IF f = "cancelled" THEN lastSnapshot ELSE seal(builder, f)
    /\ builder' = NoRun
    /\ UNCHANGED <<runNo, Disk>>

(* /report: a note while a run streams or before the first one; otherwise   *)
(* the report is shown and a worker starts to write it.                     *)
dispatchReport ==
    /\ ~rpDead /\ Len(notes) + Len(writers) < 2 * MaxReports /\ Len(writers) < MaxReports
    /\ IF Running \/ lastSnapshot = NoRun
       THEN /\ notes = <<>> /\ notes' = <<[kind |-> IF Running THEN "busy" ELSE "none"]>>
            /\ UNCHANGED writers
       ELSE /\ writers' = Append(writers, [md |-> Generate(lastSnapshot, second), pc |-> "mkdir"])
            /\ UNCHANGED notes
    /\ UNCHANGED <<builder, lastSnapshot, disk, temps, second, runNo, steps, rpDead>>

(* WriteReport: a step that fails ends the call, and removes the temp file *)
(* if the disk lets it: nobody looks at what the removal returns.          *)
Go(w, pc) == writers' = [writers EXCEPT ![w].pc = pc]
Rest == <<builder, lastSnapshot, second, runNo, steps, rpDead>>

WriteFails(w) ==
    /\ ~rpDead /\ writers[w].pc \in {"mkdir", "temp", "write", "close", "rename"}
    /\ Go(w, "failed") /\ temps' \in {temps, temps \ {w}} /\ UNCHANGED <<Rest, disk, notes>>

CreateTemp(w) ==
    /\ ~rpDead
    /\ \/ writers[w].pc = "mkdir" /\ Go(w, "temp") /\ UNCHANGED temps
       \/ writers[w].pc = "temp" /\ Go(w, "write") /\ temps' = temps \cup {w}
    /\ UNCHANGED <<Rest, disk, notes>>

WriteTemp(w) ==
    /\ ~rpDead
    /\ \/ writers[w].pc = "write" /\ Go(w, "close")
       \/ writers[w].pc = "close" /\ Go(w, "rename")
    /\ UNCHANGED <<Rest, disk, temps, notes>>

publish(w, md) ==
    disk' = [s \in DOMAIN disk \cup {md.at} |-> IF s = md.at THEN [by |-> w, md |-> md] ELSE disk[s]]

Rename_InPlace(w) ==
    /\ ~rpDead /\ writers[w].pc \in {"write", "rename"}
    /\ publish(w, [writers[w].md EXCEPT !.whole = writers[w].pc = "rename"])
    /\ temps' = temps \ {w} /\ Go(w, IF writers[w].pc = "write" THEN "close" ELSE "written")
    /\ UNCHANGED <<Rest, notes>>

(* The finished file gets its name, a second of the clock, in one step. *)
Rename(w) ==
    /\ ~rpDead /\ writers[w].pc = "rename"
    /\ publish(w, writers[w].md)
    /\ temps' = temps \ {w} /\ Go(w, "written") /\ UNCHANGED <<Rest, notes>>

(* handleReportWritten and handleReportWriteFailed. *)
WriteMsg(w) ==
    /\ ~rpDead /\ writers[w].pc \in {"written", "failed"}
    /\ notes' = Append(notes, [kind |-> writers[w].pc, w |-> w])
    /\ Go(w, "told") /\ UNCHANGED <<Rest, disk, temps>>

Tick == ~rpDead /\ second + 1 \in Seconds /\ second' = second + 1
        /\ UNCHANGED <<builder, lastSnapshot, writers, disk, temps, notes, runNo, steps, rpDead>>

(* The process dies: only the disk is left, and what the user has read. *)
Die == ~rpDead /\ writers # <<>> /\ rpDead' = TRUE
       /\ builder' = NoRun /\ lastSnapshot' = NoRun
       /\ UNCHANGED <<writers, disk, temps, notes, second, runNo, steps>>

RpDone == (rpDead \/ steps = MaxReportSteps) /\ UNCHANGED rpVars

RpNext ==
    \/ RpSubmit \/ RpText \/ dispatchReport \/ Tick \/ Die \/ RpDone
    \/ \E id \in CallIds : RpToolCall(id)
    \/ \E i \in 1..MaxReportSteps, r \in Results : Running /\ RpToolResult(i, r)
    \/ \E f \in Finishes : RpFinish(f)
    \/ \E w \in DOMAIN writers :
          WriteFails(w) \/ CreateTemp(w) \/ WriteTemp(w) \/ Rename(w) \/ WriteMsg(w)

RpSpec == RpInit /\ [][RpNext]_rpVars
-----------------------------------------------------------------------------
(* An entry of a report shows the answer to its own call, or nothing while *)
(* there is none, in whatever order results come and whichever answered    *)
(* call had its id before.  Only when an id was given to a second call     *)
(* while the first was open does the first stay empty, and the second may  *)
(* show the first one's answer: no other entry ever does.                  *)
ResultsJoinTheirCalls ==
    \A s \in {builder, lastSnapshot} : s # NoRun =>
        \A i \in DOMAIN s.timeline :
            LET shown == s.timeline[i].answered
            IN  \/ shown = i
                \/ shown = 0 /\ i \in s.open \cup s.taken
                \/ shown \in s.taken /\ shown < i /\ s.timeline[shown].id = s.timeline[i].id

(* The process section is bounded: no result takes more lines or bytes     *)
(* than the limits.                                                        *)
SummariesBounded ==
    \A w \in DOMAIN writers : \A i \in DOMAIN writers[w].md.process :
        LET p == writers[w].md.process[i]
        IN  Len(p.shown) <= MaxResultLines /\ Joined(p.shown) <= MaxResultBytes

(* A report under its final name is whole and is the report of the second  *)
(* in its name, whatever fails or dies while it is written, and while      *)
(* another report of the same second is written.                           *)
NoPartialReport ==
    \A s \in DOMAIN disk : disk[s].md.whole /\ disk[s].md.at = s

Told(w, kind) == \E n \in DOMAIN notes : notes[n] = [kind |-> kind, w |-> w]

(* What the user is told is so: a path is named only when a report stands  *)
(* there and nothing of the writing is left behind, and a report whose     *)
(* writing is said to have failed is on the disk under no name, nor did it *)
(* replace another.                                                        *)
NotesAreTrue ==
    \A w \in DOMAIN writers :
        /\ Told(w, "written") => writers[w].md.at \in DOMAIN disk /\ w \notin temps
        /\ Told(w, "failed") => \A s \in DOMAIN disk : disk[s].by # w

(* A report on disk is whole, shows each call with its own bounded answer, *)
(* and the user is told what really happened to it.                        *)
ReportSound == ResultsJoinTheirCalls /\ SummariesBounded /\ NoPartialReport /\ NotesAreTrue
=============================================================================
