------------------------------- MODULE Logger -------------------------------
(***************************************************************************)
(* The process-wide logger: Init, the level, debug and filter gates of a   *)
(* log call, the slog bridge that counts what arrived before Init, records *)
(* forced into the file, and the three ways a process ends (return, panic, *)
(* signal), which race for one Close.  LogWriter has the writers' insides. *)
(***************************************************************************)
EXTENDS Integers, Sequences, FiniteSets, SequencesExt

CONSTANTS
    LgInputs,     \* InitInput: level (5: unset, 6: not a level), debug, filter, sidecar
    LgMessages,   \* <<level, categories>>
    DefaultLevel, \* LevelDebug
    MaxRecords,   \* log calls
    MaxSlog       \* slog records

(* Levels 0 (verbose) to 4 (error), 5 when none is given, 6 for any other. *)
ASSUME LoggerAssumption ==
    DefaultLevel \in 0..4 /\ \A in \in LgInputs : in.level \in 0..6

VARIABLES
    lgInput,       \* the input of Init
    immediate,     \* debugging was on when Init built the writers
    initDone,
    runtimeDebug,  \* EnableDebugLogging has been called
    textBuf, text, sideBuf, side,
    main,          \* what the main goroutine does
    handler,       \* slog records past current.Load() = nil, not yet counted
    droppedBeforeInit, warnDroppedOnce,
    closing,       \* closeOnce: "no", "main", "side", "done"
    signal,        \* the signal goroutine: "idle", "close", "raise"
    dead,          \* how the process ended, or "no"
    owed,          \* the main goroutine panicked while debugging was on, no filter set
    calls, slogCalls

lgVars == <<lgInput, immediate, owed, initDone, runtimeDebug, textBuf, text, sideBuf, side, main, handler,
            droppedBeforeInit, warnDroppedOnce, closing, signal, dead, calls, slogCalls>>

LgInit ==
    /\ lgInput = [level |-> 5, debug |-> FALSE, filter |-> <<>>, sidecar |-> FALSE]
    /\ immediate = FALSE /\ owed = FALSE /\ initDone = FALSE /\ runtimeDebug = FALSE
    /\ textBuf = <<>> /\ text = <<>> /\ sideBuf = <<>> /\ side = <<>>
    /\ main = "run" /\ handler = 0 /\ droppedBeforeInit = 0 /\ warnDroppedOnce = FALSE
    /\ closing = "no" /\ signal = "idle" /\ dead = "no" /\ calls = 0 /\ slogCalls = 0

Alive == dead = "no"
minLevel == IF lgInput.level = 5 THEN DefaultLevel ELSE lgInput.level

(* A pattern is a sequence of <<excluded, category>>; mixed ones filter nothing. *)
parseDebugFilter(pattern) ==
    LET neg == {p[1] : p \in ToSet(pattern)}
    IN  [off |-> Cardinality(neg) # 1, exclusive |-> neg = {TRUE}, cats |-> {p[2] : p \in ToSet(pattern)}]

shouldShowDebugCategories(cats, pattern) ==
    LET f == parseDebugFilter(pattern)
    IN  \/ f.off
        \/ cats # {} /\ IF f.exclusive THEN cats \cap f.cats = {} ELSE cats \cap f.cats # {}

IsDebugMode == runtimeDebug \/ lgInput.debug

(* An unknown level name stops the start of the program. *)
InitLogger ==
    /\ Alive /\ main = "run" /\ ~initDone
    /\ \E in \in LgInputs :
         IF in.level = 6 THEN main' = "close" /\ UNCHANGED <<lgInput, immediate, initDone>>
         ELSE /\ lgInput' = in /\ immediate' = (runtimeDebug \/ in.debug)
              /\ initDone' = TRUE /\ UNCHANGED main
    /\ UNCHANGED <<owed, runtimeDebug, textBuf, text, sideBuf, side, handler, droppedBeforeInit,
                   warnDroppedOnce, closing, signal, dead, calls, slogCalls>>

EnableDebugLogging ==
    /\ Alive /\ ~runtimeDebug /\ runtimeDebug' = TRUE
    /\ UNCHANGED <<lgInput, immediate, owed, initDone, textBuf, text, sideBuf, side, main, handler,
                   droppedBeforeInit, warnDroppedOnce, closing, signal, dead, calls, slogCalls>>

(* The text line goes to the file at once when Init saw debugging on, into *)
(* the buffer otherwise (debugging came later), nowhere once disposed.     *)
writeText(rec) ==
    IF closing # "no" THEN UNCHANGED <<textBuf, text>>
    ELSE IF immediate THEN text' = Append(text, rec) /\ UNCHANGED textBuf
    ELSE textBuf' = Append(textBuf, rec) /\ UNCHANGED text

passes(m) ==
    initDone /\ m[1] >= minLevel /\ IsDebugMode /\ shouldShowDebugCategories(m[2], lgInput.filter)

(* Between the two writers' lines. *)
sideOf(after) == IF after = "run" THEN "run_side" ELSE "panic_side"

log(m, kind, after) ==
    /\ Alive /\ calls' = calls + 1
    /\ IF passes(m)
       THEN writeText([kind |-> kind, dropped |-> 0]) /\ main' = sideOf(after)
       ELSE UNCHANGED <<textBuf, text>> /\ main' = after
    /\ UNCHANGED <<lgInput, immediate, initDone, runtimeDebug, sideBuf, side, handler, droppedBeforeInit,
                   warnDroppedOnce, closing, signal, dead, slogCalls>>

LogCall ==
    /\ main = "run" /\ calls < MaxRecords /\ \E m \in LgMessages : log(m, "log", "run")
    /\ UNCHANGED owed

(* GuardPanic: a process.panic error, Close, panic again. *)
Panic ==
    /\ main = "run" /\ log(<<4, {}>>, "panic", "panic")
    /\ owed' = (initDone /\ IsDebugMode /\ lgInput.filter = <<>>)

LogSidecar ==
    /\ Alive /\ main \in {"run_side", "panic_side"}
    /\ main' = IF main = "run_side" THEN "run" ELSE "panic"
    /\ sideBuf' = IF lgInput.sidecar /\ closing \in {"no", "main"}
                  THEN Append(sideBuf, [kind |-> "log", dropped |-> 0]) ELSE sideBuf
    /\ UNCHANGED <<lgInput, immediate, owed, initDone, runtimeDebug, textBuf, text, side, handler,
                   droppedBeforeInit, warnDroppedOnce, closing, signal, dead, calls, slogCalls>>

(* The writers' timers and drains (LogWriter). *)
BackgroundFlush ==
    /\ Alive /\ (textBuf # <<>> \/ sideBuf # <<>>)
    /\ text' = text \o textBuf /\ textBuf' = <<>>
    /\ side' = side \o sideBuf /\ sideBuf' = <<>>
    /\ UNCHANGED <<lgInput, immediate, owed, initDone, runtimeDebug, main, handler, droppedBeforeInit,
                   warnDroppedOnce, closing, signal, dead, calls, slogCalls>>

SlogLoadNil ==
    /\ Alive /\ ~initDone /\ slogCalls < MaxSlog
    /\ slogCalls' = slogCalls + 1 /\ handler' = handler + 1
    /\ UNCHANGED <<lgInput, immediate, owed, initDone, runtimeDebug, textBuf, text, sideBuf, side, main,
                   droppedBeforeInit, warnDroppedOnce, closing, signal, dead, calls>>

SlogDrop ==
    /\ Alive /\ handler > 0
    /\ handler' = handler - 1 /\ droppedBeforeInit' = droppedBeforeInit + 1
    /\ UNCHANGED <<lgInput, immediate, owed, initDone, runtimeDebug, textBuf, text, sideBuf, side, main,
                   warnDroppedOnce, closing, signal, dead, calls, slogCalls>>

warnIfStartupDropped == droppedBeforeInit > 0 /\ ~warnDroppedOnce

(* fileOnly writes past the writers: straight to the file, debug or not,   *)
(* even after Close; the drop notice comes first, once.                    *)
SlogHandle ==
    /\ Alive /\ initDone /\ slogCalls < MaxSlog
    /\ slogCalls' = slogCalls + 1
    /\ text' = text \o (IF warnIfStartupDropped
                        THEN <<[kind |-> "notice", dropped |-> droppedBeforeInit]>> ELSE <<>>)
                    \o <<[kind |-> "slog", dropped |-> droppedBeforeInit]>>
    /\ warnDroppedOnce' = (warnDroppedOnce \/ warnIfStartupDropped)
    /\ UNCHANGED <<lgInput, immediate, owed, initDone, runtimeDebug, textBuf, sideBuf, side, main, handler,
                   droppedBeforeInit, closing, signal, dead, calls>>

SignalArrives ==
    /\ Alive /\ initDone /\ signal = "idle" /\ signal' = "close"
    /\ UNCHANGED <<lgInput, immediate, owed, initDone, runtimeDebug, textBuf, text, sideBuf, side, main, handler,
                   droppedBeforeInit, warnDroppedOnce, closing, dead, calls, slogCalls>>

MainReturns ==
    /\ Alive /\ main = "run" /\ main' = "close"
    /\ UNCHANGED <<lgInput, immediate, owed, initDone, runtimeDebug, textBuf, text, sideBuf, side, handler,
                   droppedBeforeInit, warnDroppedOnce, closing, signal, dead, calls, slogCalls>>

WantsClose == initDone /\ (main \in {"close", "panic"} \/ signal = "close")

(* closeOnce: the first caller disposes of both writers, one after the other. *)
CloseMainWriter ==
    /\ Alive /\ WantsClose /\ closing = "no" /\ closing' = "main"
    /\ text' = text \o textBuf /\ textBuf' = <<>>
    /\ UNCHANGED <<lgInput, immediate, owed, initDone, runtimeDebug, sideBuf, side, main, handler,
                   droppedBeforeInit, warnDroppedOnce, signal, dead, calls, slogCalls>>

CloseSidecarWriter ==
    /\ Alive /\ closing = "main" /\ closing' = "done"
    /\ side' = side \o sideBuf /\ sideBuf' = <<>>
    /\ UNCHANGED <<lgInput, immediate, owed, initDone, runtimeDebug, textBuf, text, main, handler,
                   droppedBeforeInit, warnDroppedOnce, signal, dead, calls, slogCalls>>

CloseReturns_Flag == ~initDone \/ closing # "no"

(* Close before Init is an error; a second caller waits for the first. *)
CloseReturns == ~initDone \/ closing = "done"

Exit ==
    /\ Alive /\ CloseReturns
    /\ \/ main = "close" /\ dead' = "return"
       \/ main = "panic" /\ dead' = "panic"
       \/ signal = "close" /\ dead' = "signal"
    /\ UNCHANGED <<lgInput, immediate, owed, initDone, runtimeDebug, textBuf, text, sideBuf, side, main, handler,
                   droppedBeforeInit, warnDroppedOnce, closing, signal, calls, slogCalls>>

LgDone == dead # "no" /\ UNCHANGED lgVars

LgNext ==
    \/ InitLogger \/ EnableDebugLogging \/ LogCall \/ LogSidecar \/ Panic \/ BackgroundFlush
    \/ SlogLoadNil \/ SlogDrop \/ SlogHandle
    \/ SignalArrives \/ MainReturns \/ CloseMainWriter \/ CloseSidecarWriter \/ Exit
    \/ LgDone

LgSpec == LgInit /\ [][LgNext]_lgVars
-----------------------------------------------------------------------------
(* Whichever of return, panic and signal ends the process, and however     *)
(* they overlap, no accepted record is left in a buffer.                   *)
ExitFlushed == dead # "no" => textBuf = <<>> /\ sideBuf = <<>>

(* A panic that strikes while debugging is on, since Init or switched on   *)
(* later, and no filter is set, is on disk when it is raised again, unless *)
(* a signal closed the logger first.                                       *)
PanicRecorded ==
    dead = "panic" /\ owed /\ signal = "idle" => \E i \in DOMAIN text : text[i].kind = "panic"

Notices == {i \in DOMAIN text : text[i].kind = "notice"}

(* Records slog discarded before Init are announced once, with a count     *)
(* that is not zero, before the first record that can tell they existed.   *)
DropsAnnounced ==
    /\ Cardinality(Notices) <= 1
    /\ \A i \in Notices : text[i].dropped > 0
    /\ \A i \in DOMAIN text : text[i].kind = "slog" /\ text[i].dropped > 0
         => \E j \in Notices : j < i

(* What the logger accepted is on disk when the process ends, a panic is   *)
(* among it, and what it could not accept is announced.                    *)
LogComplete == ExitFlushed /\ PanicRecorded /\ DropsAnnounced
=============================================================================
