------------------------------ MODULE Startup -------------------------------
(***************************************************************************)
(* From the command line to the interactive session and back to the exit   *)
(* code: main, the root command's PersistentPreRunE and RunE,              *)
(* LaunchInteractiveTUI and newChatModel, over the configuration of        *)
(* module Config.                                                          *)
(***************************************************************************)
EXTENDS Config

CONSTANTS
    StCommands,   \* command lines: [cmd, version, prompt, choices, file]
    StMachines    \* [tty, logger, screen, provider]: what the machine lets succeed

\* The file is what `validate` is given: a layer's content.
ASSUME StartupAssumption ==
    "Model" \in Fields /\ \A c \in StCommands : IsLayer(c.file)

VARIABLES
    stPc, command, machine,
    loggerUp,    \* logger.IsInitialised()
    session,     \* the chat model newChatModel built
    exitCode

stVars == <<world, options, loaded, stPc, command, machine, loggerUp, session, exitCode>>

NoSession == [provider |-> "none", model |-> "none", skills |-> FALSE, chrome |-> FALSE]
Reads(c) == c.cmd \in {"validate", "dump-defaults", "dump-schema", "dump-env-map"}

shouldSkipConfigLoad(c) ==
    c.cmd = "version" \/ (c.cmd = "root" /\ c.version # "no") \/ Reads(c)

StInit ==
    /\ CfInit
    /\ stPc = "main" /\ command = [cmd |-> "none"] /\ machine = [tty |-> FALSE]
    /\ loggerUp = FALSE /\ session = NoSession /\ exitCode = -1

StExit(code) == stPc' = "exited" /\ exitCode' = code

(* An invalid choice flag fails every command, before anything is loaded. *)
validateChoiceFlags ==
    /\ stPc = "main"
    /\ command' \in StCommands /\ machine' \in StMachines
    /\ \/ command'.choices = "bad" /\ StExit(1)
       \/ command'.choices = "ok" /\ UNCHANGED exitCode
          /\ stPc' = IF shouldSkipConfigLoad(command') THEN "run" ELSE "load"
    /\ UNCHANGED <<world, options, loaded, loggerUp, session>>

(* LoadConfigFromCLI with the working directory and every flag that was    *)
(* set, then the logger; either failing ends the command.                  *)
PersistentPreRunE ==
    /\ stPc = "load"
    /\ Load
    /\ loggerUp' = (loaded'.state = "ok" /\ machine.logger)
    /\ IF loggerUp' THEN stPc' = "run" /\ UNCHANGED exitCode ELSE StExit(1)
    /\ UNCHANGED <<command, machine, session>>

Interactive == command.cmd \in {"root", "interact"}

ValidateFile_ParseOnly(content) ==
    content # Absent /\ applyLayer(Default, content, "file").state = "ok"

(* One file over the defaults; it must exist.                              *)
ValidateFile(content) ==
    /\ content # Absent
    /\ LET c == applyLayer(Default, content, "file")
       IN  c.state = "ok" /\ Validate(c) = {}

(* Version output, the read-only admin verbs, of which only `validate` can *)
(* fail, the stubs of commands that are not implemented (they print a line *)
(* and succeed), and the sources verb, which has a loaded configuration.   *)
RunOther ==
    /\ stPc = "run"
    /\ ~Interactive \/ (command.cmd = "root" /\ command.version # "no")
    /\ StExit(IF command.cmd = "validate" /\ ~ValidateFile(command.file) THEN 1 ELSE 0)
    /\ UNCHANGED <<world, options, loaded, command, machine, loggerUp, session>>

(* A prompt argument, no terminal, or no screen. *)
RunInteractRefused ==
    /\ stPc = "run" /\ Interactive
    /\ command.cmd = "root" => command.version = "no"
    /\ command.prompt \/ ~machine.tty \/ ~loggerUp \/ ~machine.screen
    /\ StExit(1)
    /\ UNCHANGED <<world, options, loaded, command, machine, loggerUp, session>>

NoOptions == [cwd |-> FALSE, settings |-> Absent, sources |-> {}, overrides |-> Absent]
reload(w) == LoadWith(w, NoOptions)

(* A second Load, with no options; when it or the factory fails the model  *)
(* is built over a provider whose Start fails, without skills or chrome.   *)
newChatModel(cfg) ==
    IF cfg.state = "error" THEN [NoSession EXCEPT !.provider = "unavailable"]
    ELSE [provider |-> IF machine.provider THEN "real" ELSE "factory-error",
          model |-> cfg.val["Model"], skills |-> machine.provider, chrome |-> machine.provider]

LaunchInteractiveTUI ==
    /\ stPc = "run" /\ Interactive
    /\ command.cmd = "root" => command.version = "no"
    /\ ~command.prompt /\ machine.tty /\ loggerUp /\ machine.screen
    /\ session' = newChatModel(reload(world))
    /\ stPc' = "session"
    /\ UNCHANGED <<world, options, loaded, command, machine, loggerUp, exitCode>>

(* A quit ends Run with the internal Canceled, which is not an error; a    *)
(* driver that cannot start is one.  The context of the command is never   *)
(* cancelled from outside.                                                 *)
SessionEnds ==
    /\ stPc = "session"
    /\ \E end \in {"canceled", "driver"} : StExit(IF end = "canceled" THEN 0 ELSE 1)
    /\ UNCHANGED <<world, options, loaded, command, machine, loggerUp, session>>

StDone == stPc = "exited" /\ UNCHANGED stVars

StNext ==
    \/ validateChoiceFlags \/ PersistentPreRunE \/ RunOther \/ RunInteractRefused
    \/ LaunchInteractiveTUI \/ SessionEnds \/ StDone
StSpec == StInit /\ [][StNext]_stVars
-----------------------------------------------------------------------------
OnlyUser(content) ==
    [l \in {"policy", "user", "project", "local", "env"} |->
        IF l = "user" THEN content ELSE Absent]

(* A broken configuration cannot keep the user from asking for the version *)
(* or dumping what there is to configure; and `validate` accepts exactly   *)
(* the files that a session could start from if it had nothing else.       *)
DiagnosticsSurviveConfig ==
    stPc = "exited" /\ command.choices = "ok" =>
        /\ \/ command.cmd \in {"version", "dump-defaults", "dump-schema", "dump-env-map"}
           \/ command.cmd = "root" /\ command.version # "no"
           => exitCode = 0
        /\ command.cmd = "validate" =>
              (exitCode = 0 <=>
                 command.file # Absent /\ reload(OnlyUser(command.file)).state = "ok")

SameLayers ==
    \A i \in DOMAIN Rank : layerOf(world, options, Rank[i]) = layerOf(world, NoOptions, Rank[i])

(* A session loads the configuration again, without the options of the     *)
(* command line.  It runs without one only when it reads a layer that the  *)
(* first load left out or replaced; otherwise it has the model that the    *)
(* strongest of policy, user and environment names, which is the model the *)
(* first load arrived at whenever both read the same layers.               *)
SessionFollowsConfig ==
    session.provider # "none" =>
        /\ session.provider = "unavailable" => ~SameLayers
        /\ session.provider # "unavailable" =>
              /\ \A i \in DOMAIN Rank : layerOf(world, NoOptions, Rank[i]) # Malformed
              /\ session.model = Setting(world, NoOptions, "Model")
              /\ SameLayers => session.model = loaded.val["Model"]

(* Whatever fails at the start fails alone: diagnostics run without a      *)
(* configuration, a file is judged as a session would judge it, and a      *)
(* session has the configuration it claims or none.                        *)
StartupSound == DiagnosticsSurviveConfig /\ SessionFollowsConfig
=============================================================================
