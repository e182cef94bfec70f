------------------------------- MODULE Config -------------------------------
(***************************************************************************)
(* config.Load: the override chain from the defaults to the command line,  *)
(* the provenance of every field, and validation.  A layer is what a file, *)
(* the environment or the flags set: values for some of the fields, or not *)
(* readable.                                                               *)
(***************************************************************************)
EXTENDS Integers, Sequences, FiniteSets, SequencesExt

CONSTANTS
    CfDefault,   \* Default(): a value for every field
    CfSection,   \* the section of every field
    CfWorlds,    \* what the files and the environment hold: [policy, user, ...]
    CfOptions,   \* LoadOptions: cwd, settings, sources, overrides
    Alnum,       \* characters envKey keeps
    MaxPort

VARIABLES world, options, loaded

Fields == DOMAIN CfDefault
Sections == {CfSection[f] : f \in Fields}
Chain == <<"policy", "user", "project", "local", "env", "flag-settings", "cli">>
Absent == [kind |-> "absent"]
Malformed == [kind |-> "malformed"]
Sets(fields) == [kind |-> "sets", fields |-> fields]
NotLoaded == [state |-> "none"]

IsLayer(content) == content \in {Absent, Malformed} \/ content.kind = "sets"

\* The defaults are 30 seconds and 10 minutes.
ASSUME ConfigAssumption ==
    /\ \A f \in {"ToolTimeout", "TotalTimeout"} : f \in Fields /\ CfDefault[f] \in Nat \ {0}
    /\ "Connections" \in Fields
    /\ \A w \in CfWorlds, l \in {"policy", "user", "project", "local", "env"} : IsLayer(w[l])
    /\ \A o \in CfOptions : IsLayer(o.settings) /\ IsLayer(o.overrides)

Failed(why) == [state |-> "error", why |-> why, errs |-> {}]

(* Policy, environment and flags always count; the others when chosen, and *)
(* project and local only under a working directory.                       *)
reads(o, layer) ==
    CASE layer \in {"user", "project", "local"} ->
           /\ o.sources = {} \/ layer \in o.sources
           /\ layer = "user" \/ o.cwd
      [] OTHER -> TRUE

layerOf(w, o, layer) ==
    CASE layer = "flag-settings" -> o.settings
      [] layer = "cli" -> o.overrides
      [] ~reads(o, layer) -> Absent
      [] OTHER -> w[layer]

(* Fields a layer does not mention keep their value and their source. *)
mergeBytes(c, content, layer) ==
    LET touched == {CfSection[f] : f \in DOMAIN content.fields}
    IN  [c EXCEPT !.val = [f \in Fields |-> IF f \in DOMAIN content.fields THEN content.fields[f] ELSE @[f]],
                  !.src = [f \in Fields |-> IF f \in DOMAIN content.fields THEN layer ELSE @[f]],
                  !.sec = [s \in Sections |-> IF s \in touched THEN layer ELSE @[s]]]

(* A missing file is skipped, except the one --settings names. *)
applyLayer(c, content, layer) ==
    IF c.state = "error" THEN c
    ELSE IF content = Malformed THEN Failed(layer)
    ELSE IF content = Absent THEN c
    ELSE mergeBytes(c, content, layer)

Default == [state |-> "ok", val |-> CfDefault, src |-> [f \in Fields |-> "default"],
            sec |-> [s \in Sections |-> "default"], errs |-> {}]

envKey(alias) == [i \in DOMAIN alias |-> IF alias[i] \in Alnum THEN alias[i] ELSE "_"]

(* Either a DSN or host, database and user; a port in range; no two        *)
(* aliases, and no two password variables, the same.                       *)
validateConnections(conns) ==
    LET bad(i) == conns[i].dsn = (conns[i].given # {})
        parts == {"host", "database", "user"}
    IN  {<<"dsn-xor-fields", i>> : i \in {i \in DOMAIN conns : bad(i)}}
        \cup {<<"required-in-fields-mode", i>> :
                 i \in {i \in DOMAIN conns : ~bad(i) /\ ~conns[i].dsn /\ conns[i].given # parts}}
        \cup {<<"range", i>> : i \in {i \in DOMAIN conns : conns[i].port # 0 /\ conns[i].port \notin 1..MaxPort}}
        \cup {<<"unique", i>> : i \in {i \in DOMAIN conns : \E j \in 1..i-1 : conns[j].alias = conns[i].alias}}
        \cup {<<"envkey-unique", i>> :
                 i \in {i \in DOMAIN conns : \E j \in 1..i-1 :
                          /\ envKey(conns[j].alias) = envKey(conns[i].alias)
                          /\ \A k \in 1..j-1 : envKey(conns[k].alias) # envKey(conns[i].alias)
                          /\ conns[j].alias # conns[i].alias}}

blame_SectionFirst(c, f) ==
    IF c.sec[CfSection[f]] # "default" THEN c.sec[CfSection[f]] ELSE c.src[f]

(* The source an error names: the field's, or else its section's. *)
blame(c, f) == IF c.src[f] = "default" THEN c.sec[CfSection[f]] ELSE c.src[f]

(* min=1 on both timeouts, the tool's within the total, and the connections. *)
Validate(c) ==
    {<<"min", f, blame(c, f)>> : f \in {f \in {"ToolTimeout", "TotalTimeout"} : c.val[f] < 1}}
    \cup (IF c.val["ToolTimeout"] > 0 /\ c.val["TotalTimeout"] > 0
             /\ c.val["ToolTimeout"] > c.val["TotalTimeout"]
          THEN {<<"ltefield", "ToolTimeout", c.src["ToolTimeout"]>>} ELSE {})
    \cup {<<"connections", e, c.src["Connections"]>> : e \in validateConnections(c.val["Connections"])}

LoadWith(w, o) ==
    LET step[i \in 0..Len(Chain)] ==
            IF i = 0 THEN Default ELSE applyLayer(step[i-1], layerOf(w, o, Chain[i]), Chain[i])
        c == step[Len(Chain)]
    IN  IF "invalid" \in o.sources THEN Failed("setting-sources")
        ELSE IF c.state = "error" THEN c
        ELSE IF Validate(c) = {} THEN c
        ELSE [Failed("validation") EXCEPT !.errs = Validate(c)]

CfInit ==
    /\ world = [l \in {"policy", "user", "project", "local", "env"} |-> Absent]
    /\ options = [cwd |-> FALSE, settings |-> Absent, sources |-> {}, overrides |-> Absent]
    /\ loaded = NotLoaded

Load ==
    /\ loaded = NotLoaded
    /\ world' \in CfWorlds /\ options' \in CfOptions
    /\ loaded' = LoadWith(world', options')

-----------------------------------------------------------------------------
Rank == <<"policy", "user", "project", "local", "env", "flag-settings", "cli">>
Writers(w, o, f) ==
    {i \in DOMAIN Rank : LET content == layerOf(w, o, Rank[i])
                         IN  content.kind = "sets" /\ f \in DOMAIN content.fields}

(* The strongest layer that mentions a field, and what it makes of it.     *)
Setter(w, o, f) ==
    IF Writers(w, o, f) = {} THEN "default"
    ELSE Rank[Max(Writers(w, o, f))]
Setting(w, o, f) ==
    IF Writers(w, o, f) = {} THEN CfDefault[f] ELSE layerOf(w, o, Setter(w, o, f)).fields[f]

(* Every field of a loaded configuration has the value of the strongest    *)
(* layer that mentions it, and names that layer as its source: no weaker   *)
(* layer and no neighbouring field of the same section gets in the way.    *)
Precedence ==
    loaded.state = "ok" =>
        \A f \in Fields : /\ loaded.src[f] = Setter(world, options, f)
                          /\ loaded.val[f] = Setting(world, options, f)

(* Every violation names the layer that wrote the value it complains of,   *)
(* not the last one to touch its section: a bound, the two timeouts out of *)
(* order, a connection that is not one.                                    *)
ErrorsNameTheirSource ==
    loaded.state = "error" =>
        \A e \in loaded.errs :
            e[3] = Setter(world, options, IF e[1] = "connections" THEN "Connections" ELSE e[2])

(* Every value, and every complaint about one, is traced to the layer that *)
(* set it.                                                                 *)
SettingsTraceable == Precedence /\ ErrorsNameTheirSource
=============================================================================
