------------------------------- MODULE Skills -------------------------------
(***************************************************************************)
(* Skill discovery: the roots and their precedence, the scan of each root, *)
(* loading, validating and resolving what it finds, and the Skill tool and *)
(* prompt section built from the winners.  Files may change while the scan *)
(* goes on.                                                                *)
(***************************************************************************)
EXTENDS Integers, Sequences, FiniteSets, SequencesExt, FiniteSetsExt

CONSTANTS
    SkInputs,    \* [builtin, plugins, home, cwd, paths]: directories, by kind;
                 \* home and cwd hold .claude/skills before .opendbx/skills
    SkDirs,      \* dir -> "absent", "symlink", "file", "unreadable" or "dir"
    SkEntries,   \* path -> [dir, is, doc]; is: "file", "symlink", ...
    SkDocs,      \* doc -> [parse, name, desc, extra, tools, kebab]
    SkDisabled,  \* sets of names
    MaxFilesPerRoot,
    MaxEdits     \* BOUND: files removed or rewritten during the scan

(* Paths stand in the order of their numbers; no root lies inside another. *)
ASSUME SkillsAssumption ==
    /\ MaxFilesPerRoot \in Nat \ {0}
    /\ DOMAIN SkEntries \subseteq Int /\ IsFiniteSet(DOMAIN SkEntries)
    /\ \A p \in DOMAIN SkEntries :
         SkEntries[p] \in [dir : DOMAIN SkDirs, is : STRING, doc : DOMAIN SkDocs]
    /\ \A in \in SkInputs : \A kind \in {"builtin", "plugins", "home", "cwd", "paths"} :
         in[kind] \in Seq(DOMAIN SkDirs)

VARIABLES
    skPc, specs, roots, disabled, files, todo,
    entries,     \* the files as they are now
    valid,       \* skills that passed validation, in order
    found,       \* DiscoveryResult: errors, warnings, ignored
    resolution,  \* Resolve: active, shadowed, conflicts
    tool,        \* the names the Skill tool accepts, and the prompt lists
    reply, edits

skVars == <<skPc, specs, roots, disabled, files, todo, entries, valid, found, resolution, tool, reply, edits>>

NoTool == [names |-> {}, prompt |-> {}]
NoFind == [roots |-> {}, errors |-> {}, warnings |-> {}, ignored |-> {}]
-----------------------------------------------------------------------------
(* The bands: builtin, plugin cache, user, project, configured paths; only *)
(* the last must exist.                                                    *)
RootSpecs(in) ==
    LET band(dirs, b) == [i \in DOMAIN dirs |-> [dir |-> dirs[i], band |-> b, sub |-> i, required |-> b = 4]]
    IN  band(in.builtin, 0) \o band(in.plugins, 1) \o band(in.home, 2) \o band(in.cwd, 3) \o band(in.paths, 4)

(* The members of S in order: each has as many before it as come before it. *)
Sorted(S, before(_, _)) ==
    [i \in 1..Cardinality(S) |-> CHOOSE x \in S : Cardinality({y \in S : before(y, x)}) = i - 1]

(* By band, then by order inside the band; of two specs of one directory   *)
(* the stronger stays; the rank is the precedence.                         *)
AssignPrecedence(given) ==
    LET before(a, b) == a.band < b.band \/ (a.band = b.band /\ a.sub < b.sub)
        sorted == Sorted(ToSet(given), before)
        keep == {i \in DOMAIN sorted : \A j \in i+1..Len(sorted) : sorted[j].dir # sorted[i].dir}
        index == Sorted(keep, <)
    IN  [i \in DOMAIN index |-> [dir |-> sorted[index[i]].dir, required |-> sorted[index[i]].required, prec |-> i]]

(* A subdirectory counts when it holds a regular SKILL.md, a .md file when *)
(* it is regular; nothing that is a link.                                  *)
Candidates(dir) == {p \in DOMAIN entries : entries[p].dir = dir /\ entries[p].is = "file"}

(* An absent root is an error only when it is required. *)
rootError(root) ==
    LET state == SkDirs[root.dir] IN
    IF state = "dir" \/ (state = "absent" /\ ~root.required) THEN {} ELSE {<<root.dir, "ROOT_UNREADABLE">>}

limitError(dir, cut) == IF cut THEN {<<dir, "TOO_MANY_FILES">>} ELSE {}

(* Validate: a name without blanks and slashes, and a description. *)
SkillValid(doc) == doc.name # "bad name" /\ doc.name # "" /\ doc.desc

warningsOf(p, doc) ==
    (IF doc.extra THEN {<<p, "unknown-field">>} ELSE {})
    \cup (IF SkillValid(doc) /\ ~doc.kebab THEN {<<p, "non-kebab">>} ELSE {})

(* topByPrecedence and Resolve: of the skills of one name the strongest is *)
(* active; when two are equally strong none is.                            *)
Named(skills, n) == {i \in DOMAIN skills : skills[i].name = n}
tops(skills, n) == {i \in Named(skills, n) : \A j \in Named(skills, n) : skills[j].prec <= skills[i].prec}

Resolve_FirstTie(skills) ==
    LET names == {skills[i].name : i \in DOMAIN skills}
        win(n) == Min(tops(skills, n))
    IN  [active |-> {skills[win(n)] : n \in names},
         shadowed |-> {skills[i] : i \in {i \in DOMAIN skills : win(skills[i].name) # i}},
         ambiguous |-> {}]

Resolve(skills) ==
    LET names == {skills[i].name : i \in DOMAIN skills}
        clear == {n \in names : Cardinality(tops(skills, n)) = 1}
        win(n) == CHOOSE i \in tops(skills, n) : TRUE
    IN  [active |-> {skills[win(n)] : n \in clear},
         shadowed |-> {skills[i] : i \in {i \in DOMAIN skills : skills[i].name \in clear /\ win(skills[i].name) # i}},
         ambiguous |-> {skills[i] : i \in {i \in DOMAIN skills : skills[i].name \notin clear}}]

(* No list, or an empty one, leaves the tools of the caller. *)
AllowedToolsList(doc) == IF doc.tools = {} THEN "body" ELSE "body-limited"
-----------------------------------------------------------------------------
SkInit ==
    /\ skPc = "roots" /\ specs = <<>> /\ roots = <<>> /\ disabled = {} /\ files = <<>> /\ todo = <<>>
    /\ entries = SkEntries /\ valid = <<>> /\ found = NoFind
    /\ resolution = [active |-> {}, shadowed |-> {}, ambiguous |-> {}]
    /\ tool = NoTool /\ reply = "none" /\ edits = 0

BuildSkillRoots ==
    /\ skPc = "roots"
    /\ \E in \in SkInputs : specs' = RootSpecs(in)
    /\ roots' = AssignPrecedence(specs') /\ todo' = roots'
    /\ disabled' \in SkDisabled
    /\ skPc' = "scan"
    /\ UNCHANGED <<files, entries, valid, found, resolution, tool, reply, edits>>

(* Directory order decides which files are left out beyond the limit; when *)
(* the reading itself breaks off, what was read so far is still used, in   *)
(* the order it was read.                                                  *)
scanRoot ==
    /\ skPc = "scan" /\ todo # <<>>
    /\ LET root == Head(todo)
           all == IF SkDirs[root.dir] = "dir" THEN Candidates(root.dir) ELSE {}
           cut == Cardinality(all) > MaxFilesPerRoot
           listed(q, errors) ==
               /\ files' = [i \in DOMAIN q |-> [path |-> q[i], prec |-> root.prec]]
               /\ found' = [found EXCEPT !.roots = @ \cup errors]
       IN  \/ \E some \in (IF cut THEN kSubset(MaxFilesPerRoot, all) ELSE {all}) :
                listed(Sorted(some, <), rootError(root) \cup limitError(root.dir, cut))
           \/ /\ SkDirs[root.dir] = "dir"
              /\ \E some \in {some \in SUBSET all : Cardinality(some) <= MaxFilesPerRoot} :
                   \E q \in SetToSeqs(some) : listed(q, {<<root.dir, "ROOT_UNREADABLE">>})
    /\ todo' = Tail(todo)
    /\ skPc' = "load"
    /\ UNCHANGED <<specs, roots, disabled, entries, valid, resolution, tool, reply, edits>>

(* Somebody else removes a file or replaces it by a link. *)
Edit ==
    /\ skPc \in {"scan", "load"} /\ edits < MaxEdits
    /\ \E p \in DOMAIN SkEntries, to \in {"gone", "symlink"} :
         entries' = [entries EXCEPT ![p].is = to]
    /\ edits' = edits + 1
    /\ UNCHANGED <<skPc, specs, roots, disabled, files, todo, valid, found, resolution, tool, reply>>

(* loadSkill, Validate and the disabled list, one file at a time; the file *)
(* is looked at again when it is opened.                                   *)
loadSkill ==
    /\ skPc = "load" /\ files # <<>>
    /\ LET p == Head(files).path
           doc == SkDocs[entries[p].doc]
           skill == [name |-> doc.name, prec |-> Head(files).prec, path |-> p]
           failed(why) == found' = [found EXCEPT !.errors = @ \cup {<<p, why>>}] /\ UNCHANGED valid
           warned == [found EXCEPT !.warnings = @ \cup warningsOf(p, doc)]
       IN  IF entries[p].is # "file" THEN failed("FILE_UNREADABLE")
           ELSE IF doc.parse # "ok" THEN failed(doc.parse)
           ELSE IF ~SkillValid(doc)
           THEN /\ found' = [warned EXCEPT !.errors = @ \cup {<<p, "VALIDATION_FAILED">>}]
                /\ UNCHANGED valid
           ELSE IF doc.name \in disabled
           THEN found' = [warned EXCEPT !.ignored = @ \cup {skill}] /\ UNCHANGED valid
           ELSE found' = warned /\ valid' = Append(valid, skill)
    /\ files' = Tail(files)
    /\ UNCHANGED <<skPc, specs, roots, disabled, todo, entries, resolution, tool, reply, edits>>

RootDone ==
    /\ skPc = "load" /\ files = <<>>
    /\ skPc' = IF todo = <<>> THEN "resolve" ELSE "scan"
    /\ UNCHANGED <<specs, roots, disabled, files, todo, entries, valid, found, resolution, tool, reply, edits>>

NewSkillTool(r) == {s.name : s \in r.active}
PromptSection(r) == {s.name : s \in r.active}

(* Resolve, then the tool and the prompt section for the chat. *)
skillsForChat ==
    /\ skPc = "resolve"
    /\ resolution' = Resolve(valid)
    /\ tool' = [names |-> NewSkillTool(resolution'), prompt |-> PromptSection(resolution')]
    /\ skPc' = "ready"
    /\ UNCHANGED <<specs, roots, disabled, files, todo, entries, valid, found, reply, edits>>

(* The Skill tool returns the body and the tools the skill is limited to;  *)
(* an unknown name or malformed input is an answer, not an error.          *)
Execute ==
    /\ skPc = "ready" /\ reply = "none" /\ tool.names # {}
    /\ \/ reply' = "INVOKE_INVALID"
       \/ \E n \in {SkDocs[d].name : d \in DOMAIN SkDocs} :
            reply' = IF n \notin tool.names THEN "NOT_FOUND"
                     ELSE LET s == CHOOSE s \in resolution.active : s.name = n
                              doc == SkDocs[SkEntries[s.path].doc]
                          IN  AllowedToolsList(doc)
    /\ UNCHANGED <<skPc, specs, roots, disabled, files, todo, entries, valid, found, resolution, tool, edits>>

SkDone == skPc = "ready" /\ UNCHANGED skVars

SkNext ==
    \/ BuildSkillRoots \/ scanRoot \/ Edit \/ loadSkill \/ RootDone \/ skillsForChat \/ Execute \/ SkDone
SkSpec == SkInit /\ [][SkNext]_skVars
-----------------------------------------------------------------------------
Files(errors) == {e[1] : e \in errors}

(* Every skill file that survived until it was read is accounted for once: *)
(* active, shadowed, ambiguous, disabled or in an error; a limit that cuts *)
(* files off and a root that could not be read to its end are errors of    *)
(* the root.                                                               *)
SkillsAccounted ==
    skPc = "ready" =>
        LET r == resolution
            placed == r.active \cup r.shadowed \cup r.ambiguous \cup found.ignored
        IN  /\ \A i \in DOMAIN valid : valid[i] \in placed
            /\ \A s, t \in placed : s.path = t.path => s = t
            /\ \A s \in r.active : s \notin r.shadowed \cup r.ambiguous
            /\ \A p \in DOMAIN entries : entries[p].is = "file" /\ (\E i \in DOMAIN roots : roots[i].dir = entries[p].dir) =>
                 \/ \E s \in placed : s.path = p
                 \/ p \in Files(found.errors)
                 \/ \E why \in {"TOO_MANY_FILES", "ROOT_UNREADABLE"} : <<entries[p].dir, why>> \in found.roots
                 \/ SkDirs[entries[p].dir] = "absent"

(* The winner of a name comes from the strongest band that has it: project *)
(* over user over plugin over builtin, and a directory that is listed      *)
(* twice counts with its stronger listing.                                 *)
StrongestBandWins ==
    LET bandOf(path) == Max({specs[i].band : i \in {i \in DOMAIN specs : specs[i].dir = SkEntries[path].dir}})
    IN  \A s \in resolution.active : \A i \in DOMAIN valid :
            valid[i].name = s.name => bandOf(valid[i].path) <= bandOf(s.path)

(* A name two files of one root claim has no winner rather than either of  *)
(* them, even if a weaker root also has it.                                *)
NoArbitraryWinner ==
    \A s \in resolution.active : \A i \in DOMAIN valid :
        valid[i].name = s.name /\ valid[i].prec = s.prec => valid[i].path = s.path

(* Each name has the one skill its strongest root gives, or none on a tie, *)
(* and no file vanishes without an account, although files change during   *)
(* the scan.                                                               *)
SkillsResolved == SkillsAccounted /\ StrongestBandWins /\ NoArbitraryWinner
=============================================================================
