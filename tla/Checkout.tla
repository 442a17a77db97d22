------------------------------- MODULE Checkout -------------------------------
(***************************************************************************)
(* The working tree of a project, on which the commands that need no       *)
(* database run: init, new, format, and the loading of the project with    *)
(* which every other command begins.  Nothing locks the tree: processes    *)
(* read and write file by file, authors save at any time, a write may fail *)
(* and a process may be killed between any two files.                      *)
(*                                                                         *)
(* A package is a directory.  Directories are numbered in the order of     *)
(* their names, which begin with the id a package should declare.          *)
(***************************************************************************)
EXTENDS Naturals, FiniteSets

CONSTANTS
    Procs,
    Dirs,           \* 1 .. n
    NameId,         \* the id in a directory's name
    Texts,          \* what an SQL file may say
    Pretty,         \* external: one pass of libpg_query's deparser
    Structure,      \* external: the canonical tree of a text that parses
    Template,       \* what a new script says: comments, and no statement
    Broken,         \* the texts that do not parse
    MaxRuns, MaxEdits,
    NoFile,
    Cut             \* a file that was created and is not written yet

\* The deparser settles within the four passes it is given.
Settles(t) ==
    LET fourth == Pretty[Pretty[Pretty[Pretty[t]]]] IN Pretty[fourth] = fourth

Setting ==
    /\ IsFiniteSet(Dirs) /\ Dirs = 1 .. Cardinality(Dirs)
    /\ NameId \in [Dirs -> Dirs] /\ \A d \in Dirs : NameId[d] <= d
    /\ NoFile # Cut /\ {NoFile, Cut} \cap (Texts \cup Procs \cup {"given"}) = {}
    /\ Pretty \in [Texts -> Texts] /\ Broken \subseteq Texts /\ Template \in Texts \ Broken
    /\ \A t \in Texts \ Broken : Settles(t)
    /\ MaxRuns \in Nat /\ MaxEdits \in Nat

ASSUME CheckoutAssumption == Setting

VARIABLES
    config,         \* zapadka.toml: NoFile, Cut, or the process whose init wrote it
    folders,        \* migrations and tests/db: absent, bare, or kept by .gitkeep
    packages,
    procs,
    runs, edits,
    used,           \* history: the directories there have been
    spoilt          \* history: those that no command can answer for, and Root

tree == <<config, folders, packages, used>>
checkoutVars == <<tree, procs, runs, edits, spoilt>>

Folders == {"migrations", "tests"}
Roles == {"deploy", "revert"}

\* The project's own directory, where zapadka.toml is.
Root == 0
Files == Dirs \X Roles

\* A directory that is not there holds no files.
NoPackage == [there |-> FALSE, manifest |-> NoFile, deploy |-> NoFile, revert |-> NoFile]

There == {d \in Dirs : packages[d].there}

Sql(file) == packages[file[1]][file[2]]

Least(S) == CHOOSE d \in S : \A e \in S : d <= e

Idle == [cmd |-> "none", pc |-> "idle", outcome |-> "none"]

-----------------------------------------------------------------------------
(***************************************************************************)
(* What a manifest says, and what makes a package or a project acceptable. *)
(***************************************************************************)
Manifests == [id : Dirs, depends : SUBSET Dirs, reversible : BOOLEAN]

ManifestValid(m) == m \in Manifests /\ m.id \notin m.depends

\* migration::read, on files that do not change meanwhile.
PackageValid(d) ==
    LET p == packages[d]
    IN  /\ ManifestValid(p.manifest)
        /\ p.manifest.id = NameId[d]
        /\ p.deploy # NoFile
        /\ p.manifest.reversible <=> p.revert # NoFile

\* Graph::build: it is acyclic if every part of it has a first migration.
GraphValid(graph) ==
    LET ids == {m.id : m \in graph}
    IN  /\ \A m \in graph : m.depends \subseteq ids
        /\ \A part \in SUBSET graph :
              part # {} => \E m \in part : m.depends \cap {o.id : o \in part} = {}

\* Mutant: the first migrations instead of the last.
HeadsAtTheWrongEnd(graph) == {m.id : m \in {n \in graph : n.depends = {}}}

HeadsOf(graph) == {m.id : m \in graph} \ UNION {m.depends : m \in graph}

\* No two directories declare the same id.
Distinct(ds) == \A d, e \in ds : d # e => NameId[d] # NameId[e]

\* load_project, on files that do not change meanwhile.
Loadable ==
    /\ config \notin {NoFile, Cut}
    /\ \A d \in There : PackageValid(d)
    /\ Distinct(There)
    /\ GraphValid({packages[d].manifest : d \in There})

-----------------------------------------------------------------------------
(***************************************************************************)
(* A tree nobody has initialised, or a project with a migration or none.   *)
(***************************************************************************)
CheckoutInit ==
    /\ \E project, migration, reversible \in BOOLEAN, text \in Texts :
          /\ migration => project
          /\ config = IF project THEN "given" ELSE NoFile
          /\ folders = [f \in Folders |-> IF project THEN "kept" ELSE "absent"]
          /\ packages =
                [d \in Dirs |->
                    IF migration /\ d = 1
                    THEN [there |-> TRUE, deploy |-> text,
                          manifest |-> [id |-> 1, depends |-> {}, reversible |-> reversible],
                          revert |-> IF reversible THEN text ELSE NoFile]
                    ELSE NoPackage]
    /\ procs = [p \in Procs |-> Idle]
    /\ runs = 0 /\ edits = 0 /\ used = There /\ spoilt = {}

Becomes(p, state) == procs' = [procs EXCEPT ![p] = state]

Ends(p, result) == Becomes(p, [Idle EXCEPT !.outcome = result])

Start(p, c) ==
    /\ procs[p].pc = "idle" /\ runs < MaxRuns
    /\ runs' = runs + 1
    /\ Becomes(p, [cmd |-> c, pc |-> IF c = "init" THEN "check" ELSE "config", outcome |-> "none"])
    /\ UNCHANGED <<tree, edits, spoilt>>

At(p, pc) == procs[p].pc = pc

-----------------------------------------------------------------------------
(***************************************************************************)
(* init.                                                                   *)
(***************************************************************************)

\* --allow-existing leaves the configuration alone.
InitChecks(p) ==
    /\ At(p, "check")
    /\ \/ config # NoFile /\ Ends(p, "refused")
       \/ Becomes(p, [cmd |-> "init", pc |-> "again", outcome |-> "none", found |-> config # NoFile])
    /\ UNCHANGED <<tree, runs, edits, spoilt>>

\* Mutant: it writes without looking again.
InitWrites(p) ==
    /\ At(p, "again")
    /\ Becomes(p, [procs[p] EXCEPT !.pc = "open"])
    /\ UNCHANGED <<tree, runs, edits, spoilt>>

\* It looks again before it writes.
InitLooksAgain(p) ==
    /\ At(p, "again")
    /\ Becomes(p, [procs[p] EXCEPT !.pc = IF config = NoFile THEN "open" ELSE "folders"])
    /\ UNCHANGED <<tree, runs, edits, spoilt>>

InitOpensConfig(p) ==
    /\ At(p, "open")
    /\ config' = Cut
    /\ Becomes(p, [procs[p] EXCEPT !.pc = "fill"])
    /\ UNCHANGED <<folders, packages, used, runs, edits, spoilt>>

InitFillsConfig(p) ==
    /\ At(p, "fill")
    /\ config' = p
    /\ Becomes(p, [procs[p] EXCEPT !.pc = "folders"])
    /\ UNCHANGED <<folders, packages, used, runs, edits, spoilt>>

\* One folder after the other, each with a file that makes git track it.
InitMakesFolder(p) ==
    /\ At(p, "folders")
    /\ \E f \in Folders :
          /\ f = "tests" => folders["migrations"] # "absent"
          /\ folders[f] = "absent"
          /\ folders' = [folders EXCEPT ![f] = "bare"]
          /\ Becomes(p, [procs[p] EXCEPT !.pc = f])
    /\ UNCHANGED <<config, packages, used, runs, edits, spoilt>>

InitKeepsFolder(p) ==
    /\ procs[p].pc \in Folders
    /\ folders' = [folders EXCEPT ![procs[p].pc] = "kept"]
    /\ Becomes(p, [procs[p] EXCEPT !.pc = "folders"])
    /\ UNCHANGED <<config, packages, used, runs, edits, spoilt>>

InitEnds(p) ==
    /\ At(p, "folders") /\ \A f \in Folders : folders[f] # "absent"
    /\ Ends(p, "done")
    /\ UNCHANGED <<tree, runs, edits, spoilt>>

\* A file or a folder cannot be created or written, and what there is of it stays.
InitFails(p) ==
    /\ procs[p].pc \in {"open", "fill", "folders"} \cup Folders
    /\ Ends(p, "failed")
    /\ spoilt' = spoilt \cup IF At(p, "fill") THEN {Root} ELSE {}
    /\ UNCHANGED <<tree, runs, edits>>

InitStep(p) ==
    \/ InitChecks(p) \/ InitLooksAgain(p) \/ InitOpensConfig(p) \/ InitFillsConfig(p)
    \/ InitMakesFolder(p) \/ InitKeepsFolder(p) \/ InitEnds(p) \/ InitFails(p)

-----------------------------------------------------------------------------
(***************************************************************************)
(* load_project: the configuration, then every package, file by file.      *)
(***************************************************************************)
LoadsConfig(p) ==
    /\ At(p, "config")
    /\ IF config \in {NoFile, Cut} THEN Ends(p, "refused")
       ELSE Becomes(p, [cmd |-> procs[p].cmd, pc |-> "manifest", outcome |-> "none",
                        todo |-> There, graph |-> {}, sql |-> {}])
    /\ UNCHANGED <<tree, runs, edits, spoilt>>

\* The package in hand.
Reading(p) == Least(procs[p].todo)

ReadsManifest(p) ==
    /\ At(p, "manifest") /\ procs[p].todo # {}
    /\ LET m == packages[Reading(p)].manifest
       IN  IF ManifestValid(m) /\ m.id = NameId[Reading(p)]
           THEN Becomes(p, [procs[p] EXCEPT !.pc = "deploy", !.graph = @ \cup {m}])
           ELSE Ends(p, "refused")
    /\ UNCHANGED <<tree, runs, edits, spoilt>>

ReadsDeploy(p) ==
    /\ At(p, "deploy")
    /\ IF packages[Reading(p)].deploy = NoFile THEN Ends(p, "refused")
       ELSE Becomes(p, [procs[p] EXCEPT !.pc = "revert", !.sql = @ \cup {<<Reading(p), "deploy">>}])
    /\ UNCHANGED <<tree, runs, edits, spoilt>>

\* Reversibility is a promise about revert.sql.
ReadsRevert(p) ==
    /\ At(p, "revert")
    /\ LET d == Reading(p)
           present == packages[d].revert # NoFile
           declared == \E m \in procs[p].graph : m.id = NameId[d] /\ m.reversible
       IN  IF present # declared THEN Ends(p, "refused")
           ELSE Becomes(p, [procs[p] EXCEPT !.pc = "manifest", !.todo = @ \ {d},
                              !.sql = IF present THEN @ \cup {<<d, "revert">>} ELSE @])
    /\ UNCHANGED <<tree, runs, edits, spoilt>>

\* check_for_duplicate_ids and Graph::build.
BuildsGraph(p) ==
    /\ At(p, "manifest") /\ procs[p].todo = {}
    /\ IF Distinct({file[1] : file \in procs[p].sql}) /\ GraphValid(procs[p].graph)
       THEN CASE procs[p].cmd = "new" -> Becomes(p, [procs[p] EXCEPT !.pc = "new"])
              [] procs[p].cmd = "format" -> Becomes(p, [procs[p] EXCEPT !.pc = "select"])
              [] OTHER -> Ends(p, "done")
       ELSE Ends(p, "refused")
    /\ UNCHANGED <<tree, runs, edits, spoilt>>

\* A file cannot be read, or what the command is asked for is not acceptable: a
\* slug, a dependency that is unknown or ambiguous, a path outside the project.
GivesUp(p) ==
    /\ procs[p].pc \in {"config", "manifest", "deploy", "revert", "new", "select", "reads"}
    /\ Ends(p, "refused")
    /\ UNCHANGED <<tree, runs, edits, spoilt>>

LoadStep(p) ==
    \/ LoadsConfig(p) \/ ReadsManifest(p) \/ ReadsDeploy(p) \/ ReadsRevert(p)
    \/ BuildsGraph(p) \/ GivesUp(p)

-----------------------------------------------------------------------------
(***************************************************************************)
(* new.                                                                    *)
(***************************************************************************)

\* Ids grow with time.
NextId ==
    LET free == {d \in Dirs \ used : NameId[d] = d}
    IN  {d \in free : d = Least(free)}

\* Without --depends, a new migration comes after everything there is; with it,
\* after whatever is named, each once.
Dependencies(graph, named) ==
    IF named THEN SUBSET {m.id : m \in graph} \ {{}} ELSE {HeadsOf(graph)}

MakesPackage(p) ==
    /\ At(p, "new")
    /\ \E d \in NextId, reversible, named \in BOOLEAN :
       \E depends \in Dependencies(procs[p].graph, named) :
          /\ packages' = [packages EXCEPT ![d].there = TRUE]
          /\ used' = used \cup {d}
          /\ Becomes(p, [cmd |-> "new", pc |-> "opens", outcome |-> "none",
                         after |-> IF named THEN {} ELSE procs[p].graph,   \* history
                         dir |-> d, file |-> "manifest", manifest |->
                         [id |-> d, depends |-> depends, reversible |-> reversible]])
    /\ folders' = [folders EXCEPT !["migrations"] = IF @ = "absent" THEN "bare" ELSE @]
    /\ UNCHANGED <<config, runs, edits, spoilt>>

\* Writing a file creates it first.
NewOpens(p) ==
    /\ At(p, "opens")
    /\ packages' = [packages EXCEPT ![procs[p].dir][procs[p].file] = Cut]
    /\ Becomes(p, [procs[p] EXCEPT !.pc = "fills"])
    /\ UNCHANGED <<config, folders, used, runs, edits, spoilt>>

NextFile(manifest, file) ==
    CASE file = "manifest" -> "deploy"
      [] file = "deploy" /\ manifest.reversible -> "revert"
      [] OTHER -> "none"

NewFills(p) ==
    /\ At(p, "fills")
    /\ LET w == procs[p]
           next == NextFile(w.manifest, w.file)
       IN  /\ packages' = [packages EXCEPT ![w.dir][w.file] =
                              IF w.file = "manifest" THEN w.manifest ELSE Template]
           /\ IF next = "none" THEN Ends(p, "done")
              ELSE Becomes(p, [w EXCEPT !.pc = "opens", !.file = next])
    /\ UNCHANGED <<config, folders, used, runs, edits, spoilt>>

\* Mutant: a package half made is left.
NewFailsAndLeaves(p) ==
    /\ procs[p].pc \in {"opens", "fills"}
    /\ Ends(p, "failed")
    /\ UNCHANGED <<tree, runs, edits, spoilt>>

\* Creating or writing it fails, and the package is taken away.
NewFails(p) ==
    /\ procs[p].pc \in {"opens", "fills"}
    /\ Becomes(p, [cmd |-> "new", pc |-> "cleans", outcome |-> "none", dir |-> procs[p].dir])
    /\ UNCHANGED <<tree, runs, edits, spoilt>>

\* remove_dir_all: the files in any order, then the directory.
NewCleans(p) ==
    /\ At(p, "cleans")
    /\ LET d == procs[p].dir
           left == {f \in {"manifest", "deploy", "revert"} : packages[d][f] # NoFile}
       IN  IF left = {}
           THEN packages' = [packages EXCEPT ![d] = NoPackage] /\ Ends(p, "failed")
           ELSE \E f \in left : packages' = [packages EXCEPT ![d][f] = NoFile] /\ UNCHANGED procs
    /\ UNCHANGED <<config, folders, used, runs, edits, spoilt>>

\* Best effort.
NewGivesUp(p) ==
    /\ At(p, "cleans")
    /\ Ends(p, "failed")
    /\ spoilt' = spoilt \cup {procs[p].dir}
    /\ UNCHANGED <<tree, runs, edits>>

NewStep(p) ==
    \/ MakesPackage(p) \/ NewOpens(p) \/ NewFills(p)
    \/ NewFails(p) \/ NewCleans(p) \/ NewGivesUp(p)

-----------------------------------------------------------------------------
(***************************************************************************)
(* format.                                                                 *)
(***************************************************************************)

\* Mutant: the deparser is run once.
FormattedOnce(t) == IF t = Cut THEN Cut ELSE Pretty[t]

\* The deparser is run again on what it wrote, up to three times.
Formatted(t) == IF t = Cut THEN Cut ELSE Pretty[Pretty[Pretty[Pretty[t]]]]

Tree(t) == IF t = Cut THEN Structure[Template] ELSE Structure[t]

\* The order of the paths.
LeastFile(S) ==
    CHOOSE f \in S : \A g \in S : f[1] < g[1] \/ (f[1] = g[1] /\ (f[2] = "deploy" \/ f = g))

\* Every script of the project, or those that are named.
Selects(p) ==
    /\ At(p, "select")
    /\ \E files \in {procs[p].sql} \cup {{file} : file \in procs[p].sql} :
          Becomes(p, [cmd |-> "format", pc |-> "reads", outcome |-> "none",
                      todo |-> files, read |-> {}, wrote |-> {}])
    /\ UNCHANGED <<tree, runs, edits, spoilt>>

Reads(p) ==
    /\ At(p, "reads") /\ procs[p].todo # {}
    /\ LET file == LeastFile(procs[p].todo)
           text == Sql(file)
       IN  IF text \in Broken \cup {NoFile} THEN Ends(p, "refused")
           ELSE Becomes(p, [procs[p] EXCEPT !.todo = @ \ {file},
                                            !.read = @ \cup {[file |-> file, text |-> text]}])
    /\ UNCHANGED <<tree, runs, edits, spoilt>>

Changed(p) == {r \in procs[p].read : Formatted(r.text) # r.text}

\* Nothing is written before every change has been judged.
Judges(p) ==
    /\ At(p, "reads") /\ procs[p].todo = {}
    /\ \E check \in BOOLEAN :
          CASE \E r \in Changed(p) : Tree(Formatted(r.text)) # Tree(r.text) -> Ends(p, "refused")
            [] check /\ Changed(p) # {} -> Ends(p, "refused")
            [] Changed(p) = {} -> Ends(p, "done")
            [] OTHER -> Becomes(p, [procs[p] EXCEPT !.pc = "writes",
                                                    !.todo = {r.file : r \in Changed(p)}])
    /\ UNCHANGED <<tree, runs, edits, spoilt>>

\* A temporary file, which no command reads, is renamed over the script.
Writes(p) ==
    /\ At(p, "writes")
    /\ LET w == procs[p]
           file == LeastFile(w.todo)
           text == (CHOOSE r \in w.read : r.file = file).text
       IN  /\ packages[file[1]].there
           /\ packages' = [packages EXCEPT ![file[1]][file[2]] = Formatted(text)]
           /\ IF w.todo = {file} THEN Ends(p, "done")
              ELSE Becomes(p, [w EXCEPT !.todo = @ \ {file}, !.wrote = @ \cup {file}])
    /\ UNCHANGED <<config, folders, used, runs, edits, spoilt>>

WriteFails(p) ==
    /\ At(p, "writes")
    /\ Ends(p, "failed")
    /\ UNCHANGED <<tree, runs, edits, spoilt>>

FormatStep(p) == Selects(p) \/ Reads(p) \/ Judges(p) \/ Writes(p) \/ WriteFails(p)

-----------------------------------------------------------------------------
(***************************************************************************)
(* What no command does.                                                   *)
(***************************************************************************)

\* A process is killed: what it was creating stays as it is.
Dies(p) ==
    /\ procs[p].pc # "idle"
    /\ Ends(p, "killed")
    /\ spoilt' = spoilt \cup CASE procs[p].pc \in {"opens", "fills", "cleans"} -> {procs[p].dir}
                               [] At(p, "fill") -> {Root}
                               [] OTHER -> {}
    /\ UNCHANGED <<tree, runs, edits>>

\* An author saves a script.
Saves(file, text) ==
    /\ edits < MaxEdits /\ edits' = edits + 1
    /\ Sql(file) # NoFile
    /\ packages' = [packages EXCEPT ![file[1]][file[2]] = text]
    /\ UNCHANGED <<config, folders, used, procs, runs, spoilt>>

\* An author changes a manifest, or deletes a script.
Edits(d) ==
    /\ edits < MaxEdits /\ edits' = edits + 1
    /\ packages[d].manifest \in Manifests
    /\ \/ \E m \in {Cut} \cup {[packages[d].manifest EXCEPT !.reversible = ~@]}
                \cup {[packages[d].manifest EXCEPT !.depends = @ \cup {e}] : e \in Dirs} :
             packages' = [packages EXCEPT ![d].manifest = m]
       \/ \E role \in Roles : packages' = [packages EXCEPT ![d][role] = NoFile]
    /\ spoilt' = spoilt \cup {d}
    /\ UNCHANGED <<config, folders, used, procs, runs>>

\* An author copies a package, under an id of its own or not.
Copies(d, e) ==
    /\ edits < MaxEdits /\ edits' = edits + 1
    /\ d \in There /\ e \notin used
    /\ packages' = [packages EXCEPT ![e] = packages[d]]
    /\ used' = used \cup {e} /\ spoilt' = spoilt \cup {e}
    /\ UNCHANGED <<config, folders, procs, runs>>

CheckoutNext ==
    \/ \E p \in Procs, c \in {"init", "new", "format", "other"} : Start(p, c)
    \/ \E p \in Procs : InitStep(p) \/ LoadStep(p) \/ NewStep(p) \/ FormatStep(p) \/ Dies(p)
    \/ \E file \in Files, text \in Texts : Saves(file, text)
    \/ \E d \in Dirs : Edits(d)
    \/ \E d, e \in Dirs : Copies(d, e)

CheckoutSpec == CheckoutInit /\ [][CheckoutNext]_checkoutVars

-----------------------------------------------------------------------------
(***************************************************************************)
(* Properties.                                                             *)
(***************************************************************************)
Outcomes == {"none", "done", "refused", "failed", "killed"}

\* Every variable has its type.
CheckoutTypeOK ==
    /\ config \in Procs \cup {"given", NoFile, Cut}
    /\ folders \in [Folders -> {"absent", "bare", "kept"}]
    /\ packages \in [Dirs -> [there : BOOLEAN, manifest : Manifests \cup {NoFile, Cut},
                              deploy : Texts \cup {NoFile, Cut}, revert : Texts \cup {NoFile, Cut}]]
    /\ \A p \in Procs :
          /\ procs[p].outcome \in Outcomes
          /\ procs[p].pc = "idle" <=> procs[p].cmd = "none"
    /\ runs \in 0 .. MaxRuns /\ edits \in 0 .. MaxEdits
    /\ There \subseteq used /\ used \subseteq Dirs /\ spoilt \subseteq Dirs \cup {Root}

Quiet == \A p \in Procs : procs[p].pc = "idle"

\* Whatever the commands ran into, once they have all ended there is no project
\* yet, and no migration, or one that every later command can load.  Excepted
\* are: a process killed while it was creating a file; a new that failed and
\* could not take its package away; an init that failed while it was writing
\* zapadka.toml, which it leaves as it is; a package broken by hand; and a
\* migration that was read while it was being created, and taken away again.
LoadsWhenQuiet ==
    Quiet /\ spoilt = {} =>
        \/ config = NoFile /\ There = {}
        \/ Loadable
        \/ /\ config \notin {NoFile, Cut}
           /\ \E d \in There :
                 /\ packages[d].manifest \in Manifests
                 /\ packages[d].manifest.depends \cap (used \ There) # {}

\* A script is never there in part, other than in a package that is being
\* created or whose creation was cut short.
ScriptsAreWhole ==
    \A file \in Files :
        Sql(file) = Cut =>
            \/ file[1] \in spoilt
            \/ \E p \in Procs : procs[p].pc \in {"fills", "cleans"} /\ procs[p].dir = file[1]

\* The commands leave a project that loads, and meanwhile whole scripts.
CommandsLeaveAProject == LoadsWhenQuiet /\ ScriptsAreWhole

\* What format writes says what the file said, unless an author has saved it
\* since format read it; and the formatter has nothing to change in it.
FormatKeepsStructure ==
    [][\A p \in Procs : \A file \in Files :
          procs[p].pc = "writes" /\ procs'[p] # procs[p] /\ Sql(file)' # Sql(file) =>
             /\ [file |-> file, text |-> Sql(file)] \in procs[p].read =>
                   Tree(Sql(file)') = Tree(Sql(file))
             /\ Sql(file)' \in Texts => Pretty[Sql(file)'] = Sql(file)']_checkoutVars

\* A configuration is only ever written by an init that began before there was
\* one: the identity of a project is never replaced by a later init.
InitLeavesAProjectAlone ==
    [][\A p \in Procs :
          config' # config /\ procs'[p] # procs[p] => ~procs[p].found]_checkoutVars

\* A migration made without --depends comes after every other one that was there
\* when it read the project and still is as it was, whatever was added meanwhile,
\* and needs each of them through one only: none of them is left that nothing
\* depends on, and nothing it names is needed by another of them.
NewComesLast ==
    [][\A p \in Procs :
          LET w == procs[p]
              others == {packages[d].manifest : d \in There \ {w.dir}} \cap Manifests
              Needed(graph) == UNION {m.depends : m \in graph}
          IN  w.cmd = "new" /\ w.pc = "fills" /\ procs'[p].outcome = "done"
              /\ w.after # {} /\ w.after \subseteq others =>
                 /\ w.manifest.depends \cap Needed(w.after) = {}
                 /\ {m.id : m \in w.after} \subseteq Needed(others) \cup w.manifest.depends]_checkoutVars

===============================================================================
