------------------------------ MODULE Install ------------------------------
(***************************************************************************)
(* The installer (install/install.py): installs and uninstalls, one after   *)
(* the other, with different flags and from different releases, stopped at  *)
(* any point, on a machine whose user writes files of his own in between.   *)
(*                                                                         *)
(* One action per file the program writes or deletes.  No write of it is    *)
(* atomic: one that is stopped, whole = FALSE, leaves a torn file.          *)
(***************************************************************************)
EXTENDS Integers

CONSTANTS
    Rails, Payload, Plugins,  \* files of releases: commands/*.md, the local root, plugins/
    Extras,                   \* other files a user may have under commands/
    Order,                    \* the sequence in which the files are written, or deleted
    NameOf,                   \* the name, without directories, of each payload file
    Shipped,                  \* Shipped[r]: the files release r ships
    Interpreters,             \* absolute paths of Python interpreters
    Missing, Torn,            \* in place of the content of a file
    Lockable,                 \* files another program may hold open
    Jobs,                     \* the command lines the installer is called with
    MaxJobs, MaxEdits, MaxStops

Released == DOMAIN Shipped
Files == Rails \cup Payload \cup Plugins \cup Extras

\* The files the installer makes up itself; the wrapper stands for that of each system.
BindingFile  == "governance.paths.json"
Launchers    == {"bin/PYTHON_BINDING", "bin/wrapper"}
HealthFile   == "INSTALL_HEALTH.json"
SettingsFile == "opencode.json"
ManifestFile == "INSTALL_MANIFEST.json"
Generated    == {BindingFile, HealthFile, SettingsFile, ManifestFile} \cup Launchers

\* A text of the user's: one that the injection leaves alone, one with something in
\* it that the injection replaces, and that one afterwards.
User      == "user"
Marked    == "user-marked"
Changed   == "user-changed"
UserTexts == {User, Marked, Changed}
NoKey     == "no-python"  \* the binding of an installer that wrote no pythonCommand

ASSUME InstallAssumption ==
    /\ \A r \in Released : Rails \subseteq Shipped[r] /\ Shipped[r] \subseteq Files \ Extras
    /\ {Order[i] : i \in DOMAIN Order} = {BindingFile, HealthFile} \cup Launchers \cup (Files \ Extras)
    /\ Lockable \subseteq Files \cup Generated
    /\ \A j \in Jobs :
          /\ j.verb \in {"install", "uninstall"} /\ j.release \in Released
          /\ j.python \in Interpreters /\ {j.force, j.backup, j.bind, j.purge} \subseteq BOOLEAN
    /\ {MaxJobs, MaxEdits, MaxStops} \subseteq Nat

\* The kinds of files are at different paths, and the marks for what a file holds
\* are told from one another.
ASSUME MarksAssumption ==
    /\ Generated \cap Files = {}
    /\ Payload \cap (Rails \cup Plugins \cup Extras) = {}
    /\ Extras \cap (Rails \cup Plugins) = {}
    /\ Missing # Torn
    /\ {Missing, Torn} \cap (UserTexts \cup {NoKey} \cup [own : BOOLEAN, plugin : BOOLEAN]) = {}
    /\ ({Missing, Torn, NoKey} \cup UserTexts) \cap (Released \cup Interpreters) = {}

VARIABLES
    disk,       \* what each file holds
    injected,   \* the rails whose {{BIN_DIR}} is replaced
    binding,    \* governance.paths.json: the interpreter it names
    launcher,   \* the interpreter in bin/PYTHON_BINDING and in the wrappers
    health,     \* INSTALL_HEALTH.json is there
    settings,   \* opencode.json: whether it has the user's keys and the plugin entry
    spoiled,    \* opencode.json.corrupt-backup is there
    manifest,   \* INSTALL_MANIFEST.json
    backups,    \* the user's files in .installer-backups: [job, time, at], by the job that
                \* made the copy, its time, which names the directory, and the place in it
    alive,      \* the interpreters there are
    job, stage,
    todo,       \* the files the stage still has to do
    written,    \* the entries of the next manifest
    locked,     \* the files that cannot be written or deleted during the job
    clock,      \* the second in which the last job began
    result,     \* "errors" once a deletion has failed; of an ended job while nothing
                \* else happens, "none" when it did not end
    tally       \* how much of each bound has been used

configFiles   == <<binding, launcher, health, settings, spoiled, manifest>>
plan     == <<job, locked, clock>>
progress == <<stage, todo, written, result>>
ivars    == <<disk, injected, configFiles, backups, alive, plan, progress, tally>>

InstallStages   == {"binding", "launcher", "wrapper", "health", "copy", "settings", "inject", "manifest"}
UninstallStages == {"delete", "payload", "forget", "unplug"}

Read(file) == file \notin {Missing, Torn}

Present(f) ==
    \/ f \in Files /\ disk[f] # Missing
    \/ f \in Launchers /\ launcher[f] # Missing
    \/ f = BindingFile /\ binding # Missing
    \/ f = HealthFile /\ health
    \/ f = SettingsFile /\ settings # Missing
    \/ f = ManifestFile /\ manifest # Missing

InstallInit ==
    /\ disk = [f \in Files |-> Missing] /\ injected = {}
    /\ binding = Missing /\ launcher = [l \in Launchers |-> Missing] /\ health = FALSE
    /\ settings \in {Missing, [own |-> TRUE, plugin |-> FALSE]} /\ spoiled = FALSE
    /\ manifest = Missing /\ backups = {} /\ alive = Interpreters
    /\ job = CHOOSE j \in Jobs : TRUE
    /\ locked = {} /\ clock = 0 /\ stage = "idle" /\ todo = {} /\ written = {} /\ result = "none"
    /\ tally = [jobs |-> 0, edits |-> 0, stops |-> 0]

-----------------------------------------------------------------------------
(* The course of a job. *)

\* The file whose turn it is.
Upcoming(f) ==
    f \in todo /\ \E i \in DOMAIN Order :
        Order[i] = f /\ \A j \in 1 .. (i - 1) : Order[j] \notin todo

\* What an uninstall deletes by name: what its own release would have installed,
\* the launchers, the report, and the binding if it is told to.
KnownTargets(j) ==
    Shipped[j.release] \cup Launchers \cup {HealthFile} \cup (IF j.purge THEN {BindingFile} ELSE {})

\* Mutant: only what the manifest lists, which is not what an earlier run left.
TargetsOfManifest(j) ==
    IF Read(manifest) THEN manifest.files \cup Launchers \cup {HealthFile} ELSE KnownTargets(j)

\* That, and what the manifest lists.
Targets(j) == KnownTargets(j) \cup (IF Read(manifest) THEN manifest.files ELSE {})

\* An uninstall without --force wants a manifest it can read, and a yes.  A job may
\* begin in the second in which the last one began.
StartJob(j) ==
    /\ stage = "idle" /\ tally.jobs < MaxJobs
    /\ j.python \in alive
    /\ j.verb = "uninstall" => j.force \/ Read(manifest)
    /\ job' = j /\ result' = "ok" /\ written' = {}
    /\ locked' \in {{}} \cup {{f} : f \in {g \in Lockable : Present(g)}}
    /\ clock' = clock + 1 \/ (clock' = clock /\ tally.jobs > 0)
    /\ \/ j.verb = "install" /\ stage' = "binding" /\ todo' = Shipped[j.release]
       \/ j.verb = "uninstall" /\ stage' = "delete" /\ todo' = Targets(j)
    /\ tally' = [tally EXCEPT !.jobs = @ + 1]
    /\ UNCHANGED <<disk, injected, configFiles, backups, alive>>

\* The step is complete, or the process has been stopped in it.
Then(whole, next) ==
    IF whole THEN stage' = next /\ UNCHANGED <<result, tally>>
    ELSE /\ tally.stops < MaxStops
         /\ stage' = "idle" /\ result' = "none"
         /\ tally' = [tally EXCEPT !.stops = @ + 1]

\* An exception, or an exit code other than 0.
Fails == stage' = "idle" /\ result' = "none" /\ UNCHANGED tally

Stop ==
    /\ stage # "idle"
    /\ Then(FALSE, "idle")
    /\ UNCHANGED <<disk, injected, configFiles, backups, alive, plan, todo, written>>

-----------------------------------------------------------------------------
(* Backups. *)

\* The place of a file in the backup directory of a job: what is not under the
\* configuration root goes by its name alone.
PlaceOf(f) == IF f \in Payload THEN <<"external", NameOf[f]>> ELSE <<"config", f>>

CopyOf(f) == [job |-> tally.jobs, time |-> clock, at |-> PlaceOf(f)]

\* Mutant: one directory for the backups of all jobs.
WithBackupInPlace(f, content) ==
    IF ~job.backup \/ content = Missing THEN backups
    ELSE {b \in backups : b.at # PlaceOf(f)} \cup {b \in {CopyOf(f)} : content \in UserTexts}

\* The directory is that of the second; what is at the place of f in it is written over.
WithoutBackup(f) == {b \in backups : b.time # clock \/ b.at # PlaceOf(f)}

\* The backups once f, with this content, has been saved for the job.
WithBackup(f, content) ==
    IF ~job.backup \/ content = Missing THEN backups
    ELSE WithoutBackup(f) \cup {b \in {CopyOf(f)} : content \in UserTexts}

\* A file that is not written after all: its copy has been made and it is locked, or
\* the process has been stopped while it was copied.
HeldUp(f, content, whole) ==
    \/ f \in locked /\ whole /\ Fails /\ backups' = WithBackup(f, content)
    \/ ~whole /\ job.backup /\ content # Missing /\ Then(FALSE, "idle") /\ backups' = WithoutBackup(f)

-----------------------------------------------------------------------------
(* Install. *)

\* governance.paths.json is written when missing or forced, and patched when it
\* lacks a key.
WritesBinding == job.bind /\ (job.force \/ binding \in {Missing, NoKey})

WriteBinding(whole) ==
    /\ stage = "binding"
    /\ \/ ~WritesBinding /\ whole /\ Then(TRUE, "launcher") /\ UNCHANGED <<binding, backups, written>>
       \/ /\ WritesBinding /\ BindingFile \notin locked
          /\ binding' = (IF whole THEN job.python ELSE Torn)
          /\ backups' = WithBackup(BindingFile, binding)
          /\ written' = written \cup {BindingFile}
          /\ Then(whole, "launcher")
       \/ WritesBinding /\ HeldUp(BindingFile, binding, whole) /\ UNCHANGED <<binding, written>>
    /\ UNCHANGED <<disk, injected, launcher, health, settings, spoiled, manifest, alive, plan, todo>>

\* The interpreter the launcher is bound to: the one of governance.paths.json,
\* if it names one.
Bound == IF binding \in Interpreters THEN binding ELSE job.python
BindingFails == binding = Torn \/ Bound \notin alive

Launcher == IF stage = "launcher" THEN "bin/PYTHON_BINDING" ELSE "bin/wrapper"

WriteLauncher(whole) ==
    /\ stage \in {"launcher", "wrapper"}
    /\ IF BindingFails \/ Launcher \in locked THEN whole /\ Fails /\ UNCHANGED launcher
       ELSE /\ launcher' = [launcher EXCEPT ![Launcher] = IF whole THEN Bound ELSE Torn]
            /\ Then(whole, IF stage = "launcher" THEN "wrapper" ELSE "health")
    /\ UNCHANGED <<disk, injected, binding, health, settings, spoiled, manifest,
                   backups, alive, plan, todo, written>>

WriteHealth ==
    /\ stage = "health" /\ health' = TRUE
    /\ IF HealthFile \in locked THEN Fails ELSE Then(TRUE, "copy")
    /\ UNCHANGED <<disk, injected, binding, launcher, settings, spoiled, manifest,
                   backups, alive, plan, todo, written>>

\* Mutant: a file that exists is left even if forced.
SkipsAlways(f) == disk[f] # Missing

\* The next file: one that exists is left as it is unless forced.
Skips(f) == disk[f] # Missing /\ ~job.force

PlaceFile(f, whole) ==
    \/ Skips(f) /\ whole /\ Then(TRUE, "copy") /\ UNCHANGED <<disk, injected, backups, written>>
    \/ /\ ~Skips(f) /\ f \notin locked
       /\ disk' = [disk EXCEPT ![f] = IF whole THEN job.release ELSE Torn]
       /\ injected' = injected \ {f}
       /\ backups' = WithBackup(f, disk[f])
       /\ written' = written \cup {f}
       /\ Then(whole, "copy")
    \/ ~Skips(f) /\ HeldUp(f, disk[f], whole) /\ UNCHANGED <<disk, injected, written>>

Copy(whole) ==
    /\ stage = "copy"
    /\ \E f \in todo :
       /\ Upcoming(f) /\ todo' = todo \ {f}
       /\ PlaceFile(f, whole)
    /\ UNCHANGED <<configFiles, alive, plan>>

\* commands/ is left with the rails alone, and the installation fails if it is not.
EnforceHygiene ==
    /\ stage = "copy" /\ todo = {}
    /\ disk' = [f \in Files |-> IF f \in Extras \ locked THEN Missing ELSE disk[f]]
    /\ IF \E f \in Extras : disk'[f] # Missing THEN Fails ELSE Then(TRUE, "settings")
    /\ UNCHANGED <<injected, configFiles, backups, alive, plan, todo, written>>

\* opencode.json keeps its other keys; a text that cannot be parsed is put aside,
\* and one that cannot even be decoded ends the installation.
EnsureSettings(whole) ==
    /\ stage = "settings"
    /\ \/ /\ SettingsFile \notin locked
          /\ settings' = IF whole THEN [own |-> Read(settings) /\ settings.own, plugin |-> TRUE] ELSE Torn
          /\ spoiled' = (spoiled \/ settings = Torn)
          /\ Then(whole, "inject")
       \/ /\ SettingsFile \in locked /\ whole
          /\ spoiled' = (spoiled \/ settings = Torn)
          /\ Fails /\ UNCHANGED settings
       \/ settings = Torn /\ whole /\ Fails /\ UNCHANGED <<settings, spoiled>>
    /\ todo' = Rails
    /\ UNCHANGED <<disk, injected, binding, launcher, health, manifest, backups, alive, plan, written>>

\* A rail with something in it to replace: {{BIN_DIR}} in one of a release; that, an
\* older placeholder or a line that calls session_reader.py in one of the user's.
Placeholder(f) == (disk[f] \in Released /\ f \notin injected) \/ disk[f] = Marked

\* Whosever it is it is written anew, forced or not, and no copy of it is made.  A
\* torn text may fail to be decoded.
InjectFile(f, whole) ==
    \/ ~Placeholder(f) /\ whole /\ Then(TRUE, "inject") /\ UNCHANGED <<disk, injected>>
    \/ (disk[f] = Torn \/ (Placeholder(f) /\ f \in locked)) /\ whole /\ Fails /\ UNCHANGED <<disk, injected>>
    \/ /\ Placeholder(f) /\ f \notin locked
       /\ injected' = injected \cup {f}
       /\ disk' = [disk EXCEPT ![f] = IF ~whole THEN Torn ELSE IF @ = Marked THEN Changed ELSE @]
       /\ Then(whole, "inject")

InjectRail(whole) ==
    /\ stage = "inject"
    /\ \E f \in todo :
       /\ Upcoming(f) /\ todo' = todo \ {f}
       /\ InjectFile(f, whole)
    /\ UNCHANGED <<configFiles, backups, alive, plan, written>>

\* The manifest lists what this run has written, and replaces the one before.
WriteManifest(whole) ==
    /\ stage = "inject" /\ todo = {}
    /\ IF ManifestFile \in locked THEN whole /\ Fails /\ UNCHANGED manifest
       ELSE /\ manifest' = IF whole THEN [release |-> job.release, files |-> written] ELSE Torn
            /\ Then(whole, "idle")
    /\ UNCHANGED <<disk, injected, binding, launcher, health, settings, spoiled,
                   backups, alive, plan, todo, written>>

-----------------------------------------------------------------------------
(* Uninstall. *)

\* Deletes what can be deleted of these files, and notes what cannot.
Deletes(files) ==
    LET deleted == files \ locked
    IN /\ disk' = [f \in Files |-> IF f \in deleted THEN Missing ELSE disk[f]]
       /\ launcher' = [l \in Launchers |-> IF l \in deleted THEN Missing ELSE launcher[l]]
       /\ binding' = IF BindingFile \in deleted THEN Missing ELSE binding
       /\ health' = (health /\ HealthFile \notin deleted)
       /\ result' = IF \E f \in files \cap locked : Present(f) THEN "errors" ELSE result
       /\ UNCHANGED <<injected, settings, spoiled, manifest, backups, alive, plan, written, tally>>

DeleteTarget ==
    /\ stage = "delete" /\ UNCHANGED stage
    /\ \E f \in todo : Upcoming(f) /\ todo' = todo \ {f} /\ Deletes({f})

\* Whatever is left under commands/, and in the payload of the local root.
Purge(from, files, to) ==
    /\ stage = from /\ todo = {} /\ stage' = to
    /\ Deletes(files)
    /\ UNCHANGED todo

PurgeCommands == Purge("delete", Rails \cup Extras, "payload")
PurgePayload  == Purge("payload", Payload, "forget")

\* The manifest goes whatever the deletions came to.  One that could not be read
\* stays; so does one that is locked, and the exit code does not tell.
DropManifest ==
    /\ stage = "forget"
    /\ manifest' = IF Read(manifest) /\ ManifestFile \notin locked THEN Missing ELSE manifest
    /\ Then(TRUE, "unplug")
    /\ UNCHANGED <<disk, injected, binding, launcher, health, settings, spoiled,
                   backups, alive, plan, todo, written>>

\* opencode.json stays, without the entry of the plugin.
Unplug(whole) ==
    /\ stage = "unplug"
    /\ IF Read(settings) /\ settings.plugin /\ SettingsFile \in locked
       THEN whole /\ Fails /\ UNCHANGED settings
       ELSE /\ IF Read(settings) /\ settings.plugin
               THEN settings' = IF whole THEN [settings EXCEPT !.plugin = FALSE] ELSE Torn
               ELSE whole /\ UNCHANGED settings
            /\ Then(whole, "idle")
    /\ UNCHANGED <<disk, injected, binding, launcher, health, spoiled, manifest,
                   backups, alive, plan, todo, written>>

-----------------------------------------------------------------------------
(* The user, while no installer runs. *)

Edits ==
    /\ stage = "idle" /\ tally.edits < MaxEdits
    /\ tally' = [tally EXCEPT !.edits = @ + 1]
    /\ result' = "none"
    /\ UNCHANGED <<launcher, health, spoiled, manifest, backups, plan, stage, todo, written>>

EditFile(f) ==
    /\ Edits
    /\ \E content \in {User, Missing} \cup (IF f \in Rails THEN {Marked} ELSE {}) :
          content # disk[f] /\ disk' = [disk EXCEPT ![f] = content]
    /\ UNCHANGED <<injected, binding, settings, alive>>

EditConfig ==
    /\ Edits
    /\ \/ binding' \in {User, NoKey} /\ UNCHANGED <<settings, alive>>
       \/ settings' \in {Torn, [own |-> TRUE, plugin |-> FALSE]} /\ UNCHANGED <<binding, alive>>
       \/ \E i \in alive : alive' = alive \ {i} /\ UNCHANGED <<binding, settings>>
    /\ UNCHANGED <<disk, injected>>

InstallNext ==
    \/ \E j \in Jobs : StartJob(j)
    \/ \E whole \in BOOLEAN :
          \/ WriteBinding(whole) \/ WriteLauncher(whole) \/ Copy(whole)
          \/ EnsureSettings(whole) \/ InjectRail(whole) \/ WriteManifest(whole) \/ Unplug(whole)
    \/ WriteHealth \/ EnforceHygiene
    \/ DeleteTarget \/ PurgeCommands \/ PurgePayload \/ DropManifest
    \/ Stop
    \/ \E f \in Files : EditFile(f)
    \/ EditConfig

-----------------------------------------------------------------------------
(* Properties. *)

Completed(verb) == stage = "idle" /\ result # "none" /\ job.verb = verb

\* An installation that ends with "Installation complete!" is one whatever the
\* jobs and stops before it left behind: every file of the release is there, and
\* is the release's if forced; commands/ holds the rails, none with a placeholder,
\* and nothing else; the manifest names only files of this release, all of them
\* if forced; the wrappers, PYTHON_BINDING and governance.paths.json name one
\* interpreter, which exists; and opencode.json loads the plugin.
CompletedIsWhole ==
    Completed("install") =>
        /\ \A f \in Shipped[job.release] :
              disk[f] # Missing /\ (job.force => disk[f] = job.release /\ f \in manifest.files)
        /\ \A f \in Extras : disk[f] = Missing
        /\ \A f \in Rails : ~Placeholder(f)
        /\ \A f \in manifest.files \ {BindingFile} : disk[f] = job.release
        /\ launcher["bin/PYTHON_BINDING"] = launcher["bin/wrapper"] /\ launcher["bin/wrapper"] \in alive
        /\ binding \in Interpreters => binding = launcher["bin/wrapper"]
        /\ settings.plugin

\* What an uninstall that runs to its end leaves of the program is a file that
\* could not be deleted, and then its exit code says so: a file this release
\* ships, one the manifest listed before it was dropped, a launcher, the report,
\* the binding when it was to go, or any other in the places that are cleared as
\* a whole.  Only of the manifest itself the exit code does not tell; it is there
\* to be read, and the next uninstall to find, only if it could not be deleted.
UninstallTakesAll ==
    LET gone(files) == \A f \in files : Present(f) => f \in locked /\ result = "errors"
    IN /\ stage = "forget" /\ Read(manifest) => gone(manifest.files)
       /\ Completed("uninstall") =>
            /\ gone(Rails \cup Extras \cup Payload \cup KnownTargets(job))
            /\ Read(manifest) => ManifestFile \in locked
            /\ Read(settings) => ~settings.plugin

\* The installer replaces a file of the user's under the configuration root only
\* when forced, and leaves a copy of it unless told not to; the one exception is a
\* rail with something in it that the injection replaces, which is written anew in
\* any case and lost if that is stopped.  Copies stay, but for those of an earlier
\* job of the same second.  The user's keys in opencode.json are lost in a stopped
\* write alone.
UserFilesAreKept ==
    [][LET lost(f) == IF f = BindingFile THEN binding = User /\ binding' # User
                      ELSE disk[f] \in UserTexts /\ disk'[f] # disk[f]
           saved(f) == \E b \in backups' : b.job = tally.jobs /\ b.at = <<"config", f>>
           filledIn(f) == /\ stage = "inject" /\ f \in Rails /\ disk[f] = Marked
                          /\ disk'[f] = Changed \/ (disk'[f] = Torn /\ stage' = "idle" /\ result' = "none")
       IN /\ \A f \in Rails \cup Plugins \cup {BindingFile} :
                lost(f) /\ stage \in InstallStages =>
                    filledIn(f) \/ (job.force /\ (job.backup => saved(f)))
          /\ \A b \in backups :
                b.at[1] = "config" /\ (b.time # clock \/ b.job = tally.jobs) => b \in backups'
          /\ Read(settings) /\ settings.own /\ stage # "idle" =>
                \/ Read(settings') /\ settings'.own
                \/ stage' = "idle" /\ result' = "none"]_ivars

ISpec == InstallInit /\ [][InstallNext]_ivars
=============================================================================
