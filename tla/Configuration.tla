--------------------------- MODULE Configuration ----------------------------
(***************************************************************************)
(* config.toml, the window's form and the server that was started from     *)
(* them (cheshire-server-core/src/config.rs, the form of                   *)
(* cheshire-server-app/src/config_editor.rs, the callbacks of main.rs, and *)
(* the command line's main()).  The window and the command line are two    *)
(* processes that may run side by side.  The file is overwritten in place: *)
(* a write may fail or be cut off by the end of the process, and anybody   *)
(* may edit or delete it at any time.                                      *)
(*                                                                         *)
(* The form's fields are three groups: `settings` stands for those that    *)
(* are an entry of the file each, `version` for the hashes, of which the   *)
(* file has one more, and `server` for the one dispatch server the form    *)
(* knows, whose remaining entries are filled in automatically.  White      *)
(* space around a text, which the form drops, is left out.  So are a       *)
(* second window, and a read or write in the middle of another's write.    *)
(***************************************************************************)
EXTENDS Naturals, Sequences

CONSTANTS
    Value,      \* texts the form accepts for a setting or a server
    Default,    \* the one in DEFAULT_CONFIG
    NVersions,  \* number of hashes in the form (nine)
    Unusable,   \* a text the form rejects, though a file may have it
    None,       \* no such file, server or configuration
    Torn,       \* a file that does not parse
    Other       \* a configuration that is no longer of interest

ASSUME DefaultAssumption == Default \in Value
ASSUME VersionAssumption == NVersions \in Nat \ {0}

VARIABLES
    file,       \* config.toml
    process,    \* of each Main: "none", "creating" a missing file, or "open"
    form,       \* the window's fields
    shown,      \* server-running of the window
    running,    \* the configuration of the server of each Main, or Other once
                \* somebody else has changed the file since that server's start
    saved,      \* history: what the window saved, if the file is still that
    edited      \* history: the form was edited since it was shown or saved

vars == <<file, process, form, shown, running, saved, edited>>

Main == {"window", "cli"}

Text    == Value \cup {Unusable}
Hash    == {"hash", "dTag", "blank"}    \* a hash, one spelt dTag-..., none
Servers == [entry : Text, automatic : BOOLEAN]
Form    == [settings : Text, version : [1..NVersions -> Hash], server : Text]

Config ==
    [settings : Text, version : UNION {[1..n -> Hash] : n \in NVersions-1..NVersions+2},
     servers : UNION {[1..n -> Servers] : n \in 0..2}]

ASSUME NoFileAssumption ==
    {None, Torn, Other} \cap Config = {} /\ None # Other

File(settings, version, servers) ==
    [settings |-> settings, version |-> version, servers |-> servers]

Hashes(n) == [i \in 1..n |-> "hash"]

DefaultConfig ==
    File(Default, Append(Hashes(NVersions), "dTag"),
         <<[entry |-> Default, automatic |-> TRUE]>>)

\* Files of other origin: unusable settings, a hash too few or too many, no
\* server, or servers the form would have written differently.
Foreign ==
    {File(s, v, d) :
        s \in Text,
        v \in {Append(Hashes(n), "dTag") : n \in NVersions-1..NVersions+1} \cup {Hashes(NVersions)},
        d \in {<<>>, <<[entry |-> Default, automatic |-> FALSE]>>,
               <<[entry |-> Default, automatic |-> TRUE], [entry |-> Default, automatic |-> FALSE]>>}}

BlankForm ==
    [settings |-> Unusable, version |-> [i \in 1..NVersions |-> "blank"], server |-> Unusable]

Init ==
    /\ file \in {None, DefaultConfig}
    /\ process = [m \in Main |-> "none"]
    /\ form = BlankForm
    /\ shown = FALSE
    /\ running = [m \in Main |-> None] /\ saved = None
    /\ edited = FALSE

-----------------------------------------------------------------------------
(* The form *)

\* One round of the filter in FormValues::from_config.
Keep(list, hash) == IF hash = "dTag" THEN list ELSE Append(list, hash)

\* Mutant of NotAutomatic: all entries count.
NotAutomaticAll(version) == version

\* The entries of the file that are not the automatic one, in their order.
NotAutomatic(version) ==
    LET kept[k \in 0..Len(version)] ==
            IF k = 0 THEN <<>> ELSE Keep(kept[k - 1], version[k])
    IN  kept[Len(version)]

\* FormValues::from_config refuses a configuration the form cannot show.
Showable(config) ==
    /\ Len(NotAutomatic(config.version)) = NVersions
    /\ config.servers # <<>>

Show(config) ==
    [settings |-> config.settings,
     version  |-> NotAutomatic(config.version),
     server   |-> Head(config.servers).entry]

\* FormValues::into_config refuses fields that are blank or do not parse.
Collectable(f) ==
    /\ f.settings # Unusable /\ f.server # Unusable
    /\ \A i \in 1..NVersions : f.version[i] # "blank"

Collect(f) ==
    File(f.settings, Append(f.version, "dTag"), <<[entry |-> f.server, automatic |-> TRUE]>>)

-----------------------------------------------------------------------------
(* Writing and reading the file *)

\* What fs::write leaves that did not get through: the old file, one that does
\* not parse, or, cut in its last lines, one without some automatic entries.
Broken(config) ==
    {file, Torn,
     [config EXCEPT !.servers = [i \in DOMAIN @ |-> [@[i] EXCEPT !.automatic = (i < Len(config.servers))]]]}

\* What the servers run once `who` has changed the file to content.
RunningAfter(who, content) ==
    [m \in Main |-> IF m = who \/ running[m] = None \/ content = file THEN running[m] ELSE Other]

\* A write that does not get through, or is not the window's save.
Overwritten(content) ==
    /\ file' = content
    /\ saved' = IF content = file THEN saved ELSE None

Changed(who, content) ==
    /\ Overwritten(content)
    /\ running' = RunningAfter(who, content)

\* load_or_create and load_initial_config: a missing file is created next, a
\* file that does not parse makes the window show defaults, as does one that
\* cannot be created, a file that cannot be shown leaves the fields blank.
Launch ==
    /\ process["window"] = "none"
    /\ process' = [process EXCEPT !["window"] = IF file = None THEN "creating" ELSE "open"]
    /\ form' = IF file \in {None, Torn} THEN Show(DefaultConfig)
               ELSE IF Showable(file) THEN Show(file) ELSE BlankForm
    /\ edited' = FALSE
    /\ UNCHANGED <<file, shown, running, saved>>

\* The command line: no form, and no server without a file that parses.
CliStart ==
    /\ process["cli"] = "none"
    /\ \/ /\ file = None
          /\ process' = [process EXCEPT !["cli"] = "creating"]
          /\ UNCHANGED running
       \/ /\ file \notin {None, Torn}
          /\ process' = [process EXCEPT !["cli"] = "open"]
          /\ running' = [running EXCEPT !["cli"] = file]
    /\ UNCHANGED <<file, form, shown, saved, edited>>

\* The rest of load_or_create, whatever has happened to the file since it was
\* not found.  The command line does not go on without a file.
Create ==
    /\ process["window"] = "creating"
    /\ \E left \in Broken(DefaultConfig) \cup {DefaultConfig} : Changed("window", left)
    /\ process' = [process EXCEPT !["window"] = "open"]
    /\ UNCHANGED <<form, shown, edited>>

CliCreate ==
    /\ process["cli"] = "creating"
    /\ \/ /\ Overwritten(DefaultConfig)
          /\ process' = [process EXCEPT !["cli"] = "open"]
          /\ running' = [RunningAfter("cli", DefaultConfig) EXCEPT !["cli"] = DefaultConfig]
       \/ /\ \E left \in Broken(DefaultConfig) : Changed("cli", left)
          /\ process' = [process EXCEPT !["cli"] = "none"]
    /\ UNCHANGED <<form, shown, edited>>

\* The fields stay editable while a server runs: what is disabled then is the
\* frame they scroll in, and the Save button.
Edit ==
    /\ process["window"] = "open"
    /\ \/ \E t \in Text : form' = [form EXCEPT !.settings = t]
       \/ \E t \in Text : form' = [form EXCEPT !.server = t]
       \/ \E i \in 1..NVersions, h \in Hash : form' = [form EXCEPT !.version[i] = h]
    /\ edited' = TRUE
    /\ UNCHANGED <<file, process, shown, running, saved>>

\* The Save and Start buttons get as far as Config::save.
Saving == process["window"] = "open" /\ ~shown /\ Collectable(form)

\* collect_and_save succeeds.
Saved ==
    /\ Saving
    /\ file' = Collect(form) /\ saved' = Collect(form)
    /\ edited' = FALSE

Save ==
    /\ Saved
    /\ running' = RunningAfter("window", Collect(form))
    /\ UNCHANGED <<process, form, shown>>

\* The write fails, and with it the callback; or the process dies in it (Exit).
SaveFails ==
    /\ Saving
    /\ \E left \in Broken(Collect(form)) : Changed("window", left)
    /\ UNCHANGED <<process, form, shown, edited>>

\* Mutant of Start: the server starts though the configuration was not saved.
StartAnyway ==
    /\ Saving
    /\ \E left \in Broken(Collect(form)) \cup {Collect(form)} :
          /\ Overwritten(left)
          /\ running' = [RunningAfter("window", left) EXCEPT !["window"] = Collect(form)]
    /\ shown' = TRUE /\ edited' = FALSE
    /\ UNCHANGED <<process, form>>

\* The Start button saves, then starts (see ServerController).
Start ==
    /\ Saved
    /\ running' = [RunningAfter("window", Collect(form)) EXCEPT !["window"] = Collect(form)]
    /\ shown' = TRUE
    /\ UNCHANGED <<process, form>>

\* A server ends, and with it the command line; the window shows it later.
ServerEnds(m) ==
    /\ running[m] # None
    /\ running' = [running EXCEPT ![m] = None]
    /\ process' = IF m = "cli" THEN [process EXCEPT ![m] = "none"] ELSE process
    /\ UNCHANGED <<file, form, shown, saved, edited>>

ShowStopped ==
    /\ shown /\ running["window"] = None
    /\ shown' = FALSE
    /\ UNCHANGED <<file, process, form, running, saved, edited>>

\* The window is closed, or the process ends wherever it is.
Exit(m) ==
    /\ process[m] # "none"
    /\ process' = [process EXCEPT ![m] = "none"]
    /\ running' = [running EXCEPT ![m] = None]
    /\ IF m = "window" THEN form' = BlankForm /\ shown' = FALSE ELSE UNCHANGED <<form, shown>>
    /\ UNCHANGED <<file, saved, edited>>

\* Somebody edits or deletes the file.
EditFile ==
    /\ \E f \in Foreign \cup {None, Torn} : Changed("editor", f)
    /\ UNCHANGED <<process, form, shown, edited>>

Next ==
    \/ Launch \/ Create \/ Edit \/ Save \/ SaveFails \/ Start \/ ShowStopped
    \/ CliStart \/ CliCreate \/ EditFile
    \/ \E m \in Main : ServerEnds(m) \/ Exit(m)

Spec == Init /\ [][Next]_vars

-----------------------------------------------------------------------------
(* Properties *)

TypeOK ==
    /\ file \in Config \cup {None, Torn}
    /\ process \in [Main -> {"none", "creating", "open"}]
    /\ form \in Form
    /\ shown \in BOOLEAN /\ edited \in BOOLEAN
    /\ running \in [Main -> Config \cup {None, Other}]
    /\ saved \in Config \cup {None}

\* Whoever starts it, a running server has the configuration that is in the
\* file, until somebody else changes that: an editor, or the other process.  A
\* save that failed starts nothing, and the window does not save while its own
\* server runs.  To start the server again is to start the same server.
RunningIsSaved == \A m \in Main : running[m] \notin {None, Other} => file = running[m]

\* What the window saved it shows again after any number of restarts, and saves
\* as the same configuration.  A hash that starts with dTag- is the exception:
\* from_config takes it for the automatic entry and refuses the file.
SavedIsShown ==
    /\ saved # None => file = saved
    /\ /\ saved # None /\ process["window"] = "open" /\ ~edited
       /\ \A i \in 1..NVersions : saved.version[i] = "hash"
       => Collectable(form) /\ Collect(form) = saved

=============================================================================
