------------------------------ MODULE Settings ------------------------------
(***************************************************************************)
(* The settings of the tray applications: the file config.json, the        *)
(* dictionary _config, the settings windows, the menu entry that shows the *)
(* address, and the restarts that make the proxy use what was saved.       *)
(*                                                                         *)
(* Windows and Linux ("tk") run every window in one Tk thread, which       *)
(* serves the other windows only while a message box is open; macOS        *)
(* ("mac") runs each settings dialog in a thread of its own.  The threads  *)
(* of "restart" and of the dialogs restart the proxy; how the proxy itself *)
(* starts and stops is TrayLifecycle's matter, here it is off or uses the  *)
(* settings it was started with; once restarts have met, or one has not    *)
(* waited for the end of the old run, anything may have become of it.  The *)
(* process can be killed at any moment, which is also how it ends three    *)
(* seconds after "exit", and the user may edit the file by hand.           *)
(*                                                                         *)
(* A configuration has one key of each sort: "net" for what the proxy uses *)
(* and every form shows, "look" for the appearance, "updates" for          *)
(* check_updates and "hidden" for the keys that are in no form.  A key     *)
(* that is missing in the file counts as its default, but for "look",      *)
(* which has none.                                                         *)
(***************************************************************************)
EXTENDS Naturals, Sequences, FiniteSets

CONSTANTS
    Oses,       \* {"tk", "mac"}: the applications to look at
    Values,     \* the values of a setting
    Bad,        \* values of "net" that apply_proxy_config rejects
    Unset,      \* a key that is missing
    Default,    \* the value in DEFAULT_CONFIG
    Torn,       \* a file that cannot be parsed
    Off,        \* the proxy does not run
    Files,      \* the configuration files there may be at first
    Dialogs,    \* settings windows at a time (bound)
    Restarts,   \* threads of the "restart" entry at a time (bound)
    MaxEdits,   \* changes made in a window (bound)
    MaxUses,    \* uses of the menu and edits of the file by hand (bound)
    MaxKills    \* ends of the process (bound)

Keys == {"net", "look", "updates", "hidden"}
Nets == Values \cup Bad
ValuesOf(k) == IF k = "net" THEN Nets ELSE IF k = "look" THEN Values \cup {Unset} ELSE Values
Config == {c \in [Keys -> Nets \cup {Unset}] : \A k \in Keys : c[k] \in ValuesOf(k)}
DefaultConfig == [k \in Keys |-> IF k = "look" THEN Unset ELSE Default]

ASSUME SettingsAssumption ==
    /\ Oses \subseteq {"tk", "mac"}
    /\ Default \in Values
    /\ \A v \in Values : \E w \in Values : w # v
    /\ Unset \notin Nets /\ Off \notin Nets /\ Torn \notin Config
    /\ Bad \cap Values = {}
    /\ Files \subseteq Config \cup {Torn}
    /\ {"toggle", "boot"} \cap Dialogs = {} /\ Dialogs \cap Restarts = {}
    /\ MaxEdits \in Nat /\ MaxUses \in Nat /\ MaxKills \in Nat

VARIABLES
    os,        \* which application this is
    app,       \* where its main thread is
    file,      \* config.json
    mem,       \* _config
    running,   \* what the proxy was started with
    menu,      \* the address the menu shows: host and port
    seen,      \* what a thread that is about to set the menu has read for it
    dialog,    \* the settings windows
    restart,   \* the threads of the "restart" entry
    toggle,    \* the "check for updates" entry
    saving,    \* who has the file open for writing
    dirty,     \* of those: whose file another one has written meanwhile
    count,     \* uses of the menu, edits by hand and kills
    overlap, clash, edited, declined, crossed, raced, promised
               \* (for the properties:) two windows were open at a time; two
               \* threads were in the middle of a save or a load; the file was
               \* edited; a restart was declined since the proxy was started;
               \* the address changed while another thread was setting the menu;
               \* two restarts met or one did not wait for the end of the old
               \* run; the settings of which one has to survive the last kill

history == <<overlap, clash, edited, declined, crossed, raced, promised>>
ui == <<dialog, restart, toggle>>
shown == <<menu, seen>>
disk == <<file, saving, dirty>>
vars == <<os, app, disk, mem, running, shown, ui, count, history>>

-----------------------------------------------------------------------------
\* A window is closed, shows its form, has the file open, has written it, has
\* published the settings, asks for a restart, or its thread stops and starts
\* the proxy.  `snap` is the configuration it was opened with.
DialogRec == [pc : {"closed", "edit", "write", "publish", "menu", "ask", "stop", "start"},
              snap : Config, form : Config, edits : 0..MaxEdits]

\* A thread of the "restart" entry has loaded cfg (macOS), has put it in the
\* place of _config, is about to stop the proxy or to start it.
RestartRec == [pc : {"idle", "assign", "menu", "stop", "start"}, cfg : Config]

ToggleRec == [pc : {"idle", "open", "write"}, cfg : Config]

Writers == Dialogs \cup {"toggle", "boot"}

TypeOK ==
    /\ os \in Oses
    /\ app \in {"off", "open", "write", "start", "up"}
    /\ file \in Config \cup {Torn}
    /\ mem \in Config
    /\ running \in Nets \cup {Off}
    /\ menu \in Seq(Nets)
    /\ seen \in [Dialogs \cup Restarts -> Seq(Nets)]
    /\ dialog \in [Dialogs -> DialogRec]
    /\ restart \in [Restarts -> RestartRec]
    /\ toggle \in ToggleRec
    /\ saving \subseteq Writers
    /\ dirty \subseteq saving
    /\ count \in [uses : 0..MaxUses, kills : 0..MaxKills]
    /\ overlap \in BOOLEAN /\ clash \in BOOLEAN /\ edited \in BOOLEAN
    /\ declined \in BOOLEAN /\ crossed \in BOOLEAN /\ raced \in BOOLEAN
    /\ promised \subseteq Config

Closed == [pc |-> "closed", snap |-> DefaultConfig, form |-> DefaultConfig, edits |-> 0]

NoToggle == [pc |-> "idle", cfg |-> DefaultConfig]
NoRestart == [pc |-> "idle", cfg |-> DefaultConfig]
NothingSeen == [t \in Dialogs \cup Restarts |-> <<>>]
Address(net) == <<net, net>>

Init ==
    /\ os \in Oses
    /\ file \in Files
    /\ app = "off"
    /\ mem = DefaultConfig
    /\ running = Off
    /\ menu = Address(Default) /\ seen = NothingSeen
    /\ dialog = [d \in Dialogs |-> Closed]
    /\ restart = [r \in Restarts |-> NoRestart]
    /\ toggle = NoToggle
    /\ saving = {} /\ dirty = {}
    /\ overlap = FALSE /\ clash = FALSE /\ edited = FALSE
    /\ declined = FALSE /\ crossed = FALSE /\ raced = FALSE /\ promised = {}
    /\ count = [uses |-> 0, kills |-> 0]

Use == count.uses < MaxUses /\ count' = [count EXCEPT !.uses = @ + 1]

-----------------------------------------------------------------------------
(* load_config and save_config, and what a window saves.                   *)

Loaded == IF file = Torn THEN DefaultConfig ELSE file

\* open(CONFIG_FILE, "w") empties the file ...
OpenFile(w) ==
    /\ file' = Torn
    /\ saving' = saving \cup {w}
    /\ dirty' = dirty

\* ... and closing it writes what json.dump() has put into the buffer.  Over
\* what another one has written meanwhile, the longer text sticks out.
WriteFile(w, cfg) ==
    /\ file' \in IF w \in dirty THEN {cfg, Torn} ELSE {cfg}
    /\ saving' = saving \ {w}
    /\ dirty' = (dirty \cup saving) \ {w}

\* What the form shows and gives back; macOS takes check_updates over from the
\* configuration it has loaded and drops the other keys.
FormKeys == IF os = "tk" THEN {"net", "look", "updates"} ELSE {"net"}
SavedKeys == FormKeys \cup {"updates"}

Merged(d) == [k \in Keys |-> IF k \in SavedKeys THEN dialog[d].form[k] ELSE DefaultConfig[k]]

-----------------------------------------------------------------------------
(* The process: run_tray and run_menubar up to the event loop of the menu. *)

Up == app = "up"

Boot ==
    /\ app = "off"
    /\ app' = "open"
    /\ mem' = Loaded
    /\ UNCHANGED <<os, disk, running, shown, ui, count, history>>

\* bootstrap() saves what was loaded, defaults included.
BootOpen ==
    /\ app = "open"
    /\ app' = "write"
    /\ OpenFile("boot")
    /\ promised' = {}
    /\ UNCHANGED <<os, mem, running, shown, ui, count>>
    /\ UNCHANGED <<overlap, clash, edited, declined, crossed, raced>>

BootWrite ==
    /\ app = "write"
    /\ app' = "start"
    /\ WriteFile("boot", mem)
    /\ UNCHANGED <<os, mem, running, shown, ui, count, history>>

\* start_proxy does not start what apply_proxy_config rejects.
Started == IF mem["net"] \in Bad THEN Off ELSE mem["net"]

BootStart ==
    /\ app = "start"
    /\ app' = "up"
    /\ running' = Started
    /\ menu' = Address(mem["net"])
    /\ UNCHANGED <<os, disk, mem, seen, ui, count, history>>

\* What the user has come to rely on: the settings of the application, or those
\* that one in the middle of a save is about to publish; the "updates" entry
\* publishes first.
Relied ==
    {Merged(d) : d \in {e \in Dialogs : dialog[e].pc = "publish"}}
    \cup IF toggle.pc = "open" THEN {[mem EXCEPT !["updates"] = v] : v \in Values} ELSE {mem}

\* The tray was told to exit (twice, or three seconds ago), or it crashes:
\* nothing is left but the file, as it is.
Kill ==
    /\ app # "off"
    /\ count.kills < MaxKills
    /\ count' = [count EXCEPT !.kills = @ + 1]
    /\ app' = "off"
    /\ mem' = DefaultConfig
    /\ running' = Off
    /\ menu' = Address(Default) /\ seen' = NothingSeen
    /\ dialog' = [d \in Dialogs |-> Closed]
    /\ restart' = [r \in Restarts |-> NoRestart]
    /\ toggle' = NoToggle
    /\ saving' = {} /\ dirty' = {}
    /\ overlap' = FALSE /\ clash' = FALSE /\ edited' = FALSE
    /\ declined' = FALSE /\ crossed' = FALSE /\ raced' = FALSE
    /\ promised' = IF saving # {} \/ clash \/ edited THEN {} ELSE Relied
    /\ UNCHANGED <<os, file>>

\* The user edits config.json, whether the program runs or not.
EditByHand ==
    /\ file # Torn
    /\ Use
    /\ \E v \in Nets \ {file["net"]} : file' = [file EXCEPT !["net"] = v]
    /\ edited' = (app # "off")
    /\ promised' = {}
    /\ UNCHANGED <<os, app, saving, dirty, mem, running, shown, ui>>
    /\ UNCHANGED <<overlap, clash, edited, declined, crossed, raced>>

-----------------------------------------------------------------------------
(* The settings windows.                                                   *)

Go(d, pc) == dialog' = [dialog EXCEPT ![d].pc = pc]
Close(d) == dialog' = [dialog EXCEPT ![d] = Closed]
\* The form is not looked at any more.
Done(d, pc) == dialog' = [dialog EXCEPT ![d] = [Closed EXCEPT !.pc = pc]]

\* The Tk thread runs a handler of one of its windows.
UiBusy == os = "tk" /\ \E d \in Dialogs : dialog[d].pc \in {"write", "publish", "menu"}

\* Somebody has begun to change the settings and is not done.
Midway ==
    \/ toggle.pc # "idle"
    \/ \E d \in Dialogs : dialog[d].pc \in {"write", "publish"}
    \/ \E r \in Restarts : restart[r].pc = "assign"

\* Who is setting the menu; who stops and starts the proxy.
Showing == {d \in Dialogs : dialog[d].pc = "menu"} \cup {r \in Restarts : restart[r].pc = "menu"}

Restarting ==
    \/ \E d \in Dialogs : dialog[d].pc \in {"stop", "start"}
    \/ \E r \in Restarts : restart[r].pc \in {"stop", "start"}

Shown(d) == dialog[d].pc \in {"edit", "write", "publish", "menu", "ask"}

\* Windows and Linux take the snapshot in the thread of the menu entry; a form
\* without an appearance shows the default one.
Open(d) ==
    LET cfg == IF os = "tk" THEN mem ELSE Loaded
        form == [cfg EXCEPT !["look"] = IF @ = Unset THEN Default ELSE @]
    IN /\ Up
       /\ dialog[d].pc = "closed"
       /\ Use
       /\ dialog' = [dialog EXCEPT ![d] = [pc |-> "edit", snap |-> cfg, form |-> form, edits |-> 0]]
       /\ overlap' = (overlap \/ \E e \in Dialogs : Shown(e))
       /\ UNCHANGED <<os, app, disk, mem, running, shown, restart, toggle>>
       /\ UNCHANGED <<clash, edited, declined, crossed, raced, promised>>

\* A new appearance is put into the snapshot, too (_on_appearance_change).
Filled(d, k, v) ==
    [dialog[d] EXCEPT !.form[k] = v, !.edits = @ + 1,
                      !.snap["look"] = IF k = "look" THEN v ELSE @]

Edit(d) ==
    /\ dialog[d].pc = "edit"
    /\ dialog[d].edits < MaxEdits
    /\ ~UiBusy
    /\ \E k \in FormKeys, v \in Nets :
         /\ v \in ValuesOf(k) \ {dialog[d].form[k]}
         /\ dialog' = [dialog EXCEPT ![d] = Filled(d, k, v)]
    /\ UNCHANGED <<os, app, disk, mem, running, shown, restart, toggle, count, history>>

Cancel(d) ==
    /\ dialog[d].pc = "edit"
    /\ ~UiBusy
    /\ Close(d)
    /\ UNCHANGED <<os, app, disk, mem, running, shown, restart, toggle, count, history>>

\* validate_config_form() and the checks of the dialogs.
Valid(d) == dialog[d].form["net"] \notin Bad

Changed(d) == \E k \in FormKeys : dialog[d].form[k] # dialog[d].snap[k]
NetChanged(d) == dialog[d].form["net"] # dialog[d].snap["net"]

\* Windows and Linux save only what differs from the snapshot.
SaveNothing(d) ==
    /\ dialog[d].pc = "edit"
    /\ ~UiBusy
    /\ os = "tk"
    /\ Valid(d)
    /\ ~Changed(d)
    /\ Close(d)
    /\ UNCHANGED <<os, app, disk, mem, running, shown, restart, toggle, count, history>>

Save(d) ==
    /\ dialog[d].pc = "edit"
    /\ ~UiBusy
    /\ Valid(d)
    /\ os = "tk" => Changed(d)
    /\ OpenFile(d)
    /\ Go(d, "write")
    /\ clash' = (clash \/ Midway)
    /\ UNCHANGED <<os, app, mem, running, shown, restart, toggle, count>>
    /\ UNCHANGED <<overlap, edited, declined, crossed, raced, promised>>

Write(d) ==
    /\ dialog[d].pc = "write"
    /\ WriteFile(d, Merged(d))
    /\ Go(d, "publish")
    /\ UNCHANGED <<os, app, mem, running, shown, restart, toggle, count, history>>

\* _config.update(merged) keeps the keys that are in no form; macOS puts the
\* new dictionary in the place of the old one.
\* (Publish_Snapshot, a mutant: what the window was opened with stays.)
Publish_Snapshot(d) ==
    /\ dialog[d].pc = "publish"
    /\ mem' = dialog[d].snap
    /\ crossed' = (Showing # {})
    /\ Go(d, "menu")
    /\ UNCHANGED <<os, app, disk, running, shown, restart, toggle, count>>
    /\ UNCHANGED <<overlap, clash, edited, declined, raced, promised>>

Publish(d) ==
    /\ dialog[d].pc = "publish"
    /\ mem' = [k \in Keys |-> IF os = "tk" /\ k \notin SavedKeys THEN mem[k] ELSE Merged(d)[k]]
    /\ crossed' = (Showing # {})
    /\ Go(d, "menu")
    /\ UNCHANGED <<os, app, disk, running, shown, restart, toggle, count>>
    /\ UNCHANGED <<overlap, clash, edited, declined, raced, promised>>

\* _build_menu() and update_menu_title() read the host, then the port, ...
\* (ReadAddress_Snapshot, a mutant: of what the window was opened with.)
ReadAddress_Snapshot(t) ==
    /\ t \in Showing
    /\ Len(seen[t]) < 2
    /\ LET cfg == IF t \in Dialogs THEN dialog[t].snap ELSE mem
       IN seen' = [seen EXCEPT ![t] = Append(@, cfg["net"])]
    /\ UNCHANGED <<os, app, disk, mem, running, menu, ui, count, history>>

ReadAddress(t) ==
    /\ t \in Showing
    /\ Len(seen[t]) < 2
    /\ seen' = [seen EXCEPT ![t] = Append(@, mem["net"])]
    /\ UNCHANGED <<os, app, disk, mem, running, menu, ui, count, history>>

\* ... look up the host to put into the link and set the entry at last.
SetMenu(t) ==
    /\ Len(seen[t]) = 2
    /\ menu' = seen[t]
    /\ seen' = [seen EXCEPT ![t] = <<>>]

\* Only a change that concerns the proxy makes Windows and Linux ask for a
\* restart.  (ShowMenu_Early, a mutant: nobody asks.)
ShowMenu_Early(d) ==
    /\ dialog[d].pc = "menu"
    /\ SetMenu(d)
    /\ Close(d)
    /\ UNCHANGED <<os, app, disk, mem, running, restart, toggle, count, history>>

ShowMenu(d) ==
    /\ dialog[d].pc = "menu"
    /\ SetMenu(d)
    /\ IF os = "tk" /\ ~NetChanged(d) THEN Close(d) ELSE Done(d, "ask")
    /\ UNCHANGED <<os, app, disk, mem, running, restart, toggle, count, history>>

Answer(d) ==
    /\ dialog[d].pc = "ask"
    /\ ~UiBusy
    /\ \/ Go(d, "stop") /\ raced' = (raced \/ Restarting) /\ declined' = declined
       \/ Close(d) /\ declined' = TRUE /\ raced' = raced
    /\ UNCHANGED <<os, app, disk, mem, running, shown, restart, toggle, count>>
    /\ UNCHANGED <<overlap, clash, edited, crossed, promised>>

-----------------------------------------------------------------------------
(* Restarts.                                                               *)

\* The stop is over when the old run is, or when the wait for it times out.
Stop ==
    /\ \/ running' = Off /\ raced' = raced
       \/ running' \in {running, Off} /\ raced' = TRUE
    /\ UNCHANGED <<overlap, clash, edited, declined, crossed, promised>>

\* start_proxy does nothing when the proxy runs, somebody else has started it,
\* or when the configuration is rejected.
Start ==
    /\ running' \in {IF running = Off THEN Started ELSE running}
                    \cup IF raced THEN {running, Off} ELSE {}
    /\ declined' = (declined /\ running # Off)
    /\ UNCHANGED <<overlap, clash, edited, crossed, raced, promised>>

\* A run that was told to stop ends after all, or the one whose port is taken.
LateEnd ==
    /\ raced
    /\ running # Off
    /\ running' = Off
    /\ UNCHANGED <<os, app, disk, mem, shown, ui, count, history>>

DialogStop(d) ==
    /\ dialog[d].pc = "stop"
    /\ Stop
    /\ Go(d, "start")
    /\ UNCHANGED <<os, app, disk, mem, shown, restart, toggle, count>>

DialogStart(d) ==
    /\ dialog[d].pc = "start"
    /\ Start
    /\ Close(d)
    /\ UNCHANGED <<os, app, disk, mem, shown, restart, toggle, count>>

RestartGo(r, pc) == restart' = [restart EXCEPT ![r].pc = pc]

\* The menu entry: macOS loads the file first ...
Restart(r) ==
    /\ Up
    /\ restart[r].pc = "idle"
    /\ Use
    /\ IF os = "tk"
       THEN /\ RestartGo(r, "stop")
            /\ raced' = (raced \/ Restarting)
            /\ clash' = clash
       ELSE /\ restart' = [restart EXCEPT ![r] = [pc |-> "assign", cfg |-> Loaded]]
            /\ clash' = (clash \/ Midway)
            /\ raced' = raced
    /\ UNCHANGED <<os, app, disk, mem, running, shown, dialog, toggle>>
    /\ UNCHANGED <<overlap, edited, declined, crossed, promised>>

\* ... and puts it in the place of _config.
RestartAssign(r) ==
    /\ restart[r].pc = "assign"
    /\ mem' = restart[r].cfg
    /\ crossed' = (Showing # {})
    /\ restart' = [restart EXCEPT ![r] = [NoRestart EXCEPT !.pc = "menu"]]
    /\ UNCHANGED <<os, app, disk, running, shown, dialog, toggle, count>>
    /\ UNCHANGED <<overlap, clash, edited, declined, raced, promised>>

RestartMenu(r) ==
    /\ restart[r].pc = "menu"
    /\ SetMenu(r)
    /\ RestartGo(r, "stop")
    /\ raced' = (raced \/ Restarting)
    /\ UNCHANGED <<os, app, disk, mem, running, dialog, toggle, count>>
    /\ UNCHANGED <<overlap, clash, edited, declined, crossed, promised>>

RestartStop(r) ==
    /\ restart[r].pc = "stop"
    /\ Stop
    /\ RestartGo(r, "start")
    /\ UNCHANGED <<os, app, disk, mem, shown, dialog, toggle, count>>

\* (RestartStart_Forgotten, a mutant: the proxy is not started again.)
RestartStart_Forgotten(r) ==
    /\ restart[r].pc = "start"
    /\ RestartGo(r, "idle")
    /\ UNCHANGED <<os, app, disk, mem, running, shown, dialog, toggle, count, history>>

RestartStart(r) ==
    /\ restart[r].pc = "start"
    /\ Start
    /\ RestartGo(r, "idle")
    /\ UNCHANGED <<os, app, disk, mem, shown, dialog, toggle, count>>

-----------------------------------------------------------------------------
(* The "check for updates" entry of macOS, in the main thread.             *)

OtherValue(v) == CHOOSE w \in Values : w # v

Toggle ==
    /\ Up
    /\ os = "mac"
    /\ toggle.pc = "idle"
    /\ Use
    /\ mem' = [mem EXCEPT !["updates"] = OtherValue(@)]
    /\ toggle' = [pc |-> "open", cfg |-> mem']
    /\ clash' = (clash \/ Midway)
    /\ UNCHANGED <<os, app, disk, running, shown, dialog, restart>>
    /\ UNCHANGED <<overlap, edited, declined, crossed, raced, promised>>

ToggleOpen ==
    /\ toggle.pc = "open"
    /\ OpenFile("toggle")
    /\ toggle' = [toggle EXCEPT !.pc = "write"]
    /\ UNCHANGED <<os, app, mem, running, shown, dialog, restart, count, history>>

ToggleWrite ==
    /\ toggle.pc = "write"
    /\ WriteFile("toggle", toggle.cfg)
    /\ toggle' = [toggle EXCEPT !.pc = "idle"]
    /\ UNCHANGED <<os, app, mem, running, shown, dialog, restart, count, history>>

-----------------------------------------------------------------------------
BootStep == Boot \/ BootOpen \/ BootWrite \/ BootStart

DialogStep(d) ==
    \/ Write(d) \/ Publish(d) \/ ReadAddress(d) \/ ShowMenu(d)
    \/ DialogStop(d) \/ DialogStart(d)

User(d) == Open(d) \/ Edit(d) \/ Cancel(d) \/ SaveNothing(d) \/ Save(d) \/ Answer(d)

RestartStep(r) ==
    \/ RestartAssign(r) \/ ReadAddress(r) \/ RestartMenu(r)
    \/ RestartStop(r) \/ RestartStart(r)

Next ==
    \/ BootStep \/ Kill \/ EditByHand \/ LateEnd
    \/ \E d \in Dialogs : User(d) \/ DialogStep(d)
    \/ \E r \in Restarts : Restart(r) \/ RestartStep(r)
    \/ Toggle \/ ToggleOpen \/ ToggleWrite

Spec == Init /\ [][Next]_vars

\* Threads run; the user owes nothing but to start the program again.
Fairness ==
    /\ WF_vars(BootOpen \/ BootWrite \/ BootStart)
    /\ \A d \in Dialogs : WF_vars(DialogStep(d))
    /\ \A r \in Restarts : WF_vars(RestartStep(r))
    /\ WF_vars(ToggleOpen \/ ToggleWrite)

FairSpec == Spec /\ Fairness

-----------------------------------------------------------------------------
Quiet ==
    /\ Up
    /\ \A d \in Dialogs : dialog[d].pc \in {"closed", "edit"}
    /\ \A r \in Restarts : restart[r].pc = "idle"

\* When nothing is under way the menu shows the address that is in the
\* settings, host and port of the same ones, whoever changed them: dialogs,
\* restarts that load the file, or both.  On macOS, where each has a thread of
\* its own, a change that comes while another thread is on its way from reading
\* the address to setting the entry may leave the older address there.
MenuShowsSettings ==
    Quiet /\ (os = "mac" => ~crossed) => menu = Address(mem["net"])

\* When nothing is under way and no restart was declined, the proxy uses the
\* settings the application shows, or is off if they are rejected, unless
\* restarts raced.  (Two settings windows open at a time do break this on
\* Windows and Linux: the second one puts its old values back and finds nothing
\* to restart for.)
RunningIsCurrent ==
    Quiet /\ ~declined /\ ~raced /\ (os = "tk" => ~overlap) => running = Started

\* A kill at any moment but one in which the file is open for writing loses no
\* settings: the next start finds those the application had, or those a window
\* was about to publish, unless the file was edited or two threads met in it.
\* (A kill while a single save has the file open does leave the defaults.)
SettingsSurvive ==
    app = "open" /\ promised # {} =>
        \E c \in promised : \A k \in SavedKeys : mem[k] = c[k]

\* A proxy that was stopped for a restart runs again, unless its configuration
\* is rejected or restarts raced.
ProxyComesBack ==
    Restarting /\ running = Off ~> running # Off \/ mem["net"] \in Bad \/ raced \/ ~Up
=============================================================================
