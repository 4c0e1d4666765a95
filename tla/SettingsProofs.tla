--------------------------- MODULE SettingsProofs ---------------------------
(***************************************************************************)
(* Proofs about the settings, for any number of windows and restart        *)
(* threads, any settings and any file there may be at first: the menu      *)
(* shows what is in the settings, the proxy uses it, and a kill leaves it  *)
(* in the file, under the conditions that the properties name.             *)
(***************************************************************************)
EXTENDS Settings, TLAPS

\* While the menu is not up there are no windows and no threads.
NothingOpen ==
    ~Up => /\ \A d \in Dialogs : dialog[d].pc = "closed"
           /\ \A r \in Restarts : restart[r].pc = "idle"
           /\ toggle.pc = "idle"

\* Who has the file open for writing.
SavingKnown ==
    /\ "boot" \in saving <=> app = "write"
    /\ "toggle" \in saving <=> toggle.pc = "write"
    /\ \A d \in Dialogs : d \in saving <=> dialog[d].pc = "write"

\* The menu is right, or somebody is about to set it; whoever is has read
\* nothing but the settings there are.
SeenInv == \A t \in (Dialogs \cup Restarts) \ Showing : seen[t] = <<>>

SawCurrent(t) == \A i \in 1..Len(seen[t]) : seen[t][i] = mem["net"]

MenuInv ==
    Up /\ ~crossed =>
        /\ menu = Address(mem["net"]) \/ Showing # {}
        /\ \A t \in Showing : SawCurrent(t)

\* Only a restart that follows makes up for a proxy that uses other settings:
\* a window that is about to ask for it or a thread that has not yet stopped
\* the proxy, or has, and the proxy is off.
ComesToStop(d) ==
    \/ dialog[d].pc \in {"ask", "stop"}
    \/ dialog[d].pc = "menu" /\ (os = "tk" => NetChanged(d))

RestartFollows ==
    \/ \E d \in Dialogs : ComesToStop(d)
    \/ \E r \in Restarts : restart[r].pc \in {"assign", "menu", "stop"}
    \/ /\ running = Off
       /\ \/ \E d \in Dialogs : dialog[d].pc = "start"
          \/ \E r \in Restarts : restart[r].pc = "start"

RunningInv ==
    Up /\ ~declined /\ ~raced /\ (os = "tk" => ~overlap) => running = Started \/ RestartFollows

\* On Windows and Linux a window that is open alone compares its form with the
\* settings there are.
SnapInv ==
    os = "tk" /\ ~overlap =>
        /\ \A d, e \in Dialogs : Shown(d) /\ Shown(e) => d = e
        /\ \A d \in Dialogs :
             dialog[d].pc \in {"edit", "write", "publish"} => dialog[d].snap["net"] = mem["net"]

\* One Tk thread: nobody saves or sets the menu while another does.
Busy(d) == dialog[d].pc \in {"write", "publish", "menu"}

TkInv ==
    os = "tk" =>
        /\ ~clash /\ ~crossed /\ toggle.pc = "idle"
        /\ \A r \in Restarts : restart[r].pc \notin {"assign", "menu"}
        /\ \A d, e \in Dialogs : Busy(d) /\ Busy(e) => d = e

InFile == file # Torn /\ \A k \in SavedKeys : file[k] = mem[k]

\* The file through the start of the program ...
BootInv ==
    /\ app \in {"open", "write", "start"} => dirty = {}
    /\ app = "open" /\ ~edited => mem = Loaded
    /\ app = "start" /\ ~edited => file = mem

\* ... and later: at most one thread is in the middle of a save or a load, what
\* it has written is what it publishes, and what the "updates" entry writes, or
\* a restart puts into memory, is what is there but for that key.
Saves(d) == dialog[d].pc \in {"write", "publish"}
Loads(r) == restart[r].pc = "assign"

FileInv ==
    Up /\ ~clash /\ ~edited =>
        /\ dirty = {}
        /\ \A d, e \in Dialogs : Saves(d) /\ Saves(e) => d = e
        /\ \A d \in Dialogs : Saves(d) => toggle.pc = "idle" /\ \A r \in Restarts : ~Loads(r)
        /\ \A r \in Restarts : Loads(r) => toggle.pc = "idle" /\ restart[r].cfg = file
        /\ toggle.pc = "idle" /\ (\A d \in Dialogs : ~Saves(d)) => InFile
        /\ \A d \in Dialogs : dialog[d].pc = "publish" => file = Merged(d)
        /\ toggle.pc # "idle" => toggle.cfg = mem
        /\ toggle.pc = "open" =>
              file # Torn /\ \A k \in SavedKeys \ {"updates"} : file[k] = mem[k]

\* What the next start will load is one of the configurations relied on.
Survives(cfg) == \E c \in promised : \A k \in SavedKeys : cfg[k] = c[k]

PromiseInv ==
    promised # {} => /\ app = "off" => Survives(Loaded)
                     /\ app = "open" => Survives(mem)

SInv ==
    /\ TypeOK /\ NothingOpen /\ SavingKnown
    /\ SeenInv /\ MenuInv /\ SnapInv /\ RunningInv
    /\ TkInv /\ BootInv /\ FileInv /\ PromiseInv
-----------------------------------------------------------------------------
(* Types.                                                                  *)

\* A step of one window leaves the others alone.
LEMMA OneWindow ==
    ASSUME TypeOK, NEW d \in Dialogs, NEW rec \in DialogRec,
           dialog' = [dialog EXCEPT ![d] = rec]
    PROVE  /\ dialog' \in [Dialogs -> DialogRec]
           /\ dialog'[d] = rec
           /\ \A e \in Dialogs \ {d} : dialog'[e] = dialog[e]
BY DEF TypeOK

\* A configuration with another value for one of its keys, and what is in one.
LEMMA OtherConfig ==
    ASSUME NEW c \in Config, NEW k \in Keys, NEW v \in ValuesOf(k)
    PROVE  [c EXCEPT ![k] = v] \in Config
<1>1. v \in Nets \cup {Unset}
  BY DEF ValuesOf, Nets
<1> QED
  BY <1>1 DEF Config

LEMMA InConfig ==
    ASSUME NEW c \in Config
    PROVE  c["net"] \in Nets /\ c["updates"] \in Values /\ \A k \in Keys : c[k] \in ValuesOf(k)
BY DEF Config, Keys, ValuesOf

\* What the proofs use of the assumption on the constants.
LEMMA Constants ==
    /\ Default \in Values /\ Default \in Nets /\ Values \subseteq Nets
    /\ DefaultConfig \in Config /\ Closed \in DialogRec
    /\ NoToggle \in ToggleRec /\ NoRestart \in RestartRec
    /\ Torn \notin Config /\ Off \notin Nets
    /\ \A d \in Dialogs : d \in Writers /\ d # "boot" /\ d # "toggle" /\ d \notin Restarts
<1>1. Default \in Values /\ Values \subseteq Nets
  BY SettingsAssumption DEF SettingsAssumption, Nets
<1>2. \A k \in Keys : DefaultConfig[k] \in ValuesOf(k)
  BY <1>1 DEF DefaultConfig, ValuesOf
<1>3. DefaultConfig \in Config
  BY <1>1, <1>2 DEF DefaultConfig, Config
<1>4. Closed \in DialogRec
  BY <1>3, SettingsAssumption DEF SettingsAssumption, Closed, DialogRec
<1>5. NoToggle \in ToggleRec /\ NoRestart \in RestartRec
  BY <1>3 DEF NoToggle, ToggleRec, NoRestart, RestartRec
<1> QED
  BY <1>1, <1>3, <1>4, <1>5, SettingsAssumption DEF SettingsAssumption, Writers

\* What Go, Close and Done make of a window.
LEMMA GoesTo ==
    ASSUME TypeOK, NEW d \in Dialogs,
           NEW pc \in {"closed", "edit", "write", "publish", "menu", "ask", "stop", "start"}
    PROVE  /\ Go(d, pc) => /\ dialog' \in [Dialogs -> DialogRec]
                           /\ dialog'[d].pc = pc
                           /\ dialog'[d].form = dialog[d].form /\ dialog'[d].snap = dialog[d].snap
                           /\ \A e \in Dialogs \ {d} : dialog'[e] = dialog[e]
           /\ Close(d) => /\ dialog' \in [Dialogs -> DialogRec]
                          /\ dialog'[d].pc = "closed"
                          /\ \A e \in Dialogs \ {d} : dialog'[e] = dialog[e]
           /\ Done(d, pc) => /\ dialog' \in [Dialogs -> DialogRec]
                             /\ dialog'[d].pc = pc
                             /\ \A e \in Dialogs \ {d} : dialog'[e] = dialog[e]
<1>1. dialog[d] \in DialogRec
  BY DEF TypeOK
<1>2. [dialog[d] EXCEPT !.pc = pc] \in DialogRec
  BY <1>1 DEF DialogRec
<1>3. [Closed EXCEPT !.pc = pc] \in DialogRec /\ Closed \in DialogRec
  BY Constants DEF DialogRec
<1>4. ASSUME Go(d, pc) PROVE dialog' = [dialog EXCEPT ![d] = [dialog[d] EXCEPT !.pc = pc]]
  BY <1>4 DEF Go
<1>5. Closed.pc = "closed" /\ [Closed EXCEPT !.pc = pc].pc = pc
  BY DEF Closed
<1>6. /\ [dialog[d] EXCEPT !.pc = pc].pc = pc
      /\ [dialog[d] EXCEPT !.pc = pc].form = dialog[d].form
      /\ [dialog[d] EXCEPT !.pc = pc].snap = dialog[d].snap
  BY <1>1 DEF DialogRec
<1>7. Go(d, pc) => /\ dialog' \in [Dialogs -> DialogRec]
                   /\ dialog'[d].pc = pc
                   /\ dialog'[d].form = dialog[d].form /\ dialog'[d].snap = dialog[d].snap
                   /\ \A e \in Dialogs \ {d} : dialog'[e] = dialog[e]
  BY <1>2, <1>4, <1>6, OneWindow
<1>8. Close(d) => /\ dialog' \in [Dialogs -> DialogRec]
                  /\ dialog'[d].pc = "closed"
                  /\ \A e \in Dialogs \ {d} : dialog'[e] = dialog[e]
  BY <1>3, <1>5, OneWindow DEF Close
<1>9. Done(d, pc) => /\ dialog' \in [Dialogs -> DialogRec]
                     /\ dialog'[d].pc = pc
                     /\ \A e \in Dialogs \ {d} : dialog'[e] = dialog[e]
  BY <1>3, <1>5, OneWindow DEF Done
<1> QED
  BY <1>7, <1>8, <1>9

\* open() and close() of the file by one that may write it.
LEMMA DiskTypes ==
    ASSUME TypeOK, NEW w \in Writers, NEW cfg \in Config, OpenFile(w) \/ WriteFile(w, cfg)
    PROVE  file' \in Config \cup {Torn} /\ saving' \subseteq Writers /\ dirty' \subseteq saving'
BY DEF TypeOK, OpenFile, WriteFile

\* What load_config() returns.
LEMMA LoadedType == TypeOK => Loaded \in Config
BY Constants DEF TypeOK, Loaded

\* A form and the defaults for what it does not show.
LEMMA MergedType == ASSUME TypeOK, NEW d \in Dialogs PROVE Merged(d) \in Config
<1>1. dialog[d].form \in Config
  BY DEF TypeOK, DialogRec
<1>2. \A k \in Keys : dialog[d].form[k] \in ValuesOf(k) /\ DefaultConfig[k] \in ValuesOf(k)
  BY <1>1, InConfig, Constants
<1>3. \A k \in Keys : Merged(d)[k] \in ValuesOf(k) /\ Merged(d)[k] \in Nets \cup {Unset}
  BY <1>2 DEF Merged, ValuesOf, Nets
<1> QED
  BY <1>3 DEF Merged, Config

\* Uses of the menu are counted.
LEMMA UseType ==
    ASSUME TypeOK, Use
    PROVE  count' \in [uses : 0..MaxUses, kills : 0..MaxKills]
<1>1. count \in [uses : 0..MaxUses, kills : 0..MaxKills] /\ MaxUses \in Nat
  BY SettingsAssumption DEF SettingsAssumption, TypeOK
<1>2. count.uses + 1 \in 0..MaxUses
  BY <1>1 DEF Use
<1> QED
  BY <1>1, <1>2 DEF Use

\* An address, and what a thread reads of one.
LEMMA AddressType ==
    ASSUME TypeOK, NEW net \in Nets
    PROVE  /\ Address(net) \in Seq(Nets)
           /\ \A t \in Dialogs \cup Restarts : Append(seen[t], net) \in Seq(Nets)
           /\ NothingSeen \in [Dialogs \cup Restarts -> Seq(Nets)]
<1>1. Address(net) \in Seq(Nets)
  BY DEF Address
<1>2. \A t \in Dialogs \cup Restarts : Append(seen[t], net) \in Seq(Nets)
  BY DEF TypeOK
<1>3. NothingSeen \in [Dialogs \cup Restarts -> Seq(Nets)]
  BY DEF NothingSeen
<1> QED
  BY <1>1, <1>2, <1>3

\* Threads that read the address and set the menu.
LEMMA ShowTypes ==
    ASSUME TypeOK, NEW t \in Dialogs \cup Restarts, ReadAddress(t) \/ SetMenu(t)
    PROVE  /\ menu' \in Seq(Nets) /\ seen' \in [Dialogs \cup Restarts -> Seq(Nets)]
           /\ \A u \in (Dialogs \cup Restarts) \ {t} : seen'[u] = seen[u]
<1>1. mem["net"] \in Nets
  BY InConfig DEF TypeOK
<1>2. Append(seen[t], mem["net"]) \in Seq(Nets) /\ <<>> \in Seq(Nets)
  BY <1>1, AddressType
<1>3. CASE ReadAddress(t)
  BY <1>2, <1>3 DEF ReadAddress, TypeOK
<1>4. CASE SetMenu(t)
  BY <1>2, <1>4 DEF SetMenu, TypeOK
<1> QED
  BY <1>3, <1>4

\* Init makes every variable what TypeOK says.
LEMMA InitTypes == Init => TypeOK
<1> SUFFICES ASSUME Init PROVE TypeOK
  OBVIOUS
<1>1. count \in [uses : 0..MaxUses, kills : 0..MaxKills]
  BY SettingsAssumption DEF SettingsAssumption, Init
<1>2. file \in Config \cup {Torn}
  BY SettingsAssumption DEF SettingsAssumption, Init
<1>3. menu \in Seq(Nets) /\ seen \in [Dialogs \cup Restarts -> Seq(Nets)]
  BY Constants DEF Init, Address, NothingSeen
<1> QED
  BY <1>1, <1>2, <1>3, Constants DEF Init, TypeOK

\* The start of the program, its end, and what happens outside of it.
LEMMA BootTypes == ASSUME TypeOK, BootStep \/ Kill \/ EditByHand \/ LateEnd PROVE TypeOK'
<1>1. CASE Boot
  BY <1>1, LoadedType DEF Boot, TypeOK, disk, ui, shown, history
<1>2. CASE BootOpen
  BY <1>2, DiskTypes, Constants DEF BootOpen, TypeOK, ui, shown, Writers
<1>3. CASE BootWrite
  <2>1. mem \in Config /\ "boot" \in Writers
    BY DEF TypeOK, Writers
  <2> QED
    BY <1>3, <2>1, DiskTypes DEF BootWrite, TypeOK, ui, shown, history
<1>4. CASE BootStart
  <2>1. mem["net"] \in Nets
    BY InConfig DEF TypeOK
  <2>2. running' \in Nets \cup {Off} /\ menu' \in Seq(Nets)
    BY <1>4, <2>1, AddressType DEF BootStart, Started
  <2> QED
    BY <1>4, <2>2 DEF BootStart, TypeOK, ui, history, disk
<1>5. CASE Kill
  <2>1. count' \in [uses : 0..MaxUses, kills : 0..MaxKills]
    <3>1. count \in [uses : 0..MaxUses, kills : 0..MaxKills] /\ MaxKills \in Nat
      BY SettingsAssumption DEF SettingsAssumption, TypeOK
    <3>2. count.kills + 1 \in 0..MaxKills
      BY <1>5, <3>1 DEF Kill
    <3> QED
      BY <1>5, <3>1, <3>2 DEF Kill
  <2>2. dialog' \in [Dialogs -> DialogRec] /\ toggle' \in ToggleRec /\ restart' \in [Restarts -> RestartRec]
    BY <1>5, Constants DEF Kill
  <2>3. menu' \in Seq(Nets) /\ seen' \in [Dialogs \cup Restarts -> Seq(Nets)]
    BY <1>5, Constants, AddressType DEF Kill
  <2>4. Relied \subseteq Config
    <3>1. \A d \in Dialogs : Merged(d) \in Config
      BY MergedType
    <3>2. \A v \in Values : [mem EXCEPT !["updates"] = v] \in Config
      BY OtherConfig DEF TypeOK, Keys, ValuesOf
    <3> QED
      BY <3>1, <3>2 DEF Relied, TypeOK
  <2> QED
    BY <1>5, <2>1, <2>2, <2>3, <2>4, Constants DEF Kill, TypeOK
<1>6. CASE EditByHand
  <2>1. file' \in Config
    <3>1. file \in Config /\ "net" \in Keys /\ ValuesOf("net") = Nets
      BY <1>6 DEF EditByHand, TypeOK, Keys, ValuesOf
    <3>2. PICK v \in Nets : file' = [file EXCEPT !["net"] = v]
      BY <1>6 DEF EditByHand
    <3> QED
      BY <3>1, <3>2, OtherConfig
  <2>2. count' \in [uses : 0..MaxUses, kills : 0..MaxKills]
    BY <1>6, UseType DEF EditByHand
  <2> QED
    BY <1>6, <2>1, <2>2 DEF EditByHand, TypeOK, shown, ui
<1>7. CASE LateEnd
  BY <1>7 DEF LateEnd, TypeOK, shown, ui, disk, history
<1> QED
  BY <1>1, <1>2, <1>3, <1>4, <1>5, <1>6, <1>7 DEF BootStep

\* A user opens a window ...
LEMMA OpenTypes ==
    ASSUME TypeOK, NEW d \in Dialogs, Open(d)
    PROVE  /\ TypeOK' /\ dialog'[d].pc = "edit" /\ dialog'[d].snap = (IF os = "tk" THEN mem ELSE Loaded)
           /\ \A e \in Dialogs \ {d} : dialog'[e] = dialog[e]
<1> DEFINE cfg == IF os = "tk" THEN mem ELSE Loaded
           form == [cfg EXCEPT !["look"] = IF cfg["look"] = Unset THEN Default ELSE cfg["look"]]
           rec == [pc |-> "edit", snap |-> cfg, form |-> form, edits |-> 0]
<1>0. cfg \in Config
  BY LoadedType DEF TypeOK
<1>1. form \in Config
  <2>1. "look" \in Keys /\ cfg["look"] \in ValuesOf("look") /\ Default \in ValuesOf("look")
    BY <1>0, InConfig, Constants DEF Keys, ValuesOf
  <2> QED
    BY <1>0, <2>1, OtherConfig
<1>2. rec \in DialogRec
  BY <1>0, <1>1, SettingsAssumption DEF SettingsAssumption, DialogRec
<1>3. dialog' = [dialog EXCEPT ![d] = rec]
  BY DEF Open
<1>4. /\ dialog' \in [Dialogs -> DialogRec] /\ dialog'[d] = rec
      /\ \A e \in Dialogs \ {d} : dialog'[e] = dialog[e]
  BY <1>2, <1>3, OneWindow
<1>5. count' \in [uses : 0..MaxUses, kills : 0..MaxKills]
  BY UseType DEF Open
<1>6. TypeOK'
  BY <1>4, <1>5 DEF Open, TypeOK, disk, shown
<1> QED
  BY <1>4, <1>6

\* ... and changes what its form shows.
LEMMA EditTypes ==
    ASSUME TypeOK, NEW d \in Dialogs, Edit(d)
    PROVE  /\ TypeOK' /\ dialog'[d].pc = "edit" /\ dialog'[d].snap["net"] = dialog[d].snap["net"]
           /\ \A e \in Dialogs \ {d} : dialog'[e] = dialog[e]
<1>1. PICK k \in FormKeys, v \in Nets :
          /\ v \in ValuesOf(k)
          /\ dialog' = [dialog EXCEPT ![d] = Filled(d, k, v)]
  BY DEF Edit
<1> DEFINE r == dialog[d]
           look == IF k = "look" THEN v ELSE r.snap["look"]
           form == [r.form EXCEPT ![k] = v]
           snap == [r.snap EXCEPT !["look"] = look]
           rec == [r EXCEPT !.form = form, !.edits = r.edits + 1, !.snap = snap]
<1>2. r \in DialogRec /\ k \in Keys /\ r.snap \in Config /\ r.form \in Config
  BY DEF TypeOK, DialogRec, FormKeys, Keys
<1>3. form \in Config /\ "look" \in Keys /\ look \in ValuesOf("look")
  BY <1>1, <1>2, OtherConfig, InConfig DEF Keys
<1>4. snap \in Config
  BY <1>2, <1>3, OtherConfig
<1>5. r.edits + 1 \in 0..MaxEdits
  BY <1>2, SettingsAssumption DEF SettingsAssumption, Edit, DialogRec
<1>6. rec \in DialogRec /\ rec.pc = r.pc /\ rec.snap = snap
  BY <1>2, <1>3, <1>4, <1>5 DEF DialogRec
<1>7. dialog' = [dialog EXCEPT ![d] = rec]
  <2>1. Filled(d, k, v) = rec
    BY <1>2 DEF Filled, DialogRec
  <2> QED
    BY <1>1, <2>1
<1> HIDE DEF rec
<1>8. /\ dialog' \in [Dialogs -> DialogRec] /\ dialog'[d] = rec
      /\ \A e \in Dialogs \ {d} : dialog'[e] = dialog[e]
  BY <1>6, <1>7, OneWindow
<1>9. snap["net"] = r.snap["net"]
  BY <1>2 DEF Config, Keys
<1>10. TypeOK'
  BY <1>8 DEF Edit, TypeOK, disk, shown, history
<1> QED
  BY <1>6, <1>8, <1>9, <1>10 DEF Edit

\* What the proxy runs with after a stop and after a start.
LEMMA StopType ==
    ASSUME TypeOK, Stop
    PROVE  running' \in Nets \cup {Off} /\ raced' \in BOOLEAN
BY DEF Stop, TypeOK

LEMMA StartType ==
    ASSUME TypeOK, Start
    PROVE  running' \in Nets \cup {Off} /\ declined' \in BOOLEAN
<1>1. mem["net"] \in Nets
  BY InConfig DEF TypeOK
<1> QED
  BY <1>1 DEF Start, Started, TypeOK

\* What RestartGo makes of a thread.
LEMMA RestartGoes ==
    ASSUME TypeOK, NEW r \in Restarts, NEW pc \in {"idle", "assign", "menu", "stop", "start"},
           RestartGo(r, pc)
    PROVE  /\ restart' \in [Restarts -> RestartRec]
           /\ restart'[r].pc = pc /\ restart'[r].cfg = restart[r].cfg
           /\ \A q \in Restarts \ {r} : restart'[q] = restart[q]
<1>1. restart' = [restart EXCEPT ![r] = [restart[r] EXCEPT !.pc = pc]]
  BY DEF RestartGo
<1>2. /\ [restart[r] EXCEPT !.pc = pc] \in RestartRec
      /\ [restart[r] EXCEPT !.pc = pc].pc = pc
      /\ [restart[r] EXCEPT !.pc = pc].cfg = restart[r].cfg
  BY DEF TypeOK, RestartRec
<1> QED
  BY <1>1, <1>2 DEF TypeOK

\* The other steps of a window move it on from one pc to the next.
LEMMA DialogTypes ==
    ASSUME TypeOK, NEW d \in Dialogs, User(d) \/ DialogStep(d)
    PROVE  TypeOK'
<1>1. CASE Open(d) \/ Edit(d)
  BY <1>1, OpenTypes, EditTypes
<1>2. CASE Cancel(d) \/ SaveNothing(d)
  BY <1>2, GoesTo DEF Cancel, SaveNothing, TypeOK, disk, shown, history
<1>3. CASE Save(d)
  <2>1. d \in Writers /\ OpenFile(d)
    BY <1>3, Constants DEF Save
  <2>2. file' \in Config \cup {Torn} /\ saving' \subseteq Writers /\ dirty' \subseteq saving'
    BY <2>1, Constants, DiskTypes
  <2>3. dialog' \in [Dialogs -> DialogRec]
    BY <1>3, GoesTo DEF Save
  <2>4. clash' \in BOOLEAN
    BY <1>3 DEF Save, TypeOK
  <2> QED
    BY <1>3, <2>2, <2>3, <2>4 DEF Save, TypeOK, shown
<1>4. CASE Write(d)
  <2>1. file' \in Config \cup {Torn} /\ saving' \subseteq Writers /\ dirty' \subseteq saving'
    BY <1>4, Constants, MergedType, DiskTypes DEF Write
  <2>2. dialog' \in [Dialogs -> DialogRec]
    BY <1>4, GoesTo DEF Write
  <2> QED
    BY <1>4, <2>1, <2>2 DEF Write, TypeOK, shown, history
<1>5. CASE Publish(d)
  <2>1. mem' \in Config
    <3>1. Merged(d) \in Config /\ mem \in Config
      BY MergedType DEF TypeOK
    <3>2. mem' \in [Keys -> Nets \cup {Unset}]
      BY <1>5, <3>1 DEF Publish, Config
    <3>3. \A k \in Keys : mem'[k] \in ValuesOf(k)
      BY <1>5, <3>1, InConfig DEF Publish
    <3> QED
      BY <3>2, <3>3 DEF Config
  <2>2. dialog' \in [Dialogs -> DialogRec] /\ crossed' \in BOOLEAN
    BY <1>5, GoesTo DEF Publish
  <2> QED
    BY <1>5, <2>1, <2>2 DEF Publish, TypeOK, disk, shown
<1>6. CASE ReadAddress(d)
  <2>1. menu' \in Seq(Nets) /\ seen' \in [Dialogs \cup Restarts -> Seq(Nets)]
    BY <1>6, ShowTypes
  <2> QED
    BY <1>6, <2>1 DEF ReadAddress, TypeOK, disk, ui, history
<1>7. CASE ShowMenu(d)
  <2>1. dialog' \in [Dialogs -> DialogRec]
    BY <1>7, GoesTo DEF ShowMenu
  <2>2. menu' \in Seq(Nets) /\ seen' \in [Dialogs \cup Restarts -> Seq(Nets)]
    BY <1>7, ShowTypes DEF ShowMenu
  <2> QED
    BY <1>7, <2>1, <2>2 DEF ShowMenu, TypeOK, disk, history
<1>8. CASE Answer(d)
  <2>1. dialog' \in [Dialogs -> DialogRec] /\ declined' \in BOOLEAN /\ raced' \in BOOLEAN
    BY <1>8, GoesTo DEF Answer, TypeOK
  <2> QED
    BY <1>8, <2>1 DEF Answer, TypeOK, disk, shown
<1>9. CASE DialogStop(d)
  <2>1. dialog' \in [Dialogs -> DialogRec]
    BY <1>9, GoesTo DEF DialogStop
  <2> QED
    BY <1>9, <2>1, StopType DEF DialogStop, Stop, TypeOK, disk, shown
<1>10. CASE DialogStart(d)
  <2>1. dialog' \in [Dialogs -> DialogRec]
    BY <1>10, GoesTo DEF DialogStart
  <2> QED
    BY <1>10, <2>1, StartType DEF DialogStart, Start, TypeOK, disk, shown
<1> QED
  BY <1>1, <1>2, <1>3, <1>4, <1>5, <1>6, <1>7, <1>8, <1>9, <1>10 DEF User, DialogStep

\* The "restart" entry.
LEMMA RestartTypes ==
    ASSUME TypeOK, NEW r \in Restarts, Restart(r) \/ RestartStep(r)
    PROVE  TypeOK'
<1>1. CASE Restart(r)
  <2>1. restart' \in [Restarts -> RestartRec]
    <3>1. CASE os = "tk"
      BY <1>1, <3>1, RestartGoes DEF Restart
    <3>2. CASE os # "tk"
      <4>1. [pc |-> "assign", cfg |-> Loaded] \in RestartRec
        BY LoadedType DEF RestartRec
      <4> QED
        BY <1>1, <3>2, <4>1 DEF Restart, TypeOK
    <3> QED
      BY <3>1, <3>2
  <2>2. count' \in [uses : 0..MaxUses, kills : 0..MaxKills] /\ clash' \in BOOLEAN /\ raced' \in BOOLEAN
    BY <1>1, UseType DEF Restart, TypeOK
  <2> QED
    BY <1>1, <2>1, <2>2 DEF Restart, TypeOK, disk, shown
<1>2. CASE RestartAssign(r)
  <2>1. restart[r].cfg \in Config /\ [NoRestart EXCEPT !.pc = "menu"] \in RestartRec
    BY Constants DEF TypeOK, RestartRec
  <2>2. mem' \in Config /\ restart' \in [Restarts -> RestartRec] /\ crossed' \in BOOLEAN
    BY <1>2, <2>1 DEF RestartAssign, TypeOK
  <2> QED
    BY <1>2, <2>2 DEF RestartAssign, TypeOK, disk, shown
<1>3. CASE ReadAddress(r)
  <2>1. menu' \in Seq(Nets) /\ seen' \in [Dialogs \cup Restarts -> Seq(Nets)]
    BY <1>3, ShowTypes
  <2> QED
    BY <1>3, <2>1 DEF ReadAddress, TypeOK, disk, ui, history
<1>4. CASE RestartMenu(r)
  <2>1. menu' \in Seq(Nets) /\ seen' \in [Dialogs \cup Restarts -> Seq(Nets)]
    BY <1>4, ShowTypes DEF RestartMenu
  <2>2. restart' \in [Restarts -> RestartRec] /\ raced' \in BOOLEAN
    BY <1>4, RestartGoes DEF RestartMenu, TypeOK
  <2> QED
    BY <1>4, <2>1, <2>2 DEF RestartMenu, TypeOK, disk
<1>5. CASE RestartStop(r)
  <2>1. restart' \in [Restarts -> RestartRec]
    BY <1>5, RestartGoes DEF RestartStop
  <2> QED
    BY <1>5, <2>1, StopType DEF RestartStop, Stop, TypeOK, disk, shown
<1>6. CASE RestartStart(r)
  <2>1. restart' \in [Restarts -> RestartRec]
    BY <1>6, RestartGoes DEF RestartStart
  <2> QED
    BY <1>6, <2>1, StartType DEF RestartStart, Start, TypeOK, disk, shown
<1> QED
  BY <1>1, <1>2, <1>3, <1>4, <1>5, <1>6 DEF RestartStep

\* The "check for updates" entry.
LEMMA ToggleTypes ==
    ASSUME TypeOK, Toggle \/ ToggleOpen \/ ToggleWrite
    PROVE  TypeOK'
<1>1. CASE Toggle
  <2>1. \A v \in Values : OtherValue(v) \in Values
    BY SettingsAssumption DEF SettingsAssumption, OtherValue
  <2>2. mem' = [mem EXCEPT !["updates"] = OtherValue(mem["updates"])]
    BY <1>1 DEF Toggle
  <2>3. mem["updates"] \in Values /\ "updates" \in Keys
    BY InConfig DEF TypeOK, Keys
  <2>4. OtherValue(mem["updates"]) \in ValuesOf("updates")
    BY <2>1, <2>3 DEF ValuesOf
  <2>5. mem' \in Config
    BY <2>2, <2>3, <2>4, OtherConfig DEF TypeOK
  <2>6. toggle' \in ToggleRec
    BY <1>1, <2>5 DEF Toggle, ToggleRec
  <2>7. count' \in [uses : 0..MaxUses, kills : 0..MaxKills] /\ clash' \in BOOLEAN
    BY <1>1, UseType DEF Toggle, TypeOK
  <2> QED
    BY <1>1, <2>5, <2>6, <2>7 DEF Toggle, TypeOK, disk, shown
<1>2. CASE ToggleOpen
  <2>1. "toggle" \in Writers
    BY DEF Writers
  <2>2. file' \in Config \cup {Torn} /\ saving' \subseteq Writers /\ dirty' \subseteq saving'
    BY <1>2, <2>1, Constants, DiskTypes DEF ToggleOpen
  <2>3. toggle' \in ToggleRec
    BY <1>2 DEF ToggleOpen, TypeOK, ToggleRec
  <2> QED
    BY <1>2, <2>2, <2>3 DEF ToggleOpen, TypeOK, shown, history
<1>3. CASE ToggleWrite
  <2>1. "toggle" \in Writers /\ toggle.cfg \in Config
    BY DEF Writers, TypeOK, ToggleRec
  <2>2. file' \in Config \cup {Torn} /\ saving' \subseteq Writers /\ dirty' \subseteq saving'
    BY <1>3, <2>1, DiskTypes DEF ToggleWrite
  <2>3. toggle' \in ToggleRec
    BY <1>3 DEF ToggleWrite, TypeOK, ToggleRec
  <2> QED
    BY <1>3, <2>2, <2>3 DEF ToggleWrite, TypeOK, shown, history
<1> QED
  BY <1>1, <1>2, <1>3

\* Every step does.
LEMMA NextTypes == TypeOK /\ [Next]_vars => TypeOK'
<1> SUFFICES ASSUME TypeOK, [Next]_vars PROVE TypeOK'
  OBVIOUS
<1>1. CASE UNCHANGED vars
  BY <1>1 DEF vars, disk, ui, shown, history, TypeOK
<1> QED
  BY <1>1, BootTypes, DialogTypes, RestartTypes, ToggleTypes DEF Next

\* Every behaviour stays within the declared types.
THEOREM TypeCorrect == Spec => []TypeOK
BY InitTypes, NextTypes, PTL DEF Spec

-----------------------------------------------------------------------------
(* Who has the file open.                                                  *)

\* What a step of one window does to the pcs.
LEMMA WindowStep ==
    ASSUME TypeOK, NEW d \in Dialogs, User(d) \/ DialogStep(d)
    PROVE  /\ UNCHANGED <<os, app, restart, toggle, edited, promised>>
           /\ \A e \in Dialogs \ {d} : dialog'[e] = dialog[e]
           /\ Open(d) => Up /\ dialog[d].pc = "closed" /\ dialog'[d].pc = "edit"
           /\ Edit(d) => dialog[d].pc = "edit" /\ dialog'[d].pc = "edit"
           /\ Cancel(d) \/ SaveNothing(d) => dialog[d].pc = "edit" /\ dialog'[d].pc = "closed"
           /\ Save(d) => dialog[d].pc = "edit" /\ dialog'[d].pc = "write"
           /\ Write(d) => dialog[d].pc = "write" /\ dialog'[d].pc = "publish"
           /\ Publish(d) => dialog[d].pc = "publish" /\ dialog'[d].pc = "menu"
           /\ ReadAddress(d) => dialog[d].pc = "menu" /\ dialog' = dialog
           /\ ShowMenu(d) => dialog[d].pc = "menu" /\ dialog'[d].pc \in {"closed", "ask"}
           /\ Answer(d) => dialog[d].pc = "ask" /\ dialog'[d].pc \in {"closed", "stop"}
           /\ DialogStop(d) => dialog[d].pc = "stop" /\ dialog'[d].pc = "start"
           /\ DialogStart(d) => dialog[d].pc = "start" /\ dialog'[d].pc = "closed"
<1>1. UNCHANGED <<os, app, restart, toggle, edited, promised>>
  BY DEF User, DialogStep, Open, Edit, Cancel, SaveNothing, Save, Answer, Write, Publish,
     ReadAddress, ShowMenu, DialogStop, Stop, DialogStart, Start, disk, ui, history
<1>2. Open(d) => /\ Up /\ dialog[d].pc = "closed" /\ dialog'[d].pc = "edit"
                 /\ \A e \in Dialogs \ {d} : dialog'[e] = dialog[e]
  BY OpenTypes DEF Open
<1>3. Edit(d) => /\ dialog[d].pc = "edit" /\ dialog'[d].pc = "edit"
                 /\ \A e \in Dialogs \ {d} : dialog'[e] = dialog[e]
  BY EditTypes DEF Edit
<1>4. Cancel(d) \/ SaveNothing(d) =>
                 /\ dialog[d].pc = "edit" /\ dialog'[d].pc = "closed"
                 /\ \A e \in Dialogs \ {d} : dialog'[e] = dialog[e]
  BY GoesTo DEF Cancel, SaveNothing
<1>5. Save(d) => /\ dialog[d].pc = "edit" /\ dialog'[d].pc = "write"
                 /\ \A e \in Dialogs \ {d} : dialog'[e] = dialog[e]
  BY GoesTo DEF Save
<1>6. Write(d) => /\ dialog[d].pc = "write" /\ dialog'[d].pc = "publish"
                  /\ \A e \in Dialogs \ {d} : dialog'[e] = dialog[e]
  BY GoesTo DEF Write
<1>7. Publish(d) => /\ dialog[d].pc = "publish" /\ dialog'[d].pc = "menu"
                    /\ \A e \in Dialogs \ {d} : dialog'[e] = dialog[e]
  BY GoesTo DEF Publish
<1>7a. ReadAddress(d) => dialog[d].pc = "menu" /\ dialog' = dialog
  <2>1. ReadAddress(d) => d \in Showing /\ dialog' = dialog
    BY DEF ReadAddress, ui
  <2> QED
    BY <2>1, Constants DEF Showing
<1>8. ShowMenu(d) => /\ dialog[d].pc = "menu" /\ dialog'[d].pc \in {"closed", "ask"}
                     /\ \A e \in Dialogs \ {d} : dialog'[e] = dialog[e]
  BY GoesTo DEF ShowMenu
<1>9. Answer(d) => /\ dialog[d].pc = "ask" /\ dialog'[d].pc \in {"closed", "stop"}
                   /\ \A e \in Dialogs \ {d} : dialog'[e] = dialog[e]
  BY GoesTo DEF Answer
<1>10. DialogStop(d) => /\ dialog[d].pc = "stop" /\ dialog'[d].pc = "start"
                        /\ \A e \in Dialogs \ {d} : dialog'[e] = dialog[e]
  BY GoesTo DEF DialogStop
<1>11. DialogStart(d) => /\ dialog[d].pc = "start" /\ dialog'[d].pc = "closed"
                         /\ \A e \in Dialogs \ {d} : dialog'[e] = dialog[e]
  BY GoesTo DEF DialogStart
<1> QED
  BY <1>1, <1>2, <1>3, <1>4, <1>5, <1>6, <1>7, <1>7a, <1>8, <1>9, <1>10, <1>11 DEF User, DialogStep

\* Two windows that were open at a time stay so.
LEMMA WindowOverlap ==
    ASSUME TypeOK, NEW d \in Dialogs, User(d) \/ DialogStep(d)
    PROVE  overlap => overlap'
BY DEF User, DialogStep, Open, Edit, Cancel, SaveNothing, Save, Answer, Write, Publish, ReadAddress,
   ShowMenu, DialogStop, Stop, DialogStart, Start, history, TypeOK

\* What a step of one thread of the "restart" entry does to the pcs.
LEMMA ThreadStep ==
    ASSUME TypeOK, NEW r \in Restarts, Restart(r) \/ RestartStep(r)
    PROVE  /\ UNCHANGED <<os, app, file, saving, dirty, dialog, toggle, overlap, edited, promised>>
           /\ \A q \in Restarts \ {r} : restart'[q] = restart[q]
           /\ Restart(r) => /\ Up /\ restart[r].pc = "idle"
                            /\ restart'[r].pc = IF os = "tk" THEN "stop" ELSE "assign"
                            /\ os # "tk" => restart'[r].cfg = Loaded
           /\ RestartAssign(r) => restart[r].pc = "assign" /\ restart'[r].pc = "menu"
           /\ ReadAddress(r) => restart[r].pc = "menu" /\ restart' = restart
           /\ RestartMenu(r) => restart[r].pc = "menu" /\ restart'[r].pc = "stop"
           /\ RestartStop(r) => restart[r].pc = "stop" /\ restart'[r].pc = "start"
           /\ RestartStart(r) => restart[r].pc = "start" /\ restart'[r].pc = "idle"
<1>1. UNCHANGED <<os, app, file, saving, dirty, dialog, toggle, overlap, edited, promised>>
  BY DEF Restart, RestartStep, RestartAssign, ReadAddress, RestartMenu, RestartStop, Stop,
     RestartStart, Start, disk, ui, history
<1>2. Restart(r) => /\ Up /\ restart[r].pc = "idle"
                    /\ restart'[r].pc = IF os = "tk" THEN "stop" ELSE "assign"
                    /\ os # "tk" => restart'[r].cfg = Loaded
                    /\ \A q \in Restarts \ {r} : restart'[q] = restart[q]
  BY RestartGoes DEF Restart, TypeOK
<1>3. RestartAssign(r) => /\ restart[r].pc = "assign" /\ restart'[r].pc = "menu"
                          /\ \A q \in Restarts \ {r} : restart'[q] = restart[q]
  BY DEF RestartAssign, TypeOK, NoRestart
<1>4. ReadAddress(r) => restart[r].pc = "menu" /\ restart' = restart
  <2>1. ReadAddress(r) => r \in Showing /\ restart' = restart
    BY DEF ReadAddress, ui
  <2> QED
    BY <2>1, Constants DEF Showing
<1>5. RestartMenu(r) => /\ restart[r].pc = "menu" /\ restart'[r].pc = "stop"
                        /\ \A q \in Restarts \ {r} : restart'[q] = restart[q]
  BY RestartGoes DEF RestartMenu
<1>6. RestartStop(r) => /\ restart[r].pc = "stop" /\ restart'[r].pc = "start"
                        /\ \A q \in Restarts \ {r} : restart'[q] = restart[q]
  BY RestartGoes DEF RestartStop
<1>7. RestartStart(r) => /\ restart[r].pc = "start" /\ restart'[r].pc = "idle"
                         /\ \A q \in Restarts \ {r} : restart'[q] = restart[q]
  BY RestartGoes DEF RestartStart
<1> QED
  BY <1>1, <1>2, <1>3, <1>4, <1>5, <1>6, <1>7 DEF RestartStep

\* What an edit by hand and the late end of a run leave alone.
LEMMA OutsideStep ==
    ASSUME EditByHand \/ LateEnd
    PROVE  UNCHANGED <<os, app, mem, menu, seen, dialog, restart, toggle, saving, dirty,
                       overlap, clash, declined, crossed, raced>>
BY DEF EditByHand, LateEnd, shown, ui, disk, history

\* The "check for updates" entry has nothing to do with the address.
LEMMA ToggleStep ==
    ASSUME TypeOK, Toggle \/ ToggleOpen \/ ToggleWrite
    PROVE  /\ UNCHANGED <<os, app, running, menu, seen, dialog, restart, overlap, edited, declined,
                          crossed, raced, promised>>
           /\ mem'["net"] = mem["net"]
           /\ Toggle => Up /\ os = "mac" /\ toggle.pc = "idle" /\ toggle'.pc = "open" /\ toggle'.cfg = mem'
           /\ ToggleOpen => toggle.pc = "open" /\ toggle'.pc = "write" /\ toggle'.cfg = toggle.cfg
           /\ ToggleWrite => toggle.pc = "write" /\ toggle'.pc = "idle"
<1>1. UNCHANGED <<os, app, running, menu, seen, dialog, restart, overlap, edited, declined,
                  crossed, raced, promised>>
  BY DEF Toggle, ToggleOpen, ToggleWrite, shown, history
<1>2. mem'["net"] = mem["net"]
  BY DEF Toggle, ToggleOpen, ToggleWrite, TypeOK, Config, Keys
<1>3. toggle \in ToggleRec
  BY DEF TypeOK
<1> QED
  BY <1>1, <1>2, <1>3 DEF Toggle, ToggleOpen, ToggleWrite, ToggleRec

\* The files and windows that OpenFile and WriteFile speak of.
LEMMA NextOpen ==
    ASSUME TypeOK, NothingOpen, SavingKnown, [Next]_vars
    PROVE  NothingOpen' /\ SavingKnown'
<1>1. CASE BootStep \/ Kill
  <2>1. CASE Boot \/ BootStart
    BY <1>1, <2>1 DEF Boot, BootStart, NothingOpen, SavingKnown, disk, ui, Up
  <2>2. CASE BootOpen
    BY <2>2, Constants DEF BootOpen, OpenFile, NothingOpen, SavingKnown, ui, Up
  <2>3. CASE BootWrite
    BY <2>3, Constants DEF BootWrite, WriteFile, NothingOpen, SavingKnown, ui, Up
  <2>4. CASE Kill
    BY <2>4 DEF Kill, NothingOpen, SavingKnown, Up, Closed, NoToggle, NoRestart
  <2> QED
    BY <1>1, <2>1, <2>2, <2>3, <2>4 DEF BootStep
<1>2. ASSUME NEW d \in Dialogs, User(d) \/ DialogStep(d) PROVE NothingOpen' /\ SavingKnown'
  <2>0. UNCHANGED <<app, restart, toggle>> /\ \A e \in Dialogs \ {d} : dialog'[e] = dialog[e]
    BY <1>2, WindowStep
  <2>1. Up /\ Up'
    BY <1>2, WindowStep DEF NothingOpen, User, DialogStep, Up
  <2>2. CASE Save(d)
    <3>1. saving' = saving \cup {d} /\ dialog'[d].pc = "write"
      BY <1>2, <2>2, WindowStep DEF Save, OpenFile
    <3> QED
      BY <2>0, <2>1, <3>1, Constants DEF NothingOpen, SavingKnown
  <2>3. CASE Write(d)
    <3>1. saving' = saving \ {d} /\ dialog'[d].pc # "write"
      BY <1>2, <2>3, WindowStep DEF Write, WriteFile
    <3> QED
      BY <2>0, <2>1, <3>1, Constants DEF NothingOpen, SavingKnown
  <2>4. CASE ~Save(d) /\ ~Write(d)
    <3>1. dialog[d].pc # "write" /\ dialog'[d].pc # "write"
      BY <1>2, <2>4, WindowStep DEF User, DialogStep
    <3>2. saving' = saving
      BY <1>2, <2>4 DEF User, DialogStep, Open, Edit, Cancel, SaveNothing, Answer, Publish,
         ReadAddress, ShowMenu, DialogStop, DialogStart, disk
    <3> QED
      BY <2>0, <2>1, <3>1, <3>2 DEF NothingOpen, SavingKnown
  <2> QED
    BY <2>2, <2>3, <2>4
<1>3. ASSUME NEW r \in Restarts, Restart(r) \/ RestartStep(r) PROVE NothingOpen' /\ SavingKnown'
  <2>1. Up
    BY <1>3, ThreadStep DEF NothingOpen, RestartStep
  <2>2. UNCHANGED <<app, saving, dialog, toggle>>
    BY <1>3, ThreadStep
  <2> QED
    BY <2>1, <2>2 DEF NothingOpen, SavingKnown, Up
<1>4. CASE Toggle \/ ToggleOpen \/ ToggleWrite
  <2>1. Up /\ UNCHANGED <<app, dialog, restart>>
    BY <1>4, ToggleStep DEF NothingOpen
  <2>2. Toggle => saving' = saving /\ toggle.pc = "idle" /\ toggle'.pc = "open"
    BY DEF Toggle, disk
  <2>3. ToggleOpen => saving' = saving \cup {"toggle"} /\ toggle'.pc = "write"
    BY ToggleStep DEF ToggleOpen, OpenFile
  <2>4. ToggleWrite => saving' = saving \ {"toggle"} /\ toggle'.pc = "idle"
    BY ToggleStep DEF ToggleWrite, WriteFile
  <2> QED
    BY <1>4, <2>1, <2>2, <2>3, <2>4, Constants DEF NothingOpen, SavingKnown, Up
<1>5. CASE EditByHand \/ LateEnd
  BY <1>5, OutsideStep DEF NothingOpen, SavingKnown, Up
<1>6. CASE UNCHANGED vars
  BY <1>6 DEF vars, disk, ui, NothingOpen, SavingKnown, Up
<1> QED
  BY <1>1, <1>2, <1>3, <1>4, <1>5, <1>6 DEF Next

-----------------------------------------------------------------------------
(* The menu.                                                               *)

\* Who is setting the menu after a step of one window or of one thread.
LEMMA ShowingStep ==
    ASSUME TypeOK, TypeOK'
    PROVE  /\ \A t \in Dialogs : t \in Showing <=> dialog[t].pc = "menu"
           /\ \A t \in Restarts : t \in Showing <=> restart[t].pc = "menu"
           /\ \A t \in Dialogs : t \in Showing' <=> dialog'[t].pc = "menu"
           /\ \A t \in Restarts : t \in Showing' <=> restart'[t].pc = "menu"
           /\ Showing \subseteq Dialogs \cup Restarts /\ Showing' \subseteq Dialogs \cup Restarts
BY Constants DEF Showing

\* A change of the settings that meets nobody who is setting the menu.
LEMMA MenuFollows ==
    ASSUME TypeOK, TypeOK', SeenInv, NEW t \in Dialogs \cup Restarts, seen' = seen,
           t \notin Showing, t \in Showing', \A u \in (Dialogs \cup Restarts) \ {t} : u \in Showing' <=> u \in Showing,
           crossed' = (Showing # {})
    PROVE  SeenInv' /\ MenuInv'
<1>1. seen[t] = <<>>
  BY DEF SeenInv
<1>2. SeenInv'
  BY DEF SeenInv
<1>3. ASSUME ~crossed' PROVE \A u \in Showing' : u = t
  BY <1>3, ShowingStep
<1>4. Len(<<>>) = 0
  OBVIOUS
<1>5. SawCurrent(t)'
  BY <1>1, <1>4 DEF SawCurrent
<1> QED
  BY <1>2, <1>3, <1>5 DEF MenuInv

\* A thread reads the address once more.
LEMMA MenuRead ==
    ASSUME TypeOK, TypeOK', SeenInv, MenuInv, NEW t \in Dialogs \cup Restarts, ReadAddress(t)
    PROVE  SeenInv' /\ MenuInv'
<1>1. /\ UNCHANGED <<app, mem, menu, dialog, restart, crossed>> /\ t \in Showing
      /\ seen' = [seen EXCEPT ![t] = Append(seen[t], mem["net"])]
  BY DEF ReadAddress, ui, history
<1>2. Showing' = Showing
  BY <1>1 DEF Showing
<1>3. SeenInv'
  BY <1>1, <1>2 DEF SeenInv, TypeOK
<1>4. SawCurrent(t) => SawCurrent(t)'
  <2>1. seen'[t] = Append(seen[t], mem["net"]) /\ seen[t] \in Seq(Nets) /\ mem["net"] \in Nets
    BY <1>1, InConfig DEF TypeOK
  <2>2. /\ Len(seen'[t]) = Len(seen[t]) + 1
        /\ \A i \in 1..Len(seen'[t]) : seen'[t][i] = IF i \in 1..Len(seen[t]) THEN seen[t][i] ELSE mem["net"]
    BY <2>1
  <2> QED
    BY <1>1, <2>2 DEF SawCurrent
<1>5. \A u \in (Dialogs \cup Restarts) \ {t} : SawCurrent(u) => SawCurrent(u)'
  <2>1. \A u \in (Dialogs \cup Restarts) \ {t} : seen'[u] = seen[u]
    BY <1>1 DEF TypeOK
  <2> QED
    BY <1>1, <2>1 DEF SawCurrent
<1> QED
  BY <1>1, <1>2, <1>3, <1>4, <1>5, ShowingStep DEF MenuInv, Up

\* A thread that has read the address twice sets the menu.
LEMMA MenuSet ==
    ASSUME TypeOK, TypeOK', SeenInv, MenuInv, NEW t \in Dialogs \cup Restarts, SetMenu(t),
           t \in Showing, t \notin Showing', \A u \in (Dialogs \cup Restarts) \ {t} : u \in Showing' <=> u \in Showing,
           UNCHANGED <<app, mem, crossed>>
    PROVE  SeenInv' /\ MenuInv'
<1>1. seen' = [seen EXCEPT ![t] = <<>>] /\ menu' = seen[t] /\ Len(seen[t]) = 2
  BY DEF SetMenu
<1>2. seen'[t] = <<>> /\ \A u \in (Dialogs \cup Restarts) \ {t} : seen'[u] = seen[u]
  BY <1>1 DEF TypeOK
<1>3. SeenInv'
  BY <1>2 DEF SeenInv
<1>4. SawCurrent(t) => menu' = Address(mem["net"])
  <2>1. seen[t] \in Seq(Nets)
    BY DEF TypeOK
  <2>2. SawCurrent(t) => seen[t][1] = mem["net"] /\ seen[t][2] = mem["net"]
    BY <1>1 DEF SawCurrent
  <2>3. seen[t] = <<seen[t][1], seen[t][2]>>
    BY <1>1, <2>1
  <2> QED
    BY <1>1, <2>2, <2>3 DEF Address
<1>5. \A u \in (Dialogs \cup Restarts) \ {t} : SawCurrent(u) => SawCurrent(u)'
  BY <1>2 DEF SawCurrent
<1>6. \A u \in Showing' : u \in Showing /\ u \in (Dialogs \cup Restarts) \ {t}
  BY ShowingStep
<1> QED
  BY <1>3, <1>4, <1>5, <1>6 DEF MenuInv, Up

\* Steps that have nothing to do with the menu.
LEMMA MenuKept ==
    ASSUME SeenInv, MenuInv, Showing' = Showing, mem'["net"] = mem["net"],
           UNCHANGED <<app, menu, seen, crossed>>
    PROVE  SeenInv' /\ MenuInv'
BY DEF SeenInv, MenuInv, SawCurrent, Up

\* Whoever changes the settings sets the menu afterwards, to what they are then.
LEMMA NextMenu ==
    ASSUME TypeOK, TypeOK', NothingOpen, SeenInv, MenuInv, [Next]_vars
    PROVE  SeenInv' /\ MenuInv'
<1>1. CASE Kill
  <2>1. ~Up' /\ seen' = NothingSeen
    BY <1>1 DEF Kill, Up
  <2> QED
    BY <2>1 DEF SeenInv, MenuInv, NothingSeen
<1>2. CASE BootStep
  <2>1. UNCHANGED <<seen, dialog, restart>> /\ ~Up
    BY <1>2 DEF BootStep, Boot, BootOpen, BootWrite, BootStart, ui, shown, Up
  <2>2. Showing = {} /\ Showing' = {}
    BY <2>1 DEF NothingOpen, Showing
  <2>3. Up' => menu' = Address(mem'["net"])
    BY <1>2 DEF BootStep, Boot, BootOpen, BootWrite, BootStart, Up
  <2> QED
    BY <2>1, <2>2, <2>3 DEF SeenInv, MenuInv
<1>3. ASSUME NEW d \in Dialogs, User(d) \/ DialogStep(d) PROVE SeenInv' /\ MenuInv'
  <2>1. UNCHANGED <<app, restart>> /\ \A e \in Dialogs \ {d} : dialog'[e] = dialog[e]
    BY <1>3, WindowStep
  <2>2. \A u \in (Dialogs \cup Restarts) \ {d} : u \in Showing' <=> u \in Showing
    BY <2>1, ShowingStep
  <2>3. CASE Publish(d)
    <3>1. d \notin Showing /\ d \in Showing'
      BY <1>3, <2>3, WindowStep, ShowingStep
    <3>2. seen' = seen /\ crossed' = (Showing # {})
      BY <2>3 DEF Publish, shown
    <3> QED
      BY <2>2, <3>1, <3>2, MenuFollows
  <2>4. CASE ReadAddress(d)
    BY <2>4, MenuRead
  <2>5. CASE ShowMenu(d)
    <3>1. d \in Showing /\ d \notin Showing'
      BY <1>3, <2>5, WindowStep, ShowingStep
    <3>2. SetMenu(d) /\ UNCHANGED <<app, mem, crossed>>
      BY <2>5 DEF ShowMenu, history
    <3> QED
      BY <2>2, <3>1, <3>2, MenuSet
  <2>6. CASE ~Publish(d) /\ ~ReadAddress(d) /\ ~ShowMenu(d)
    <3>1. d \notin Showing /\ d \notin Showing'
      BY <1>3, <2>6, WindowStep, ShowingStep DEF User, DialogStep
    <3>2. UNCHANGED <<menu, seen, mem, crossed>>
      BY <1>3, <2>6 DEF User, DialogStep, Open, Edit, Cancel, SaveNothing, Save, Answer, Write,
         DialogStop, Stop, DialogStart, Start, shown, history
    <3>3. Showing' = Showing
      BY <2>2, <3>1, ShowingStep
    <3> QED
      BY <2>1, <3>2, <3>3, MenuKept
  <2> QED
    BY <2>3, <2>4, <2>5, <2>6
<1>4. ASSUME NEW r \in Restarts, Restart(r) \/ RestartStep(r) PROVE SeenInv' /\ MenuInv'
  <2>1. UNCHANGED <<app, dialog>> /\ \A q \in Restarts \ {r} : restart'[q] = restart[q]
    BY <1>4, ThreadStep
  <2>2. \A u \in (Dialogs \cup Restarts) \ {r} : u \in Showing' <=> u \in Showing
    BY <2>1, ShowingStep
  <2>3. CASE RestartAssign(r)
    <3>1. r \notin Showing /\ r \in Showing'
      BY <1>4, <2>3, ThreadStep, ShowingStep
    <3>2. seen' = seen /\ crossed' = (Showing # {})
      BY <2>3 DEF RestartAssign, shown
    <3> QED
      BY <2>2, <3>1, <3>2, MenuFollows
  <2>4. CASE ReadAddress(r)
    BY <2>4, MenuRead
  <2>5. CASE RestartMenu(r)
    <3>1. r \in Showing /\ r \notin Showing'
      BY <1>4, <2>5, ThreadStep, ShowingStep
    <3>2. SetMenu(r) /\ UNCHANGED <<app, mem, crossed>>
      BY <2>5 DEF RestartMenu
    <3> QED
      BY <2>2, <3>1, <3>2, MenuSet
  <2>6. CASE Restart(r) \/ RestartStop(r) \/ RestartStart(r)
    <3>1. r \notin Showing /\ r \notin Showing'
      BY <1>4, <2>6, ThreadStep, ShowingStep
    <3>2. UNCHANGED <<menu, seen, mem, crossed>>
      BY <2>6 DEF Restart, RestartStop, Stop, RestartStart, Start, shown
    <3>3. Showing' = Showing
      BY <2>2, <3>1, ShowingStep
    <3> QED
      BY <2>1, <3>2, <3>3, MenuKept
  <2> QED
    BY <1>4, <2>3, <2>4, <2>5, <2>6 DEF RestartStep
<1>5. CASE Toggle \/ ToggleOpen \/ ToggleWrite
  <2>1. UNCHANGED <<app, menu, seen, dialog, restart, crossed>> /\ mem'["net"] = mem["net"]
    BY <1>5, ToggleStep
  <2> QED
    BY <2>1, MenuKept DEF Showing
<1>6. CASE EditByHand \/ LateEnd
  <2>1. UNCHANGED <<app, menu, seen, dialog, restart, crossed, mem>>
    BY <1>6, OutsideStep
  <2> QED
    BY <2>1, MenuKept DEF Showing
<1>7. CASE UNCHANGED vars
  <2>1. UNCHANGED <<app, menu, seen, dialog, restart, crossed, mem>>
    BY <1>7 DEF vars, ui, shown, history
  <2> QED
    BY <2>1, MenuKept DEF Showing
<1> QED
  BY <1>1, <1>2, <1>3, <1>4, <1>5, <1>6, <1>7 DEF Next

-----------------------------------------------------------------------------
(* What the proxy uses.                                                    *)

\* A window that is open alone on Windows or Linux has the address there is.
LEMMA NextSnap ==
    ASSUME TypeOK, NothingOpen, SnapInv, TkInv, [Next]_vars
    PROVE  SnapInv'
<1> SUFFICES ASSUME os' = "tk", ~overlap' PROVE SnapInv'
  BY DEF SnapInv
<1>1. CASE Kill
  BY <1>1 DEF Kill, SnapInv, Shown, Closed
<1>2. CASE BootStep
  <2>1. \A d \in Dialogs : dialog[d].pc = "closed"
    BY <1>2 DEF NothingOpen, Up, BootStep, Boot, BootOpen, BootWrite, BootStart
  <2>2. dialog' = dialog
    BY <1>2 DEF BootStep, Boot, BootOpen, BootWrite, BootStart, ui
  <2> QED
    BY <2>1, <2>2 DEF SnapInv, Shown
<1>3. ASSUME NEW d \in Dialogs, User(d) \/ DialogStep(d) PROVE SnapInv'
  <2>1. os = "tk" /\ ~overlap
    BY <1>3, WindowOverlap, WindowStep
  <2>2. CASE Open(d)
    <3>1. \A e \in Dialogs : ~Shown(e)
      BY <2>2 DEF Open
    <3>2. dialog'[d].snap = mem /\ mem' = mem
      BY <2>1, <2>2, OpenTypes DEF Open
    <3> QED
      BY <1>3, <2>2, <3>1, <3>2, WindowStep DEF SnapInv, Shown
  <2>3. CASE Edit(d)
    <3>1. dialog'[d].snap["net"] = dialog[d].snap["net"] /\ mem' = mem
      BY <2>3, EditTypes DEF Edit
    <3> QED
      BY <1>3, <2>1, <2>3, <3>1, WindowStep DEF SnapInv, Shown
  <2>4. CASE Save(d) \/ Write(d)
    <3>1. dialog'[d].snap = dialog[d].snap /\ mem' = mem
      BY <2>4, GoesTo DEF Save, Write
    <3> QED
      BY <1>3, <2>1, <2>4, <3>1, WindowStep DEF SnapInv, Shown
  <2>5. CASE Publish(d)
    BY <1>3, <2>1, <2>5, WindowStep DEF SnapInv, Shown
  <2>6. CASE Cancel(d) \/ SaveNothing(d) \/ ReadAddress(d) \/ ShowMenu(d) \/ Answer(d)
             \/ DialogStop(d) \/ DialogStart(d)
    <3>1. mem' = mem
      BY <2>6 DEF Cancel, SaveNothing, ReadAddress, ShowMenu, Answer, DialogStop, DialogStart
    <3>2. dialog'[d].pc \notin {"edit", "write", "publish"} /\ (Shown(d)' => Shown(d))
      BY <1>3, <2>6, WindowStep DEF Shown
    <3> QED
      BY <1>3, <2>1, <3>1, <3>2, WindowStep DEF SnapInv, Shown
  <2> QED
    BY <1>3, <2>2, <2>3, <2>4, <2>5, <2>6 DEF User, DialogStep
<1>4. ASSUME NEW r \in Restarts, Restart(r) \/ RestartStep(r) PROVE SnapInv'
  <2>1. UNCHANGED <<os, dialog, overlap>>
    BY <1>4, ThreadStep
  <2>2. os = "tk" => mem' = mem
    <3>1. ~RestartAssign(r) => mem' = mem
      BY <1>4 DEF Restart, RestartStep, ReadAddress, RestartMenu, RestartStop, RestartStart
    <3>2. RestartAssign(r) => restart[r].pc = "assign"
      BY DEF RestartAssign
    <3> QED
      BY <3>1, <3>2 DEF TkInv
  <2> QED
    BY <2>1, <2>2 DEF SnapInv, Shown
<1>5. CASE Toggle \/ ToggleOpen \/ ToggleWrite
  BY <1>5, ToggleStep DEF SnapInv, Shown
<1>6. CASE EditByHand \/ LateEnd
  BY <1>6, OutsideStep DEF SnapInv, Shown
<1>7. CASE UNCHANGED vars
  BY <1>7 DEF vars, ui, history, SnapInv, Shown
<1> QED
  BY <1>1, <1>2, <1>3, <1>4, <1>5, <1>6, <1>7 DEF Next

\* A start brings the settings there are, if the proxy is off, and leaves it
\* alone if not.
LEMMA StartEffect ==
    ASSUME TypeOK, Start, ~raced', mem' = mem
    PROVE  /\ ~raced
           /\ running = Off => running' = Started'
           /\ running # Off => running' = running /\ Started' = Started /\ declined' = declined
<1>1. ~raced
  BY DEF Start
<1>2. running' = IF running = Off THEN Started ELSE running
  BY <1>1 DEF Start
<1>3. Started' = Started
  BY DEF Started
<1>4. declined' = (declined /\ running # Off)
  BY DEF Start
<1>5. running # Off => declined' = declined
  BY <1>4 DEF TypeOK
<1> QED
  BY <1>1, <1>2, <1>3, <1>5

\* A restart that follows is still to follow as long as its thread has not come
\* to its end.
LEMMA NextRunning ==
    ASSUME TypeOK, NothingOpen, SnapInv, TkInv, RunningInv, [Next]_vars
    PROVE  RunningInv'
<1> SUFFICES ASSUME Up', ~declined', ~raced', os' = "tk" => ~overlap'
             PROVE  running' = Started' \/ RestartFollows'
  BY DEF RunningInv
<1>1. CASE BootStep \/ Kill
  <2>1. BootStart
    BY <1>1 DEF BootStep, Boot, BootOpen, BootWrite, Kill, Up
  <2> QED
    BY <2>1 DEF BootStart, Started
<1>2. ASSUME NEW d \in Dialogs, User(d) \/ DialogStep(d)
      PROVE  running' = Started' \/ RestartFollows'
  <2>1. Up /\ UNCHANGED <<os, app, restart>>
    BY <1>2, WindowStep DEF Up
  <2>2. os = "tk" => ~overlap
    BY <1>2, <2>1, WindowOverlap
  <2>3. \A e \in Dialogs \ {d} : ComesToStop(e) => ComesToStop(e)'
    BY <1>2, <2>1, WindowStep DEF ComesToStop, NetChanged
  <2>4. CASE Open(d) \/ Edit(d) \/ Cancel(d) \/ SaveNothing(d) \/ Save(d) \/ Write(d)
    <3>1. UNCHANGED <<running, mem, declined, raced>>
      BY <2>4 DEF Open, Edit, Cancel, SaveNothing, Save, Write, history
    <3>2. ~ComesToStop(d) /\ dialog[d].pc # "start"
      BY <1>2, <2>4, WindowStep DEF ComesToStop
    <3> QED
      BY <1>2, <2>1, <2>2, <2>3, <3>1, <3>2, WindowStep DEF RunningInv, RestartFollows, Started
  <2>5. CASE Publish(d)
    <3>1. dialog'[d].form = dialog[d].form /\ dialog'[d].snap = dialog[d].snap
      BY <2>5, GoesTo DEF Publish
    <3>2. UNCHANGED <<running, declined, raced>> /\ ~ComesToStop(d) /\ dialog[d].pc # "start"
      BY <1>2, <2>5, WindowStep DEF Publish, ComesToStop
    <3>3. CASE os = "tk" => NetChanged(d)
      <4>1. ComesToStop(d)'
        BY <1>2, <2>1, <2>5, <3>1, <3>3, WindowStep DEF ComesToStop, NetChanged
      <4> QED
        BY <4>1 DEF RestartFollows
    <3>4. CASE os = "tk" /\ ~NetChanged(d)
      <4>1. mem'["net"] = dialog[d].form["net"]
        BY <2>5, <3>4 DEF Publish, Merged, SavedKeys, FormKeys, Keys
      <4>2. mem'["net"] = mem["net"]
        BY <1>2, <2>2, <2>5, <3>4, <4>1, WindowStep DEF SnapInv, NetChanged
      <4> QED
        BY <1>2, <2>1, <2>2, <2>3, <2>5, <3>2, <4>2, WindowStep DEF RunningInv, RestartFollows, Started
    <3> QED
      BY <3>3, <3>4
  <2>6. CASE ReadAddress(d)
    <3>1. UNCHANGED <<running, mem, declined, raced, dialog>>
      BY <2>6 DEF ReadAddress, ui, history
    <3> QED
      BY <2>1, <2>2, <3>1 DEF RunningInv, RestartFollows, ComesToStop, NetChanged, Started
  <2>7. CASE ShowMenu(d)
    <3>1. UNCHANGED <<running, mem, declined, raced>> /\ dialog[d].pc = "menu"
      BY <2>7 DEF ShowMenu, history
    <3>2. ComesToStop(d) => ComesToStop(d)'
      <4>1. ComesToStop(d) => Done(d, "ask")
        BY <2>7, <3>1 DEF ComesToStop, ShowMenu
      <4>2. Done(d, "ask") => dialog'[d].pc = "ask"
        BY GoesTo
      <4> QED
        BY <4>1, <4>2 DEF ComesToStop
    <3> QED
      BY <1>2, <2>1, <2>2, <2>3, <3>1, <3>2, WindowStep DEF RunningInv, RestartFollows, Started
  <2>8. CASE Answer(d)
    <3>1. Go(d, "stop")
      BY <2>8 DEF Answer
    <3>2. dialog'[d].pc = "stop"
      BY <3>1, GoesTo
    <3> QED
      BY <3>2 DEF RestartFollows, ComesToStop
  <2>9. CASE DialogStop(d)
    <3>1. running' = Off
      BY <2>9 DEF DialogStop, Stop
    <3> QED
      BY <1>2, <2>9, <3>1, WindowStep DEF RestartFollows
  <2>10. CASE DialogStart(d)
    <3>1. mem' = mem /\ Start /\ ~ComesToStop(d)
      BY <2>10 DEF DialogStart, ComesToStop
    <3>2. CASE running = Off
      BY <3>1, <3>2, StartEffect
    <3>3. CASE running # Off
      <4>1. running' = running /\ ~declined /\ ~raced /\ Started' = Started
        BY <3>1, <3>3, StartEffect
      <4> QED
        BY <1>2, <2>1, <2>2, <2>3, <3>1, <3>3, <4>1, WindowStep DEF RunningInv, RestartFollows
    <3> QED
      BY <3>2, <3>3
  <2> QED
    BY <1>2, <2>4, <2>5, <2>6, <2>7, <2>8, <2>9, <2>10 DEF User, DialogStep
<1>3. ASSUME NEW r \in Restarts, Restart(r) \/ RestartStep(r)
      PROVE  running' = Started' \/ RestartFollows'
  <2>1. Up /\ UNCHANGED <<os, app, dialog, overlap>>
    BY <1>3, ThreadStep DEF Up
  <2>2. \A d \in Dialogs : ComesToStop(d) => ComesToStop(d)'
    BY <2>1 DEF ComesToStop, NetChanged
  <2>3. CASE Restart(r) \/ RestartAssign(r) \/ RestartMenu(r)
    <3>1. restart'[r].pc \in {"assign", "menu", "stop"}
      BY <1>3, <2>3, ThreadStep
    <3> QED
      BY <3>1 DEF RestartFollows
  <2>4. CASE ReadAddress(r)
    <3>1. UNCHANGED <<running, mem, declined, raced, restart>>
      BY <2>4 DEF ReadAddress, ui, history
    <3> QED
      BY <2>1, <2>2, <3>1 DEF RunningInv, RestartFollows, Started
  <2>5. CASE RestartStop(r)
    <3>1. restart'[r].pc = "start" /\ running' = Off
      BY <1>3, <2>5, ThreadStep DEF RestartStop, Stop
    <3> QED
      BY <3>1 DEF RestartFollows
  <2>6. CASE RestartStart(r)
    <3>1. /\ mem' = mem /\ Start /\ restart[r].pc = "start"
          /\ \A q \in Restarts \ {r} : restart'[q] = restart[q]
      BY <1>3, <2>6, ThreadStep DEF RestartStart
    <3>2. CASE running = Off
      BY <3>1, <3>2, StartEffect
    <3>3. CASE running # Off
      <4>1. running' = running /\ ~declined /\ ~raced /\ Started' = Started
        BY <3>1, <3>3, StartEffect
      <4> QED
        BY <2>1, <2>2, <3>1, <3>3, <4>1 DEF RunningInv, RestartFollows
    <3> QED
      BY <3>2, <3>3
  <2> QED
    BY <1>3, <2>3, <2>4, <2>5, <2>6 DEF RestartStep
<1>4. CASE Toggle \/ ToggleOpen \/ ToggleWrite
  <2>1. mem'["net"] = mem["net"] /\ UNCHANGED <<os, app, running, dialog, restart, overlap, declined, raced>>
    BY <1>4, ToggleStep
  <2> QED
    BY <2>1 DEF RunningInv, RestartFollows, ComesToStop, NetChanged, Up, Started
<1>5. CASE EditByHand \/ LateEnd
  <2>1. UNCHANGED <<os, app, mem, dialog, restart, overlap, declined, raced>>
    BY <1>5, OutsideStep
  <2>2. running' = running
    BY <1>5, <2>1 DEF EditByHand, LateEnd
  <2> QED
    BY <2>1, <2>2 DEF RunningInv, RestartFollows, ComesToStop, NetChanged, Up, Started
<1>6. CASE UNCHANGED vars
  BY <1>6 DEF vars, ui, history, RunningInv, RestartFollows, ComesToStop, NetChanged, Up, Started
<1> QED
  BY <1>1, <1>2, <1>3, <1>4, <1>5, <1>6 DEF Next

-----------------------------------------------------------------------------
(* The file.                                                               *)

\* Whoever could save or set the menu at the same time would need the Tk thread.
LEMMA NextTk ==
    ASSUME TypeOK, NothingOpen, TkInv, [Next]_vars
    PROVE  TkInv'
<1> SUFFICES ASSUME os' = "tk" PROVE TkInv'
  BY DEF TkInv
<1>1. CASE Kill
  BY <1>1 DEF Kill, TkInv, Busy, Closed, NoToggle, NoRestart
<1>2. CASE BootStep
  BY <1>2 DEF BootStep, Boot, BootOpen, BootWrite, BootStart, ui, history, TkInv, Busy
<1>3. ASSUME NEW d \in Dialogs, User(d) \/ DialogStep(d) PROVE TkInv'
  <2>1. /\ os = "tk" /\ UNCHANGED <<toggle, restart>>
        /\ \A e \in Dialogs \ {d} : Busy(e)' <=> Busy(e)
    BY <1>3, WindowStep DEF Busy
  <2>2. CASE Save(d)
    <3>1. \A e \in Dialogs : ~Busy(e)
      BY <2>1, <2>2 DEF Save, UiBusy, Busy
    <3>2. ~Midway
      BY <2>1, <3>1 DEF TkInv, Midway, Busy
    <3>3. ~clash' /\ crossed' = crossed
      BY <2>1, <2>2, <3>2 DEF Save, TkInv
    <3> QED
      BY <2>1, <3>1, <3>3 DEF TkInv
  <2>3. CASE Publish(d)
    <3>1. Busy(d)
      BY <1>3, <2>3, WindowStep DEF Busy
    <3>2. dialog[d].pc # "menu"
      BY <1>3, <2>3, WindowStep
    <3>3. Showing = {}
      BY <2>1, <3>1, <3>2 DEF Showing, TkInv, Busy
    <3>4. ~crossed' /\ clash' = clash
      BY <2>3, <3>3 DEF Publish
    <3> QED
      BY <2>1, <3>1, <3>4 DEF TkInv
  <2>4. CASE ~Save(d) /\ ~Publish(d)
    <3>1. UNCHANGED <<clash, crossed>>
      BY <1>3, <2>4 DEF User, DialogStep, Open, Edit, Cancel, SaveNothing, Answer, Write,
         ReadAddress, ShowMenu, DialogStop, Stop, DialogStart, Start, history
    <3>2. Busy(d)' => Busy(d)
      BY <1>3, <2>4, WindowStep DEF User, DialogStep, Busy
    <3> QED
      BY <2>1, <3>1, <3>2 DEF TkInv
  <2> QED
    BY <2>2, <2>3, <2>4
<1>4. ASSUME NEW r \in Restarts, Restart(r) \/ RestartStep(r) PROVE TkInv'
  <2>1. os = "tk" /\ UNCHANGED <<toggle, dialog>> /\ \A q \in Restarts \ {r} : restart'[q] = restart[q]
    BY <1>4, ThreadStep
  <2>2. restart[r].pc \notin {"assign", "menu"}
    BY <2>1 DEF TkInv
  <2>3. Restart(r) \/ RestartStop(r) \/ RestartStart(r)
    BY <1>4, <2>2, ThreadStep DEF RestartStep
  <2>4. restart'[r].pc \notin {"assign", "menu"}
    BY <1>4, <2>1, <2>3, ThreadStep
  <2>5. UNCHANGED <<clash, crossed>>
    BY <2>1, <2>3 DEF Restart, RestartStop, Stop, RestartStart, Start
  <2> QED
    BY <2>1, <2>4, <2>5 DEF TkInv, Busy
<1>5. CASE Toggle \/ ToggleOpen \/ ToggleWrite
  BY <1>5, ToggleStep DEF TkInv
<1>6. CASE EditByHand \/ LateEnd
  BY <1>6, OutsideStep DEF TkInv, Busy
<1>7. CASE UNCHANGED vars
  BY <1>7 DEF vars, ui, history, TkInv, Busy
<1> QED
  BY <1>1, <1>2, <1>3, <1>4, <1>5, <1>6, <1>7 DEF Next

\* Nobody but the main thread writes before the menu is up.
LEMMA NextBoot ==
    ASSUME TypeOK, NothingOpen, SavingKnown, BootInv, [Next]_vars
    PROVE  BootInv'
<1>1. CASE BootStep
  <2>1. saving \subseteq {"boot"} /\ (app = "off" => saving = {})
    <3>1. saving \subseteq Writers /\ \A d \in Dialogs : d \notin saving
      BY <1>1 DEF TypeOK, SavingKnown, NothingOpen, Up, BootStep, Boot, BootOpen, BootWrite, BootStart
    <3>2. "toggle" \notin saving
      BY <1>1 DEF SavingKnown, NothingOpen, Up, BootStep, Boot, BootOpen, BootWrite, BootStart
    <3> QED
      BY <3>1, <3>2 DEF Writers, SavingKnown
  <2>2. CASE Boot
    BY <2>1, <2>2 DEF Boot, BootInv, TypeOK, disk, Loaded
  <2>3. CASE BootOpen
    BY <2>3 DEF BootOpen, OpenFile, BootInv
  <2>4. CASE BootWrite
    BY <2>1, <2>4 DEF BootWrite, WriteFile, BootInv
  <2>5. CASE BootStart
    BY <2>5 DEF BootStart, BootInv
  <2> QED
    BY <1>1, <2>2, <2>3, <2>4, <2>5 DEF BootStep
<1>2. CASE Kill
  BY <1>2 DEF Kill, BootInv
<1>3. ASSUME NEW d \in Dialogs, User(d) \/ DialogStep(d) PROVE BootInv'
  <2>1. Up /\ app' = app
    BY <1>3, WindowStep DEF NothingOpen, User, DialogStep
  <2> QED
    BY <2>1 DEF BootInv, Up
<1>4. ASSUME NEW r \in Restarts, Restart(r) \/ RestartStep(r) PROVE BootInv'
  <2>1. Up /\ app' = app
    BY <1>4, ThreadStep DEF NothingOpen, RestartStep
  <2> QED
    BY <2>1 DEF BootInv, Up
<1>5. CASE Toggle \/ ToggleOpen \/ ToggleWrite
  <2>1. Up /\ app' = app
    BY <1>5, ToggleStep DEF NothingOpen
  <2> QED
    BY <2>1 DEF BootInv, Up
<1>6. CASE EditByHand
  BY <1>6 DEF EditByHand, BootInv
<1>7. CASE LateEnd \/ UNCHANGED vars
  BY <1>7 DEF LateEnd, vars, disk, history, BootInv, Loaded
<1> QED
  BY <1>1, <1>2, <1>3, <1>4, <1>5, <1>6, <1>7 DEF Next

\* What is in memory is in the file whenever nobody is in the middle of a save
\* or a load, and who is has the file for himself: a window, ...
LEMMA FileWindow ==
    ASSUME TypeOK, NothingOpen, SavingKnown, FileInv, NEW d \in Dialogs, User(d) \/ DialogStep(d)
    PROVE  FileInv'
<1> SUFFICES ASSUME Up', ~clash', ~edited' PROVE FileInv'
  BY DEF FileInv
<1>1. /\ Up /\ ~clash /\ ~edited /\ UNCHANGED <<os, app, toggle, restart>>
      /\ \A r \in Restarts : Loads(r)' <=> Loads(r)
  <2>1. Up
    BY WindowStep DEF NothingOpen, User, DialogStep
  <2>2. ~clash
    BY DEF User, DialogStep, Open, Edit, Cancel, SaveNothing, Save, Answer, Write, Publish,
       ReadAddress, ShowMenu, DialogStop, Stop, DialogStart, Start, history
  <2> QED
    BY <2>1, <2>2, WindowStep DEF Loads
<1>2. \A e \in Dialogs \ {d} : dialog'[e] = dialog[e] /\ Merged(e)' = Merged(e)
  BY <1>1, WindowStep DEF Merged, SavedKeys, FormKeys
<1>3. CASE Save(d)
  <2>1. ~Midway
    BY <1>3 DEF Save, TypeOK
  <2>2. dirty' = dirty /\ mem' = mem
    BY <1>3 DEF Save, OpenFile
  <2>3. /\ toggle.pc = "idle" /\ (\A e \in Dialogs : ~Saves(e)) /\ (\A r \in Restarts : ~Loads(r))
    BY <2>1 DEF Midway, Saves, Loads
  <2>4. dialog'[d].pc = "write"
    BY <1>3, WindowStep
  <2>5. \A e \in Dialogs \ {d} : ~Saves(e)' /\ dialog'[e].pc # "publish"
    BY <1>2, <2>3 DEF Saves
  <2>6. Saves(d)'
    BY <2>4 DEF Saves
  <2> QED
    BY <1>1, <2>2, <2>3, <2>4, <2>5, <2>6 DEF FileInv
<1>4. CASE Write(d)
  <2>1. /\ dialog[d].pc = "write" /\ dialog'[d].pc = "publish" /\ mem' = mem
        /\ dialog'[d].form = dialog[d].form
    BY <1>4, WindowStep, GoesTo DEF Write
  <2>2. Saves(d) /\ Saves(d)'
    BY <2>1 DEF Saves
  <2>3. \A e \in Dialogs \ {d} : ~Saves(e) /\ ~Saves(e)'
    BY <1>1, <1>2, <2>2 DEF FileInv, Saves
  <2>4. dirty = {} /\ toggle.pc = "idle" /\ \A r \in Restarts : ~Loads(r)
    BY <1>1, <2>2 DEF FileInv
  <2>5. saving \subseteq {d}
    BY <1>1, <2>3, <2>4 DEF TypeOK, SavingKnown, Writers, Saves, Up
  <2>6. dirty' = {} /\ file' = Merged(d)
    BY <1>4, <2>4, <2>5 DEF Write, WriteFile
  <2>7. Merged(d)' = Merged(d)
    BY <1>1, <2>1 DEF Merged, SavedKeys, FormKeys
  <2>8. \A e \in Dialogs : dialog'[e].pc = "publish" => e = d
    BY <2>3 DEF Saves
  <2> QED
    BY <1>1, <2>2, <2>3, <2>4, <2>6, <2>7, <2>8 DEF FileInv
<1>5. CASE Publish(d)
  <2>1. /\ dialog[d].pc = "publish" /\ dialog'[d].pc = "menu"
        /\ UNCHANGED <<file, dirty>>
    BY <1>5, WindowStep DEF Publish, disk
  <2>2. Saves(d) /\ ~Saves(d)'
    BY <2>1 DEF Saves
  <2>3. \A e \in Dialogs \ {d} : ~Saves(e) /\ ~Saves(e)'
    BY <1>1, <1>2, <2>2 DEF FileInv, Saves
  <2>4. /\ dirty = {} /\ toggle.pc = "idle" /\ file = Merged(d)
        /\ \A r \in Restarts : ~Loads(r)
    BY <1>1, <2>1, <2>2 DEF FileInv
  <2>5. \A k \in SavedKeys : mem'[k] = Merged(d)[k]
    BY <1>5 DEF Publish, SavedKeys, FormKeys, Keys
  <2>6. InFile'
    <3>1. file' # Torn
      BY <2>1, <2>4, MergedType, Constants
    <3>2. SavedKeys' = SavedKeys
      BY <1>1 DEF SavedKeys, FormKeys
    <3> QED
      BY <2>1, <2>4, <2>5, <3>1, <3>2 DEF InFile
  <2>7. \A e \in Dialogs : dialog'[e].pc # "publish"
    BY <2>2, <2>3 DEF Saves
  <2> QED
    BY <1>1, <2>1, <2>2, <2>3, <2>4, <2>6, <2>7 DEF FileInv
<1>6. CASE ~Save(d) /\ ~Write(d) /\ ~Publish(d)
  <2>1. UNCHANGED <<mem, file, dirty>>
    BY <1>6 DEF User, DialogStep, Open, Edit, Cancel, SaveNothing, Answer,
       ReadAddress, ShowMenu, DialogStop, DialogStart, disk
  <2>2. dialog[d].pc \notin {"write", "publish"} /\ dialog'[d].pc \notin {"write", "publish"}
    BY <1>6, WindowStep DEF User, DialogStep
  <2>3. /\ \A e \in Dialogs : Saves(e)' <=> Saves(e)
        /\ \A e \in Dialogs : dialog'[e].pc = "publish" <=> dialog[e].pc = "publish"
        /\ \A e \in Dialogs : dialog'[e].pc = "publish" => Merged(e)' = Merged(e)
    BY <1>2, <2>2 DEF Saves
  <2>4. SavedKeys' = SavedKeys /\ (InFile' <=> InFile)
    BY <1>1, <2>1 DEF InFile, SavedKeys, FormKeys
  <2> QED
    BY <1>1, <2>1, <2>3, <2>4 DEF FileInv
<1> QED
  BY <1>3, <1>4, <1>5, <1>6

\* ... a restart that puts the file in the place of what is in memory, ...
LEMMA FileThread ==
    ASSUME TypeOK, NothingOpen, FileInv, NEW r \in Restarts, Restart(r) \/ RestartStep(r)
    PROVE  FileInv'
<1> SUFFICES ASSUME Up', ~clash', ~edited' PROVE FileInv'
  BY DEF FileInv
<1>1. /\ Up /\ ~edited /\ UNCHANGED <<os, app, file, dirty, dialog, toggle>>
      /\ \A q \in Restarts \ {r} : restart'[q] = restart[q]
  BY ThreadStep DEF NothingOpen, RestartStep, Up
<1>2. ~clash
  BY DEF RestartStep, Restart, RestartAssign, ReadAddress, RestartMenu, RestartStop, Stop,
     RestartStart, Start, history
<1>3. /\ SavedKeys' = SavedKeys
      /\ \A d \in Dialogs : /\ Saves(d)' <=> Saves(d)
                            /\ Merged(d)' = Merged(d)
  BY <1>1 DEF Saves, Merged, SavedKeys, FormKeys
<1>4. CASE Restart(r) /\ os # "tk"
  <2>1. ~Midway /\ mem' = mem /\ restart'[r].cfg = Loaded
    BY <1>4, ThreadStep DEF Restart, TypeOK
  <2>2. /\ toggle.pc = "idle" /\ (\A d \in Dialogs : ~Saves(d)) /\ \A q \in Restarts : ~Loads(q)
    BY <2>1 DEF Midway, Saves, Loads
  <2>3. InFile /\ dirty = {}
    BY <1>1, <1>2, <2>2 DEF FileInv
  <2>4. InFile' /\ restart'[r].cfg = file
    BY <1>1, <1>3, <2>1, <2>3 DEF InFile, Loaded
  <2>5. \A q \in Restarts \ {r} : ~Loads(q)'
    BY <1>1, <2>2 DEF Loads
  <2>6. \A d \in Dialogs : dialog'[d].pc # "publish"
    BY <1>1, <2>2 DEF Saves
  <2> QED
    BY <1>1, <1>3, <2>2, <2>3, <2>4, <2>5, <2>6 DEF FileInv
<1>5. CASE RestartAssign(r)
  <2>1. Loads(r) /\ ~Loads(r)' /\ mem' = restart[r].cfg
    BY <1>5, ThreadStep DEF RestartStep, RestartAssign, Loads
  <2>2. toggle.pc = "idle" /\ restart[r].cfg = file /\ (\A d \in Dialogs : ~Saves(d)) /\ dirty = {}
    BY <1>1, <1>2, <2>1 DEF FileInv
  <2>3. InFile
    BY <1>1, <1>2, <2>2 DEF FileInv
  <2>4. InFile'
    BY <1>1, <1>3, <2>1, <2>2, <2>3 DEF InFile
  <2>5. \A q \in Restarts \ {r} : (Loads(q)' <=> Loads(q)) /\ restart'[q].cfg = restart[q].cfg
    BY <1>1 DEF Loads
  <2>6. \A q \in Restarts : Loads(q)' => restart'[q].cfg = file
    BY <1>1, <1>2, <2>1, <2>5 DEF FileInv
  <2>7. \A d \in Dialogs : dialog'[d].pc # "publish"
    BY <1>1, <2>2 DEF Saves
  <2> QED
    BY <1>1, <1>3, <2>2, <2>4, <2>6, <2>7 DEF FileInv
<1>6. CASE ~(Restart(r) /\ os # "tk") /\ ~RestartAssign(r)
  <2>1. mem' = mem
    BY <1>6 DEF Restart, RestartStep, ReadAddress, RestartMenu, RestartStop, RestartStart
  <2>2. restart[r].pc # "assign" /\ restart'[r].pc # "assign"
    BY <1>6, ThreadStep DEF RestartStep
  <2>3. \A q \in Restarts : /\ Loads(q)' <=> Loads(q)
                            /\ Loads(q)' => restart'[q].cfg = restart[q].cfg
    BY <1>1, <2>2 DEF Loads
  <2>4. InFile' <=> InFile
    BY <1>1, <1>3, <2>1 DEF InFile
  <2>5. \A d \in Dialogs : dialog'[d].pc = "publish" => file' = Merged(d)'
    BY <1>1, <1>2, <1>3 DEF FileInv
  <2> QED
    BY <1>1, <1>2, <1>3, <2>1, <2>3, <2>4, <2>5 DEF FileInv
<1> QED
  BY <1>4, <1>5, <1>6

\* ... or the "updates" entry.
LEMMA FileToggle ==
    ASSUME TypeOK, NothingOpen, SavingKnown, FileInv, Toggle \/ ToggleOpen \/ ToggleWrite
    PROVE  FileInv'
<1> SUFFICES ASSUME Up', ~clash', ~edited' PROVE FileInv'
  BY DEF FileInv
<1>1. /\ Up /\ ~edited /\ UNCHANGED <<os, app, dialog, restart>>
      /\ SavedKeys' = SavedKeys /\ \A r \in Restarts : Loads(r)' <=> Loads(r)
  BY ToggleStep DEF NothingOpen, Up, SavedKeys, FormKeys, Loads
<1>2. ~clash
  BY DEF Toggle, ToggleOpen, ToggleWrite, history
<1>3. /\ toggle.pc # "idle" =>
             /\ dirty = {} /\ toggle.cfg = mem
             /\ (\A d \in Dialogs : ~Saves(d)) /\ \A r \in Restarts : ~Loads(r)
      /\ \A d \in Dialogs : Saves(d)' <=> Saves(d)
  BY <1>1, <1>2 DEF FileInv, Saves
<1>4. CASE Toggle
  <2>1. ~Midway /\ toggle'.pc = "open" /\ toggle'.cfg = mem' /\ UNCHANGED <<file, dirty>>
    BY <1>4, ToggleStep DEF Toggle, TypeOK, disk
  <2>2. /\ toggle.pc = "idle" /\ (\A d \in Dialogs : ~Saves(d)) /\ \A r \in Restarts : ~Loads(r)
    BY <2>1 DEF Midway, Saves, Loads
  <2>3. InFile /\ dirty = {}
    BY <1>1, <1>2, <2>2 DEF FileInv
  <2>4. \A k \in SavedKeys \ {"updates"} : mem'[k] = mem[k]
    BY <1>4 DEF Toggle, TypeOK, Config, SavedKeys, FormKeys, Keys
  <2>5. file' # Torn /\ \A k \in SavedKeys \ {"updates"} : file'[k] = mem'[k]
    BY <2>1, <2>3, <2>4 DEF InFile
  <2>6. \A d \in Dialogs : dialog'[d].pc # "publish"
    BY <1>1, <2>2 DEF Saves
  <2> QED
    BY <1>1, <1>3, <2>1, <2>2, <2>3, <2>5, <2>6 DEF FileInv
<1>5. CASE ToggleOpen
  <2>1. toggle.pc # "idle" /\ toggle'.pc = "write" /\ toggle'.cfg = toggle.cfg /\ UNCHANGED <<mem, dirty>>
    BY <1>5, ToggleStep DEF ToggleOpen, OpenFile
  <2>2. \A d \in Dialogs : dialog'[d].pc # "publish"
    BY <1>1, <1>3, <2>1 DEF Saves
  <2> QED
    BY <1>1, <1>3, <2>1, <2>2 DEF FileInv
<1>6. CASE ToggleWrite
  <2>1. toggle.pc = "write" /\ toggle'.pc = "idle" /\ mem' = mem
    BY <1>6, ToggleStep DEF ToggleWrite
  <2>2. saving \subseteq {"toggle"}
    BY <1>1, <1>3, <2>1 DEF TypeOK, SavingKnown, Writers, Saves, Up
  <2>3. dirty' = {} /\ file' = mem
    BY <1>3, <1>6, <2>1, <2>2 DEF ToggleWrite, WriteFile
  <2>4. mem \in Config /\ mem # Torn
    BY Constants DEF TypeOK
  <2>5. InFile'
    BY <2>1, <2>3, <2>4 DEF InFile
  <2>6. \A d \in Dialogs : dialog'[d].pc # "publish"
    BY <1>1, <1>3, <2>1 DEF Saves
  <2> QED
    BY <1>1, <1>3, <2>1, <2>3, <2>5, <2>6 DEF FileInv
<1> QED
  BY <1>4, <1>5, <1>6

\* The file at every step.
LEMMA NextFile ==
    ASSUME TypeOK, NothingOpen, SavingKnown, BootInv, FileInv, [Next]_vars
    PROVE  FileInv'
<1> SUFFICES ASSUME Up', ~clash', ~edited' PROVE FileInv'
  BY DEF FileInv
<1>1. CASE BootStep
  <2>1. BootStart
    BY <1>1 DEF BootStep, Boot, BootOpen, BootWrite, Up
  <2>2. UNCHANGED <<os, mem, file, dirty, dialog, restart, toggle, edited>> /\ app = "start"
    BY <2>1 DEF BootStart, disk, ui, history
  <2>3. dirty = {} /\ file = mem /\ mem \in Config
    BY <2>2 DEF BootInv, TypeOK
  <2>4. /\ toggle.pc = "idle" /\ (\A d \in Dialogs : dialog[d].pc = "closed")
        /\ \A r \in Restarts : restart[r].pc = "idle"
    BY <2>2 DEF NothingOpen, Up
  <2>5. file # Torn
    BY <2>3, Constants
  <2> QED
    BY <2>2, <2>3, <2>4, <2>5 DEF FileInv, InFile, Saves, Loads
<1>2. CASE Kill
  BY <1>2 DEF Kill, Up
<1>3. CASE EditByHand
  BY <1>3 DEF EditByHand, Up
<1>4. CASE LateEnd \/ UNCHANGED vars
  BY <1>4 DEF LateEnd, vars, ui, history, disk, FileInv, Saves, Loads, InFile, Merged,
     SavedKeys, FormKeys, Up
<1> QED
  BY <1>1, <1>2, <1>3, <1>4, FileWindow, FileThread, FileToggle DEF Next

\* A kill finds in the file what the application had or one was about to publish,
\* and nothing else than a save at the next start touches it before it is loaded.
LEMMA NextPromise ==
    ASSUME TypeOK, NothingOpen, SavingKnown, BootInv, FileInv, PromiseInv, [Next]_vars
    PROVE  PromiseInv'
<1> SUFFICES ASSUME promised' # {}, app' \in {"off", "open"}
             PROVE  Survives(IF app = "off" THEN Loaded ELSE mem)'
  BY DEF PromiseInv
<1>1. CASE Kill
  <2>1. /\ saving = {} /\ ~clash /\ ~edited /\ promised' = Relied
        /\ UNCHANGED <<os, file>> /\ app' = "off" /\ app # "off"
    BY <1>1 DEF Kill
  <2>2. /\ Loaded' = Loaded /\ SavedKeys' = SavedKeys
    BY <2>1 DEF Loaded, SavedKeys, FormKeys
  <2>3. \E c \in Relied : \A k \in SavedKeys : Loaded[k] = c[k]
    <3>1. CASE ~Up
      <4>1. app \in {"open", "start"} /\ toggle.pc = "idle"
        BY <2>1, <3>1 DEF TypeOK, SavingKnown, NothingOpen, Up
      <4>2. Loaded = mem
        BY <2>1, <4>1, Constants DEF BootInv, Loaded, TypeOK
      <4>3. mem \in Relied
        BY <4>1 DEF Relied
      <4> QED
        BY <4>2, <4>3
    <3>2. CASE Up /\ \E d \in Dialogs : dialog[d].pc = "publish"
      <4>1. PICK d \in Dialogs : dialog[d].pc = "publish"
        BY <3>2
      <4>2. file = Merged(d)
        BY <2>1, <3>2, <4>1 DEF FileInv
      <4>3. Loaded = Merged(d)
        BY <4>2, MergedType, Constants DEF Loaded
      <4>4. Merged(d) \in Relied
        BY <4>1 DEF Relied
      <4> QED
        BY <4>3, <4>4
    <3>3. CASE Up /\ ~(\E d \in Dialogs : dialog[d].pc = "publish") /\ toggle.pc = "open"
      <4> DEFINE c == [mem EXCEPT !["updates"] = file["updates"]]
      <4>1. file \in Config /\ \A k \in SavedKeys \ {"updates"} : file[k] = mem[k]
        BY <2>1, <3>3 DEF FileInv, TypeOK
      <4>2. file["updates"] \in Values
        BY <4>1, InConfig
      <4>3. c \in Relied
        BY <3>3, <4>2 DEF Relied
      <4>4. Loaded = file
        BY <4>1, Constants DEF Loaded
      <4>5. \A k \in SavedKeys : c[k] = file[k]
        BY <4>1 DEF TypeOK, Config, SavedKeys, FormKeys, Keys
      <4> QED
        BY <4>3, <4>4, <4>5
    <3>4. CASE Up /\ ~(\E d \in Dialogs : dialog[d].pc = "publish") /\ toggle.pc # "open"
      <4>1. toggle.pc = "idle" /\ \A d \in Dialogs : ~Saves(d)
        BY <2>1, <3>4 DEF TypeOK, ToggleRec, SavingKnown, Saves
      <4>2. InFile
        BY <2>1, <3>4, <4>1 DEF FileInv
      <4>3. Loaded = file
        BY <4>2 DEF InFile, Loaded
      <4>4. mem \in Relied
        BY <3>4 DEF Relied
      <4> QED
        BY <4>2, <4>3, <4>4 DEF InFile
    <3> QED
      BY <3>1, <3>2, <3>3, <3>4
  <2> QED
    BY <2>1, <2>2, <2>3 DEF Survives
<1>2. CASE Boot
  <2>1. /\ UNCHANGED <<os, promised>> /\ app = "off" /\ app' = "open" /\ mem' = Loaded
        /\ SavedKeys' = SavedKeys
    BY <1>2 DEF Boot, history, SavedKeys, FormKeys
  <2>2. Survives(Loaded)
    BY <2>1 DEF PromiseInv
  <2> QED
    BY <2>1, <2>2 DEF Survives
<1>3. CASE BootOpen \/ BootWrite \/ BootStart \/ EditByHand
  BY <1>3 DEF BootOpen, BootWrite, BootStart, EditByHand
<1>4. CASE \E d \in Dialogs : User(d) \/ DialogStep(d)
  <2>1. PICK d \in Dialogs : User(d) \/ DialogStep(d)
    BY <1>4
  <2> QED
    BY <2>1, WindowStep DEF NothingOpen, Up, User, DialogStep
<1>5. CASE \E r \in Restarts : Restart(r) \/ RestartStep(r)
  <2>1. PICK r \in Restarts : Restart(r) \/ RestartStep(r)
    BY <1>5
  <2> QED
    BY <2>1, ThreadStep DEF NothingOpen, Up, RestartStep
<1>6. CASE Toggle \/ ToggleOpen \/ ToggleWrite
  BY <1>6, ToggleStep DEF NothingOpen, Up
<1>7. CASE LateEnd \/ UNCHANGED vars
  BY <1>7 DEF LateEnd, vars, disk, history, PromiseInv, Survives, Loaded, SavedKeys, FormKeys
<1> QED
  BY <1>1, <1>2, <1>3, <1>4, <1>5, <1>6, <1>7 DEF Next, BootStep

-----------------------------------------------------------------------------
\* Before the program is started for the first time there is nothing but the file.
LEMMA InitSInv == Init => SInv
<1> SUFFICES ASSUME Init PROVE SInv
  OBVIOUS
<1>1. TypeOK
  BY InitTypes
<1>2. ~Up /\ app = "off" /\ promised = {}
  BY DEF Init, Up
<1>3. NothingOpen /\ SavingKnown
  BY Constants DEF Init, NothingOpen, SavingKnown, Closed, NoToggle, NoRestart
<1>4. MenuInv /\ RunningInv /\ FileInv /\ BootInv /\ PromiseInv
  BY <1>2 DEF MenuInv, RunningInv, FileInv, BootInv, PromiseInv
<1>5. SnapInv /\ TkInv
  BY DEF Init, SnapInv, TkInv, Shown, Busy, Closed, NoToggle, NoRestart
<1>6. SeenInv
  BY DEF Init, SeenInv, NothingSeen
<1> QED
  BY <1>1, <1>3, <1>4, <1>5, <1>6 DEF SInv

\* The parts of the invariant hold each other up.
THEOREM Invariant == Spec => []SInv
<1>1. SInv /\ [Next]_vars => SInv'
  <2> SUFFICES ASSUME SInv, [Next]_vars PROVE SInv'
    OBVIOUS
  <2>1. TypeOK'
    BY NextTypes DEF SInv
  <2> QED
    BY <2>1, NextOpen, NextMenu, NextSnap, NextRunning, NextTk, NextBoot, NextFile, NextPromise DEF SInv
<1> QED
  BY <1>1, InitSInv, PTL DEF Spec

\* When nothing is under way the menu shows host and port of the settings there
\* are, unless (on macOS) the address changed while another thread was setting it.
THEOREM MenuIsCurrent == Spec => []MenuShowsSettings
<1>1. SInv => MenuShowsSettings
  <2> SUFFICES ASSUME SInv, Quiet, os = "mac" => ~crossed PROVE menu = Address(mem["net"])
    BY DEF MenuShowsSettings
  <2>1. Showing = {} /\ Up
    BY DEF Quiet, Showing
  <2>2. ~crossed
    BY SettingsAssumption DEF SettingsAssumption, SInv, TkInv, TypeOK
  <2> QED
    BY <2>1, <2>2 DEF SInv, MenuInv
<1> QED
  BY <1>1, Invariant, PTL

\* The proxy uses the settings there are when nothing is under way, or is off if
\* they are rejected, unless a restart was declined, restarts raced or two
\* windows were open at a time.
THEOREM ProxyIsCurrent == Spec => []RunningIsCurrent
<1>1. SInv => RunningIsCurrent
  BY DEF SInv, RunningInv, RestartFollows, ComesToStop, RunningIsCurrent, Quiet
<1> QED
  BY <1>1, Invariant, PTL

\* What the application showed when it was killed is what its next start loads,
\* unless the file was open for writing or edited, or two threads met in a save, ...
THEOREM KillsLoseNothing == Spec => []SettingsSurvive
<1>1. SInv => SettingsSurvive
  BY DEF SInv, PromiseInv, Survives, SettingsSurvive
<1> QED
  BY <1>1, Invariant, PTL

\* ... which they never do on Windows and Linux, where no change of the address
\* meets a thread that sets the menu, either.
THEOREM OneTkThread == Spec => [](os = "tk" => ~clash /\ ~crossed)
<1>1. SInv => (os = "tk" => ~clash /\ ~crossed)
  BY DEF SInv, TkInv
<1> QED
  BY <1>1, Invariant, PTL
=============================================================================
