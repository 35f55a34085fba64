----------------------------- MODULE TuiProofs -----------------------------
(***************************************************************************)
(* Theorems about Tui, for every number of questions and saves under way,  *)
(* every scenario and every set of names and servers: what is asked for,   *)
(* what the screens show, and the address that the wizard saved.           *)
(***************************************************************************)
EXTENDS Tui, TLAPS

Modes == {"none", "list", "categories", "combine"}
Kinds == {"none", "list", "categories", "combine", "stats", "search", "category", "combination", "template"}
Things == {"none", "templates", "categories"}

Types ==
  /\ list \in [mode : Modes, of : Things]
  /\ marks \subseteq Names
  /\ asked \in [Questions -> [pc : {"none", "asked", "answer", "error"}, kind : Kinds,
                              of : Things, names : SUBSET Names]]
  /\ DOMAIN saves = Savers

\* The mode of a list and what it is a list of change together.
ModeAgrees ==
  /\ list.mode = "categories" => list.of = "categories"
  /\ list.mode \in {"list", "combine"} => list.of = "templates"

HasServer == primary # None /\ base # None

\* Whoever asks or saves has a server; an answer that may lead back to the names
\* was asked for from them.
PendingHold ==
  /\ \A q \in Questions :
       /\ asked[q].pc # "none" => HasServer
       /\ asked[q].kind \in {"template", "combination"} => list # NoList
  /\ \A s \in WizardSaves : saves[s].pc # "none" => HasServer

\* What the process had under way ends with it.
DownIsIdle ==
  ~up => /\ screen = "none"
         /\ \A q \in Questions : asked[q] = NoQuestion
         /\ \A s \in WizardSaves : saves[s].pc = "none"

IInv == Types /\ ModeAgrees /\ PendingHold /\ DownIsIdle /\ RightKind /\ ScreensHold

LEMMA InitIInv == Init => IInv
BY DEF Init, ConfigInit, IInv, DownIsIdle, Types, ModeAgrees, PendingHold, RightKind, ScreensHold, NoList, NoQuestion,
   NoSave, Savers, Modes, Kinds, Things

\* A step of the configuration's side, which leaves the interface alone.
LEMMA SavingStep == ASSUME IInv, Saving PROVE IInv'
<1>1. UNCHANGED <<tuiVars, up, primary, base>>
  BY DEF Saving, Command, OpenFile, WriteFile
<1>2. DOMAIN saves' = Savers
  BY DEF Saving, Command, OpenFile, WriteFile, Begin, IInv, Types
<1>3. \A s \in WizardSaves : saves'[s].pc # "none" => saves[s].pc # "none"
  BY ClientAssumption DEF ClientAssumption, Saving, Command, OpenFile, WriteFile, Begin, IInv, Types, Savers
<1> QED BY <1>1, <1>2, <1>3
  DEF tuiVars, IInv, Types, ModeAgrees, PendingHold, DownIsIdle, HasServer, RightKind, ScreensHold

\* Steps that ask, or change what is shown, without the configuration.
\* What a question that begins leaves of the others.
LEMMA AskStep ==
  ASSUME IInv, HasServer, up, NEW kind \in Kinds, NEW of \in Things, NEW names \in SUBSET Names,
         Ask(kind, of, names),
         kind = "category" => of = "categories",
         kind \in {"template", "combination"} => of = "templates" /\ list # NoList,
         screen' \in {screen, "menu"}, marks' \subseteq Names,
         UNCHANGED <<configVars, list>>
  PROVE  IInv'
<1>1. PICK p \in Questions :
        /\ asked[p].pc = "none"
        /\ asked' = [asked EXCEPT ![p] = [pc |-> "asked", kind |-> kind, of |-> of, names |-> names]]
  BY DEF Ask
<1>2. asked' \in [Questions -> [pc : {"none", "asked", "answer", "error"}, kind : Kinds,
                                of : Things, names : SUBSET Names]]
  BY <1>1 DEF IInv, Types
<1>3. \A q \in Questions :
        \/ asked'[q] = asked[q]
        \/ asked'[q].kind = kind /\ asked'[q].of = of
  BY <1>1 DEF IInv, Types
<1>4. Types' BY <1>2 DEF IInv, Types, configVars
<1>5. ModeAgrees' BY DEF IInv, ModeAgrees
<1>6. PendingHold' BY <1>3 DEF IInv, PendingHold, HasServer, configVars
<1>7. DownIsIdle' BY DEF DownIsIdle, configVars
<1>8. RightKind' BY <1>3 DEF IInv, RightKind
<1>9. ScreensHold' BY DEF IInv, ScreensHold, HasServer, configVars
<1> QED BY <1>4, <1>5, <1>6, <1>7, <1>8, <1>9 DEF IInv

\* A step that only changes the screen and the marks.
LEMMA ShowStep ==
  ASSUME IInv, marks' \subseteq Names, up, HasServer, screen' = "names" => list # NoList,
         UNCHANGED <<configVars, list, asked>>
  PROVE  IInv'
BY DEF IInv, Types, ModeAgrees, PendingHold, DownIsIdle, RightKind, ScreensHold, HasServer, configVars

LEMMA OpenStep == ASSUME IInv, Open PROVE IInv'
<1>1. /\ list' = NoList /\ marks' = {} /\ asked' = [q \in Questions |-> NoQuestion]
      /\ saves' = saves /\ ~up /\ up'
      /\ screen' = IF primary' = None THEN "setup" ELSE "menu"
  BY DEF Open, Start
<1>2. primary' # None => base' # None
  BY DEF Open, Start, Resolve
<1>3. Types'
  <2>1. NoList \in [mode : Modes, of : Things] BY DEF NoList, Modes, Things
  <2>2. NoQuestion \in [pc : {"none", "asked", "answer", "error"}, kind : Kinds, of : Things, names : SUBSET Names]
    BY DEF NoQuestion, Kinds, Things
  <2> QED BY <1>1, <2>1, <2>2 DEF IInv, Types
<1>4. \A q \in Questions : asked'[q] = NoQuestion BY <1>1
<1>5. ModeAgrees' BY <1>1 DEF ModeAgrees, NoList
<1>6. RightKind' BY <1>4 DEF RightKind, NoQuestion
<1>7. ScreensHold' BY <1>1, <1>2 DEF ScreensHold
<1>8. PendingHold' BY <1>1, <1>4 DEF PendingHold, NoQuestion, IInv, DownIsIdle
<1>9. DownIsIdle' BY <1>1 DEF DownIsIdle
<1> QED BY <1>3, <1>5, <1>6, <1>7, <1>8, <1>9 DEF IInv

LEMMA EnterStep == ASSUME IInv, up, NEW url, SetupEnter(url) PROVE IInv'
<1>1. /\ screen = "setup" /\ primary' = url /\ base' = url /\ url # None
      /\ UNCHANGED <<up, screen, list, marks, asked>>
  BY ClientAssumption DEF SetupEnter, Stay, ClientAssumption
<1>2. DOMAIN saves' = Savers
  BY DEF SetupEnter, Begin, IInv, Types
<1> QED BY <1>1, <1>2
  DEF IInv, Types, ModeAgrees, PendingHold, DownIsIdle, RightKind, ScreensHold, HasServer

\* esc in the wizard and quit end the process.
LEMMA EndStep ==
  ASSUME IInv, ProcessEnds, screen' = "none", list' = NoList, marks' = {},
         asked' = [q \in Questions |-> NoQuestion]
  PROVE  IInv'
<1>1. /\ DOMAIN saves' = Savers /\ \A s \in WizardSaves : saves'[s] = NoSave
  BY DEF ProcessEnds, Savers
<1>2. \A q \in Questions : asked'[q] = NoQuestion OBVIOUS
<1>3. Types'
  <2>1. NoList \in [mode : Modes, of : Things] BY DEF NoList, Modes, Things
  <2>2. NoQuestion \in [pc : {"none", "asked", "answer", "error"}, kind : Kinds, of : Things, names : SUBSET Names]
    BY DEF NoQuestion, Kinds, Things
  <2> QED BY <1>1, <2>1, <2>2 DEF Types
<1>4. ModeAgrees' /\ ScreensHold' BY DEF ModeAgrees, ScreensHold, NoList
<1>5. PendingHold' /\ DownIsIdle' /\ RightKind'
  BY <1>1, <1>2 DEF PendingHold, DownIsIdle, RightKind, NoQuestion, NoSave
<1> QED BY <1>3, <1>4, <1>5 DEF IInv

LEMMA MenuStep == ASSUME IInv, up, NEW item, Menu(item) PROVE IInv'
<1> USE DEF Menu
<1>1. HasServer BY DEF IInv, ScreensHold, HasServer
<1>2. marks \subseteq Names BY DEF IInv, Types
<1>3. CASE item \in {"list", "categories", "combine", "stats"} /\ Ask(item, "none", {})
           /\ marks' = (IF item = "combine" THEN {} ELSE marks) /\ UNCHANGED <<screen, list>>
  <2>1. item \in Kinds /\ "none" \in Things /\ {} \in SUBSET Names BY <1>3 DEF Kinds, Things
  <2> QED BY <1>1, <1>2, <1>3, <2>1, AskStep
<1>4. CASE screen' \in {"search", "setup"} /\ UNCHANGED <<list, marks, asked>>
  BY <1>1, <1>2, <1>4, ShowStep
<1> QED BY <1>3, <1>4

LEMMA SearchStep == ASSUME IInv, up, Search PROVE IInv'
<1>1. HasServer /\ marks \subseteq Names BY DEF Search, IInv, ScreensHold, HasServer, Types
<1>2. "search" \in Kinds /\ "none" \in Things /\ {} \in SUBSET Names BY DEF Kinds, Things
<1> QED BY <1>1, <1>2, AskStep DEF Search

LEMMA BackStep == ASSUME IInv, up, Back PROVE IInv'
<1>1. HasServer /\ marks \subseteq Names BY DEF Back, IInv, ScreensHold, HasServer, Types
<1> QED BY <1>1, ShowStep DEF Back

LEMMA MarkStep == ASSUME IInv, up, NEW n \in Names, Mark(n) PROVE IInv'
<1>1. HasServer /\ list # NoList /\ marks \subseteq Names
  BY DEF Mark, IInv, ScreensHold, HasServer, Types
<1> QED BY <1>1, ShowStep DEF Mark

\* The mode decides what is asked, and says what the names are.
LEMMA PickStep == ASSUME IInv, up, NEW n \in Names, Pick(n) PROVE IInv'
<1>1. HasServer /\ list # NoList /\ marks \subseteq Names
  BY DEF Pick, IInv, ScreensHold, HasServer, Types
<1>2. /\ {n} \in SUBSET Names /\ (IF marks = {} THEN {n} ELSE marks) \in SUBSET Names
      /\ list.of \in Things /\ {"category", "combination", "template"} \subseteq Kinds
  BY <1>1 DEF IInv, Types, Kinds
<1>3. UNCHANGED <<configVars, screen, list, marks>> BY DEF Pick
<1>4. CASE list.mode = "categories" /\ Ask("category", list.of, {n})
  BY <1>1, <1>2, <1>3, <1>4, AskStep DEF IInv, ModeAgrees
<1>5. CASE list.mode = "combine" /\ Ask("combination", list.of, IF marks = {} THEN {n} ELSE marks)
  BY <1>1, <1>2, <1>3, <1>5, AskStep DEF IInv, ModeAgrees
<1>6. CASE list.mode = "list" /\ Ask("template", list.of, {n})
  BY <1>1, <1>2, <1>3, <1>6, AskStep DEF IInv, ModeAgrees
<1> QED BY <1>4, <1>5, <1>6 DEF Pick

LEMMA KeyStep == ASSUME IInv, Key PROVE IInv'
<1>1. up BY DEF Key
<1>2. ASSUME NEW url \in plan.typed, SetupEnter(url) PROVE IInv' BY <1>1, <1>2, EnterStep
<1>3. CASE SetupEsc \/ Quit BY <1>3, EndStep DEF SetupEsc, Quit
<1>4. CASE Search BY <1>1, <1>4, SearchStep
<1>5. CASE Back BY <1>1, <1>5, BackStep
<1>6. ASSUME NEW item \in plan.items, Menu(item) PROVE IInv' BY <1>1, <1>6, MenuStep
<1>7. ASSUME NEW n \in Names, Mark(n) PROVE IInv' BY <1>1, <1>7, MarkStep
<1>8. ASSUME NEW n \in Names, Pick(n) PROVE IInv' BY <1>1, <1>8, PickStep
<1> QED BY <1>2, <1>3, <1>4, <1>5, <1>6, <1>7, <1>8 DEF Key

LEMMA ServeStep == ASSUME IInv, NEW q \in Questions, Serve(q) PROVE IInv'
<1>1. PICK r \in {"answer", "error"} : asked' = [asked EXCEPT ![q].pc = r]
  BY DEF Serve
<1>2. /\ asked[q].pc = "asked" /\ UNCHANGED <<configVars, screen, list, marks>> BY DEF Serve
<1>3. asked' \in [Questions -> [pc : {"none", "asked", "answer", "error"}, kind : Kinds,
                                of : Things, names : SUBSET Names]]
  BY <1>1 DEF IInv, Types
<1>4. \A p \in Questions :
        /\ asked'[p].kind = asked[p].kind /\ asked'[p].of = asked[p].of
        /\ asked[p].pc = "none" => asked'[p].pc = "none"
  BY <1>1, <1>2 DEF IInv, Types
<1>5. up BY <1>2 DEF IInv, DownIsIdle, NoQuestion
<1> QED BY <1>2, <1>3, <1>4, <1>5
  DEF IInv, Types, ModeAgrees, PendingHold, DownIsIdle, RightKind, ScreensHold, HasServer, configVars

LEMMA AnsweredStep == ASSUME IInv, NEW q \in Questions, asked[q].pc # "none", Answered(q) PROVE IInv'
<1>1. /\ asked' = [asked EXCEPT ![q] = NoQuestion] /\ UNCHANGED <<configVars, marks>>
  BY DEF Answered
<1>2. HasServer /\ up BY DEF IInv, PendingHold, DownIsIdle, NoQuestion
<1>3. asked' \in [Questions -> [pc : {"none", "asked", "answer", "error"}, kind : Kinds,
                                of : Things, names : SUBSET Names]]
  BY <1>1 DEF IInv, Types, NoQuestion, Kinds, Things
<1>4. \A p \in Questions : asked'[p] = asked[p] \/ asked'[p] = NoQuestion
  BY <1>1 DEF IInv, Types
<1>5. /\ list' \in [mode : Modes, of : Things] /\ ModeAgrees'
      /\ screen' = "names" => list' # NoList
      /\ list # NoList => list' # NoList
  <2>1. CASE asked[q].pc = "error" /\ screen' = ErrorScreen(asked[q].kind) /\ UNCHANGED list
    BY <2>1 DEF ErrorScreen, IInv, Types, ModeAgrees, PendingHold
  <2>2. CASE screen' = "names" /\ list' = Listing(asked[q].kind)
    BY <2>2 DEF Listing, NoList, ModeAgrees, Modes, Things
  <2>3. CASE screen' \in {"view", "stats"} /\ UNCHANGED list
    BY <2>3 DEF IInv, Types, ModeAgrees
  <2> QED BY <2>1, <2>2, <2>3 DEF Answered
<1>6. Types' BY <1>1, <1>3, <1>5 DEF IInv, Types, configVars
<1>7. PendingHold' BY <1>1, <1>2, <1>4, <1>5 DEF IInv, PendingHold, HasServer, NoQuestion, configVars
<1>8. RightKind' BY <1>4 DEF IInv, RightKind, NoQuestion
<1>9. ScreensHold' /\ DownIsIdle' BY <1>1, <1>2, <1>5 DEF ScreensHold, DownIsIdle, HasServer, configVars
<1> QED BY <1>5, <1>6, <1>7, <1>8, <1>9 DEF IInv

LEMMA SavedStep == ASSUME IInv, NEW s \in WizardSaves, Saved(s) PROVE IInv'
<1>1. /\ saves[s].pc \in {"saved", "failed"} /\ screen' \in {screen, "menu"}
      /\ saves' = [saves EXCEPT ![s] = NoSave]
      /\ UNCHANGED <<up, primary, base, list, marks, asked>>
  BY DEF Saved
<1>2. HasServer /\ up BY <1>1 DEF IInv, PendingHold, DownIsIdle
<1>3. /\ DOMAIN saves' = Savers
      /\ \A r \in WizardSaves : saves'[r] = saves[r] \/ saves'[r] = NoSave
  BY <1>1 DEF IInv, Types, Savers
<1> QED BY <1>1, <1>2, <1>3
  DEF IInv, Types, ModeAgrees, PendingHold, DownIsIdle, RightKind, ScreensHold, HasServer, NoSave

\* Every step keeps the invariant.
LEMMA NextIInv == IInv /\ [Next]_<<plan, vars>> => IInv'
<1> SUFFICES ASSUME IInv, [Next]_<<plan, vars>> PROVE IInv' OBVIOUS
<1>1. CASE Open BY <1>1, OpenStep
<1>2. CASE Key BY <1>2, KeyStep
<1>3. CASE Saving BY <1>3, SavingStep
<1>4. ASSUME NEW q \in Questions, Serve(q) PROVE IInv' BY <1>4, ServeStep
<1>5. ASSUME NEW q \in Questions, Answered(q) PROVE IInv'
  <2>1. asked[q].pc # "none" BY <1>5 DEF Answered
  <2> QED BY <1>5, <2>1, AnsweredStep
<1>6. ASSUME NEW s \in WizardSaves, Saved(s) PROVE IInv' BY <1>6, SavedStep
<1>7. CASE UNCHANGED <<plan, vars>>
  BY <1>7 DEF vars, configVars, tuiVars, IInv, Types, ModeAgrees, PendingHold, DownIsIdle, HasServer,
     RightKind, ScreensHold
<1> QED BY <1>1, <1>2, <1>3, <1>4, <1>5, <1>6, <1>7 DEF Next

LEMMA Inductive == Spec => []IInv
BY InitIInv, NextIInv, PTL DEF Spec

\* A name that was listed as a category is only asked for as a category, and
\* that of a template as a template (updateNames and the answers of Update), in
\* whatever order lists and errors arrive.
THEOREM AskedAsListed == Spec => []RightKind
<1>1. IInv => RightKind BY DEF IInv
<1> QED BY <1>1, Inductive, PTL

\* No answer, error or save takes the user to a screen that has nothing to show:
\* the names without a list, or any screen but the wizard without a server.
THEOREM ScreensHaveContent == Spec => []ScreensHold
<1>1. IInv => ScreensHold BY DEF IInv
<1> QED BY <1>1, Inductive, PTL
-----------------------------------------------------------------------------
\* The address of the wizard. Its saves write addresses that are valid, and end
\* with the program.
SaveTypes ==
  /\ DOMAIN saves = Savers /\ \A s \in Savers : DOMAIN saves[s] = {"pc", "data"}
  /\ saves["command"].pc \in {"none", "begun", "open"}
  /\ kept \in Servers \cup {None}
  /\ \A s \in WizardSaves :
       /\ saves[s].pc \in {"begun", "open"} => up /\ primary \in Servers
       /\ saves[s].pc = "open" => saves[s].data \in Servers

\* What a command saves once the wizard has saved is what the wizard saved.
CommandKeeps ==
  (kept # None /\ saves["command"].pc # "none") =>
    /\ saves["command"].data = kept /\ (up => primary = kept)
    /\ saves["command"].pc = "begun" => file = kept
    /\ saves["command"].pc = "open" => file = None

\* As long as no two saves met and none was cut off there is one at a time; the
\* command keeps the address; and what the wizard has not saved yet it is about to.
OneSave ==
  ~mixed =>
    /\ \A r, s \in Active : r = s
    /\ CommandKeeps
    /\ \A s \in WizardSaves : saves[s].pc = "open" => file = None /\ saves[s].data = primary

SaveInv == SaveTypes /\ OneSave /\ WizardSticks

LEMMA InitSaveInv == Init => SaveInv
BY ClientAssumption
DEF Init, ConfigInit, SaveInv, SaveTypes, OneSave, CommandKeeps, WizardSticks, Active, NoSave, Savers

\* What is in the file is a valid address, and so no flag replaces it.
LEMMA KeptIsStored ==
  ASSUME SaveInv, file = kept, kept # None
  PROVE  Stored = kept /\ kept \in Servers /\ \A flag : ~FlagKept(Stored, flag)
<1>1. file = kept /\ kept \in Servers
  BY DEF SaveInv, SaveTypes
<1>2. file # NoFile
  BY <1>1, ClientAssumption
<1> QED
  BY <1>1, <1>2 DEF Stored, FlagKept

\* A step of the interface that leaves the configuration alone.
LEMMA SaveQuiet == ASSUME SaveInv, UNCHANGED configVars PROVE SaveInv'
BY DEF SaveInv, SaveTypes, OneSave, CommandKeeps, WizardSticks, Active, configVars

LEMMA StartSaves == ASSUME IInv, SaveInv, Start PROVE SaveInv'
<1>1. ~up /\ up' /\ UNCHANGED <<saves, kept>>
  BY DEF Start
<1>2. \A s \in WizardSaves : saves[s].pc = "none"
  BY <1>1 DEF IInv, DownIsIdle
<1>3. SaveTypes'
  BY <1>1, <1>2 DEF SaveInv, SaveTypes
<1>4. Active' = Active
  BY <1>1 DEF Active
<1>5. ~mixed' => ~mixed
  BY DEF Start
<1>0. "command" \in Savers
  BY DEF Savers
<1>6. ~mixed' => saves["command"].pc # "open"
  BY <1>0 DEF Start, Active
<1>7. ASSUME ~mixed, file = kept, kept # None PROVE file' = kept /\ primary' = kept
  <2>1. Stored = kept /\ \A flag : ~FlagKept(Stored, flag)
    BY <1>7, KeptIsStored
  <2> QED
    BY <2>1 DEF Start
<1>9. ~mixed' => CommandKeeps'
  <2> SUFFICES ASSUME ~mixed', kept # None, saves["command"].pc # "none" PROVE CommandKeeps'
    BY <1>1 DEF CommandKeeps
  <2>1. saves["command"].pc = "begun" /\ saves["command"].data = kept /\ file = kept
    BY <1>5, <1>6 DEF SaveInv, SaveTypes, OneSave, CommandKeeps
  <2>2. file' = kept /\ primary' = kept
    BY <1>5, <1>7, <2>1
  <2> QED
    BY <1>1, <2>1, <2>2 DEF CommandKeeps
<1>10. OneSave'
  BY <1>1, <1>2, <1>4, <1>5, <1>9 DEF SaveInv, OneSave
<1>8. WizardSticks'
  BY <1>1, <1>4, <1>5, <1>7 DEF SaveInv, WizardSticks
<1> QED
  BY <1>3, <1>8, <1>10 DEF SaveInv

\* A save begins beside none, or is remembered as one that met another.
LEMMA BeginSaves ==
  ASSUME SaveInv, NEW s \in Savers, NEW data, Begin(s, data), UNCHANGED kept,
         s = "command" => (~mixed' /\ kept # None => data = kept /\ file' = kept),
         s = "command" => primary' = primary,
         s # "command" => up' /\ primary' \in Servers,
         saves[s].pc = "none", up' = up, primary' = primary \/ primary' \in Servers
  PROVE  SaveInv'
<1>1. /\ DOMAIN saves' = Savers /\ saves'[s] = [pc |-> "begun", data |-> data]
      /\ \A r \in Savers \ {s} : saves'[r] = saves[r]
  BY DEF Begin, SaveInv, SaveTypes
<1>2. ~mixed' => ~mixed /\ Active = {}
  BY DEF Begin
<1>3. saves'[s].pc = "begun" /\ DOMAIN saves'[s] = {"pc", "data"}
  BY <1>1
<1>4. "command" \in Savers /\ WizardSaves \subseteq Savers /\ "command" \notin WizardSaves
  BY ClientAssumption DEF Savers
<1>5. SaveTypes'
  <2>1. \A r \in Savers : DOMAIN saves'[r] = {"pc", "data"}
    BY <1>1, <1>3 DEF SaveInv, SaveTypes
  <2>2. saves'["command"].pc \in {"none", "begun", "open"}
    BY <1>1, <1>3, <1>4 DEF SaveInv, SaveTypes
  <2>3. ASSUME NEW r \in WizardSaves
        PROVE  /\ saves'[r].pc \in {"begun", "open"} => up' /\ primary' \in Servers
               /\ saves'[r].pc = "open" => saves'[r].data \in Servers
    <3>1. CASE r = s
      BY <1>3, <1>4, <2>3, <3>1
    <3>2. CASE r # s
      BY <1>1, <1>4, <2>3, <3>2 DEF SaveInv, SaveTypes
    <3> QED
      BY <3>1, <3>2
  <2> QED
    BY <1>1, <2>1, <2>2, <2>3 DEF SaveInv, SaveTypes
<1>6. ~mixed' => Active' = {s}
  BY <1>1, <1>2, <1>3 DEF Active
<1>7. s \in Active'
  BY <1>1, <1>3 DEF Active
<1>8. OneSave'
  <2>1. ~mixed' => \A r \in WizardSaves : saves'[r].pc # "open"
    BY <1>1, <1>2, <1>3, <1>4 DEF Active
  <2>2. ~mixed' => CommandKeeps'
    <3> SUFFICES ASSUME ~mixed', kept # None PROVE CommandKeeps'
      BY DEF CommandKeeps
    <3>1. CASE s = "command"
      <4>1. saves'["command"].pc = "begun" /\ saves'["command"].data = kept /\ file' = kept
        BY <1>1, <3>1
      <4>2. up => primary = kept
        BY <1>2 DEF SaveInv, WizardSticks
      <4> QED
        BY <3>1, <4>1, <4>2 DEF CommandKeeps
    <3>2. CASE s # "command"
      <4>1. saves'["command"].pc = "none"
        BY <1>1, <1>2, <1>4, <3>2 DEF Active, SaveInv, SaveTypes
      <4> QED
        BY <4>1 DEF CommandKeeps
    <3> QED
      BY <3>1, <3>2
  <2> QED
    BY <1>6, <2>1, <2>2 DEF OneSave
<1> QED
  BY <1>5, <1>7, <1>8 DEF SaveInv, WizardSticks

LEMMA EnterSaves == ASSUME IInv, SaveInv, up, NEW url, SetupEnter(url) PROVE SaveInv'
<1>1. PICK s \in WizardSaves : saves[s].pc = "none" /\ Begin(s, None)
  BY DEF SetupEnter
<1>2. url \in Servers /\ primary' = url /\ UNCHANGED <<up, file, kept>>
  BY DEF SetupEnter
<1> QED
  BY <1>1, <1>2, BeginSaves, ClientAssumption DEF Savers

LEMMA CommandSaves == ASSUME SaveInv, Command PROVE SaveInv'
<1> DEFINE data == IF FlagKept(Stored, plan.command) THEN plan.command ELSE Stored
<1>1. /\ saves["command"].pc = "none" /\ Begin("command", data) /\ file' = Stored
      /\ UNCHANGED <<up, primary, kept>>
  BY DEF Command
<1>2. ~mixed' => ~mixed /\ Active = {}
  BY <1>1 DEF Begin
<1>3. ~mixed' /\ kept # None => data = kept /\ file' = kept
  <2> SUFFICES ASSUME ~mixed', kept # None PROVE data = kept /\ file' = kept
    OBVIOUS
  <2>1. Stored = kept /\ ~FlagKept(Stored, plan.command)
    BY <1>2, KeptIsStored DEF SaveInv, WizardSticks
  <2> QED
    BY <1>1, <2>1
<1> HIDE DEF data
<1> QED
  BY <1>1, <1>3, BeginSaves DEF Savers

LEMMA OpenSaves == ASSUME SaveInv, NEW s \in Savers, OpenFile(s) PROVE SaveInv'
<1> DEFINE d == IF s = "command" THEN saves[s].data ELSE primary
<1>1. /\ saves[s].pc = "begun" /\ saves' = [saves EXCEPT ![s] = [pc |-> "open", data |-> d]]
      /\ file' = None /\ UNCHANGED <<up, primary, kept, mixed>>
  BY DEF OpenFile
<1>2. /\ DOMAIN saves' = Savers /\ saves'[s] = [pc |-> "open", data |-> d]
      /\ \A r \in Savers \ {s} : saves'[r] = saves[r]
  BY <1>1 DEF SaveInv, SaveTypes
<1>3. saves'[s].pc = "open" /\ saves'[s].data = d /\ DOMAIN saves'[s] = {"pc", "data"}
  BY <1>2
<1>4. s # "command" => d = primary
  OBVIOUS
<1> HIDE DEF d
<1>5. "command" \in Savers /\ WizardSaves \subseteq Savers /\ "command" \notin WizardSaves
  BY ClientAssumption DEF Savers
<1>6. Active' = Active /\ s \in Active
  BY <1>1, <1>2, <1>3 DEF Active
<1>7. SaveTypes'
  <2>1. saves'["command"].pc \in {"none", "begun", "open"}
    BY <1>2, <1>3, <1>5 DEF SaveInv, SaveTypes
  <2>2. ASSUME NEW r \in WizardSaves
        PROVE  /\ saves'[r].pc \in {"begun", "open"} => up' /\ primary' \in Servers
               /\ saves'[r].pc = "open" => saves'[r].data \in Servers
    <3>1. CASE r = s
      BY <1>1, <1>3, <1>4, <1>5, <2>2, <3>1 DEF SaveInv, SaveTypes
    <3>2. CASE r # s
      BY <1>1, <1>2, <1>5, <2>2, <3>2 DEF SaveInv, SaveTypes
    <3> QED
      BY <3>1, <3>2
  <2>3. \A r \in Savers : DOMAIN saves'[r] = {"pc", "data"}
    BY <1>2, <1>3 DEF SaveInv, SaveTypes
  <2> QED
    BY <1>1, <1>2, <2>1, <2>2, <2>3 DEF SaveInv, SaveTypes
<1>8. OneSave'
  <2> SUFFICES ASSUME ~mixed
               PROVE  /\ \A r, u \in Active : r = u
                      /\ CommandKeeps'
                      /\ \A r \in WizardSaves : saves'[r].pc = "open" => file' = None /\ saves'[r].data = primary
    BY <1>1, <1>6 DEF OneSave
  <2>1. \A r, u \in Active : r = u
    BY DEF SaveInv, OneSave
  <2>2. CommandKeeps'
    <3> SUFFICES ASSUME kept # None, saves'["command"].pc # "none" PROVE CommandKeeps'
      BY <1>1 DEF CommandKeeps
    <3>1. CASE s = "command"
      <4>1. saves["command"].data = kept /\ (up => primary = kept)
        BY <1>1, <3>1 DEF SaveInv, OneSave, CommandKeeps
      <4>2. saves'["command"].pc = "open" /\ saves'["command"].data = kept
        BY <1>3, <3>1, <4>1 DEF d
      <4> QED
        BY <1>1, <4>1, <4>2 DEF CommandKeeps
    <3>2. CASE s # "command"
      <4>1. saves["command"].pc # "none"
        BY <1>2, <1>5, <3>2
      <4>2. "command" \in Active
        BY <1>5, <4>1 DEF Active, SaveInv, SaveTypes
      <4> QED
        BY <1>6, <2>1, <3>2, <4>2
    <3> QED
      BY <3>1, <3>2
  <2>3. ASSUME NEW r \in WizardSaves, saves'[r].pc = "open" PROVE saves'[r].data = primary
    <3>1. CASE r = s
      BY <1>3, <1>4, <1>5, <2>3, <3>1
    <3>2. CASE r # s
      BY <1>1, <1>2, <1>5, <2>3, <3>2 DEF SaveInv, OneSave
    <3> QED
      BY <3>1, <3>2
  <2> QED
    BY <1>1, <2>1, <2>2, <2>3
<1> QED
  BY <1>6, <1>7, <1>8 DEF SaveInv, WizardSticks

LEMMA WriteSaves == ASSUME SaveInv, NEW s \in Savers, WriteFile(s) PROVE SaveInv'
<1>0. saves[s].pc = "open" /\ UNCHANGED <<up, primary>>
  BY DEF WriteFile
<1>1. /\ DOMAIN saves' = Savers /\ \A r \in Savers \ {s} : saves'[r] = saves[r]
      /\ DOMAIN saves'[s] = {"pc", "data"}
      /\ IF s = "command" THEN saves'[s].pc = "none" ELSE saves'[s].pc \in {"saved", "failed"}
  BY DEF WriteFile, NoSave, SaveInv, SaveTypes
<1>2. "command" \in Savers /\ WizardSaves \subseteq Savers /\ "command" \notin WizardSaves
      /\ (s = "command" \/ s \in WizardSaves)
  BY ClientAssumption DEF Savers
<1>3. Active' = Active \ {s} /\ s \in Active
  BY <1>0, <1>1, <1>2 DEF Active
<1>4. kept' \in Servers \cup {None}
  BY <1>0, <1>2 DEF WriteFile, SaveInv, SaveTypes
<1>5. SaveTypes'
  <2>1. saves'["command"].pc \in {"none", "begun", "open"}
    BY <1>1, <1>2 DEF SaveInv, SaveTypes
  <2>2. ASSUME NEW r \in WizardSaves
        PROVE  /\ saves'[r].pc \in {"begun", "open"} => up' /\ primary' \in Servers
               /\ saves'[r].pc = "open" => saves'[r].data \in Servers
    <3>1. CASE r = s
      BY <1>1, <1>2, <2>2, <3>1
    <3>2. CASE r # s
      BY <1>0, <1>1, <1>2, <2>2, <3>2 DEF SaveInv, SaveTypes
    <3> QED
      BY <3>1, <3>2
  <2>3. \A r \in Savers : DOMAIN saves'[r] = {"pc", "data"}
    BY <1>1 DEF SaveInv, SaveTypes
  <2> QED
    BY <1>1, <1>4, <2>1, <2>2, <2>3 DEF SaveTypes
<1>6. CASE mixed'
  BY <1>5, <1>6 DEF SaveInv, OneSave, WizardSticks
<1>7. CASE ~mixed'
  <2>1. /\ ~mixed /\ file' \in IF file \in {None, saves[s].data} THEN {saves[s].data} ELSE {saves[s].data, Torn}
        /\ kept' = IF s = "command" THEN kept ELSE saves[s].data
    BY <1>7 DEF WriteFile
  <2>2. Active = {s} /\ Active' = {}
    BY <1>3, <2>1 DEF SaveInv, OneSave
  <2>3. \A r \in Savers : saves'[r].pc \notin {"begun", "open"}
    BY <2>2, <1>1 DEF Active
  <2>4. saves'["command"].pc = "none"
    BY <1>2, <1>5, <2>3 DEF SaveTypes
  <2>5. OneSave'
    BY <1>2, <2>2, <2>3, <2>4 DEF OneSave, CommandKeeps
  <2>6. kept' # None => file' = kept' /\ (up' => primary' = kept')
    <3>1. CASE s = "command"
      <4>1. kept # None => saves[s].data = kept /\ file = None /\ (up => primary = kept)
        BY <1>0, <2>1, <3>1 DEF SaveInv, OneSave, CommandKeeps
      <4> QED
        BY <1>0, <2>1, <3>1, <4>1
    <3>2. CASE s \in WizardSaves
      <4>1. file = None /\ saves[s].data = primary
        BY <1>0, <2>1, <3>2 DEF SaveInv, OneSave
      <4> QED
        BY <1>0, <1>2, <2>1, <3>2, <4>1
    <3> QED
      BY <1>2, <3>1, <3>2
  <2> QED
    BY <1>5, <2>5, <2>6 DEF SaveInv, WizardSticks
<1> QED
  BY <1>6, <1>7

\* The program ends, in the middle of a save or not.
LEMMA EndSaves == ASSUME SaveInv, ProcessEnds, UNCHANGED <<file, kept>> PROVE SaveInv'
<1>1. /\ ~up' /\ DOMAIN saves' = Savers
      /\ \A s \in Savers : saves'[s] = IF s \in WizardSaves THEN NoSave ELSE saves[s]
  BY DEF ProcessEnds
<1>2. "command" \in Savers /\ WizardSaves \subseteq Savers /\ "command" \notin WizardSaves
      /\ NoSave.pc = "none" /\ DOMAIN NoSave = {"pc", "data"}
  BY ClientAssumption DEF Savers, NoSave
<1>3. ~mixed' => ~mixed /\ Active \cap WizardSaves = {}
  BY DEF ProcessEnds
<1>4. SaveTypes'
  BY <1>1, <1>2 DEF SaveInv, SaveTypes
<1>5. Active' = Active \ WizardSaves
  BY <1>1, <1>2 DEF Active
<1>6. OneSave'
  BY <1>1, <1>2, <1>3, <1>5 DEF SaveInv, OneSave, CommandKeeps
<1>7. WizardSticks'
  BY <1>1, <1>3, <1>5 DEF SaveInv, WizardSticks
<1> QED
  BY <1>4, <1>6, <1>7 DEF SaveInv

LEMMA SavedSaves == ASSUME SaveInv, NEW s \in WizardSaves, Saved(s) PROVE SaveInv'
<1>1. /\ saves[s].pc \in {"saved", "failed"} /\ saves' = [saves EXCEPT ![s] = NoSave]
      /\ UNCHANGED <<up, file, primary, kept, mixed>>
  BY DEF Saved
<1>2. "command" \in Savers /\ WizardSaves \subseteq Savers /\ "command" \notin WizardSaves
      /\ NoSave.pc = "none" /\ DOMAIN NoSave = {"pc", "data"}
  BY ClientAssumption DEF Savers, NoSave
<1>3. DOMAIN saves' = Savers /\ saves'[s] = NoSave /\ \A r \in Savers \ {s} : saves'[r] = saves[r]
  BY <1>1, <1>2 DEF SaveInv, SaveTypes
<1>4. Active' = Active
  BY <1>1, <1>2, <1>3 DEF Active
<1>5. SaveTypes'
  BY <1>1, <1>2, <1>3 DEF SaveInv, SaveTypes
<1>6. OneSave'
  BY <1>1, <1>2, <1>3, <1>4 DEF SaveInv, OneSave, CommandKeeps
<1> QED
  BY <1>1, <1>4, <1>5, <1>6 DEF SaveInv, WizardSticks

LEMMA NextSaveInv == IInv /\ SaveInv /\ [Next]_<<plan, vars>> => SaveInv'
<1> SUFFICES ASSUME IInv, SaveInv, [Next]_<<plan, vars>> PROVE SaveInv'
  OBVIOUS
<1>1. CASE UNCHANGED vars
  BY <1>1, SaveQuiet DEF vars
<1>2. CASE Open
  BY <1>2, StartSaves DEF Open
<1>3. CASE Key
  <2>1. CASE SetupEsc \/ Quit
    BY <2>1, EndSaves DEF SetupEsc, Quit
  <2>2. CASE \E url \in plan.typed : SetupEnter(url)
    BY <1>3, <2>2, EnterSaves DEF Key
  <2>3. CASE Search \/ Back \/ (\E item \in plan.items : Menu(item)) \/ \E n \in Names : Mark(n) \/ Pick(n)
    BY <2>3, SaveQuiet DEF Search, Back, Menu, Mark, Pick
  <2> QED
    BY <1>3, <2>1, <2>2, <2>3 DEF Key
<1>4. CASE Saving
  BY <1>4, CommandSaves, OpenSaves, WriteSaves DEF Saving
<1>5. CASE \E q \in Questions : Serve(q) \/ Answered(q)
  BY <1>5, SaveQuiet DEF Serve, Answered
<1>6. CASE \E s \in WizardSaves : Saved(s)
  BY <1>6, SavedSaves
<1> QED
  BY <1>1, <1>2, <1>3, <1>4, <1>5, <1>6 DEF Next

\* For any number of saves and starts, and any flags: the address entered in the
\* wizard stays in cli.yml and in the program until another is entered, unless
\* saves overlap or are cut off. SaveIfEmptyOrInvalid keeps no flag over it, and
\* the file is read before anything writes it.
THEOREM AddressSticks == Spec => []WizardSticks
<1>1. Spec => []SaveInv
  BY InitSaveInv, NextSaveInv, Inductive, PTL DEF Spec
<1>2. SaveInv => WizardSticks
  BY DEF SaveInv
<1> QED
  BY <1>1, <1>2, PTL
=============================================================================
