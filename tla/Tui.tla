-------------------------------- MODULE Tui --------------------------------
(***************************************************************************)
(* src/client/tui: the terminal interface. A key or an answer is handled   *)
(* at a time; a question to the server, or a save, runs in a goroutine,    *)
(* and its answer is handled when it comes, wherever the user is then.     *)
(***************************************************************************)
EXTENDS ClientConfig

CONSTANTS Names,                   \* template names
          Questions                \* questions under way at once

VARIABLES screen,
          list,                    \* the names on screenNames: mode, what they are
          marks,                   \* selected
          asked,                   \* each question: its place, what for, about what
          keys                     \* keys hit so far

tuiVars == <<screen, list, marks, asked, keys>>
vars    == <<configVars, tuiVars>>

NoList     == [mode |-> "none", of |-> "none"]
NoQuestion == [pc |-> "none", kind |-> "none", of |-> "none", names |-> {}]

Init ==
  /\ ConfigInit
  /\ screen = "none" /\ list = NoList /\ marks = {} /\ keys = 0
  /\ asked = [q \in Questions |-> NoQuestion]

\* The goroutine of a question to the server.
Ask(kind, of, names) ==
  \E q \in Questions :
    /\ asked[q].pc = "none"
    /\ asked' = [asked EXCEPT ![q] = [pc |-> "asked", kind |-> kind, of |-> of, names |-> names]]

Stay == UNCHANGED <<screen, list, marks, asked>>

\* New: the wizard where no server is set.
Open ==
  /\ Start
  /\ screen' = IF primary' = None THEN "setup" ELSE "menu"
  /\ list' = NoList /\ marks' = {}
  /\ asked' = [q \in Questions |-> NoQuestion]

\* updateSetup: an address that is not valid is refused.
SetupEnter(url) ==
  /\ screen = "setup" /\ url \in Servers
  /\ primary' = url /\ base' = url
  /\ \E s \in WizardSaves : saves[s].pc = "none" /\ Begin(s, None)
  /\ Stay /\ UNCHANGED <<up, file, faults, kept>>

\* esc in the wizard, whether or not it was opened from the menu; quit in the
\* menu, and ctrl+c everywhere.
SetupEsc ==
  /\ screen = "setup" /\ screen' = "none"
  /\ ProcessEnds
  /\ list' = NoList /\ marks' = {} /\ asked' = [q \in Questions |-> NoQuestion]
  /\ UNCHANGED <<file, faults, kept>>

Quit ==
  /\ screen # "none" /\ screen' = "none"
  /\ ProcessEnds
  /\ list' = NoList /\ marks' = {} /\ asked' = [q \in Questions |-> NoQuestion]
  /\ UNCHANGED <<file, faults, kept>>

\* Mutant: the mode is set when the list is asked for.
ModeFirst(item) ==
  /\ screen = "menu"
  /\ \/ /\ item \in {"list", "categories", "combine", "stats"} /\ Ask(item, "none", {})
        /\ marks' = IF item = "combine" THEN {} ELSE marks
        /\ list' = IF list # NoList /\ item \in {"list", "categories", "combine"}
                   THEN [list EXCEPT !.mode = item] ELSE list
        /\ UNCHANGED screen
     \/ item = "search" /\ screen' = "search" /\ UNCHANGED <<list, marks, asked>>
     \/ item = "settings" /\ screen' = "setup" /\ UNCHANGED <<list, marks, asked>>
  /\ UNCHANGED configVars

\* dispatchMenu: the menu stays until the answer is there.
Menu(item) ==
  /\ screen = "menu"
  /\ \/ /\ item \in {"list", "categories", "combine", "stats"} /\ Ask(item, "none", {})
        /\ marks' = IF item = "combine" THEN {} ELSE marks
        /\ UNCHANGED <<screen, list>>
     \/ item = "search" /\ screen' = "search" /\ UNCHANGED <<list, marks, asked>>
     \/ item = "settings" /\ screen' = "setup" /\ UNCHANGED <<list, marks, asked>>
  /\ UNCHANGED configVars

\* updateSearchInput; nothing, or esc, goes back to the menu.
Search ==
  /\ screen = "search" /\ Ask("search", "none", {})
  /\ UNCHANGED <<configVars, screen, list, marks>>

\* Back to the menu from the screens that esc leaves.
Back ==
  /\ screen \in {"search", "names", "view", "stats"} /\ screen' = "menu"
  /\ UNCHANGED <<configVars, list, marks, asked>>

\* updateNames: the mark of a name, ...
Mark(n) ==
  /\ screen = "names" /\ list.mode = "combine"
  /\ marks' = IF n \in marks THEN marks \ {n} ELSE marks \cup {n}
  /\ UNCHANGED <<configVars, screen, list, asked>>

\* ... and what enter asks about it, by the mode: of a list without names
\* nothing.
Pick(n) ==
  /\ screen = "names"
  /\ \/ list.mode = "categories" /\ Ask("category", list.of, {n})
     \/ list.mode = "combine" /\ Ask("combination", list.of, IF marks = {} THEN {n} ELSE marks)
     \/ list.mode = "list" /\ Ask("template", list.of, {n})
  /\ UNCHANGED <<configVars, screen, list, marks>>

Key ==
  /\ up /\ keys < plan.keys /\ keys' = keys + 1
  /\ \/ \E url \in plan.typed : SetupEnter(url)
     \/ SetupEsc \/ Quit \/ Search \/ Back
     \/ \E item \in plan.items : Menu(item)
     \/ \E n \in Names : Mark(n) \/ Pick(n)

\* Client.get: the address as it is by now; it may fail, and gives up after the
\* timeout where a server hangs.
Serve(q) ==
  /\ asked[q].pc = "asked"
  /\ \/ base \in Servers \ plan.hung /\ asked' = [asked EXCEPT ![q].pc = "answer"]
     \/ asked' = [asked EXCEPT ![q].pc = "error"]
  /\ UNCHANGED <<configVars, screen, list, marks, keys>>

\* What a list is a list of, and its mode.
Listing(kind) ==
  [mode |-> IF kind \in {"categories", "combine"} THEN kind ELSE "list",
   of   |-> IF kind = "categories" THEN "categories" ELSE "templates"]

\* Mutant: an error leaves the user on the screen it was asked for.
ErrorScreenOfAnswer(kind) == IF kind = "stats" THEN "menu" ELSE "names"

\* Where an error leads.
ErrorScreen(kind) == IF kind \in {"template", "combination"} THEN "names" ELSE "menu"

\* Update: namesLoadedMsg, templateLoadedMsg, statsLoadedMsg, combineLoadedMsg.
Answered(q) ==
  LET kind == asked[q].kind
  IN  /\ \/ /\ asked[q].pc = "error"
            /\ screen' = ErrorScreen(kind) /\ UNCHANGED list
         \/ /\ asked[q].pc = "answer" /\ kind \in {"list", "categories", "combine", "search", "category"}
            /\ screen' = "names" /\ list' = Listing(kind)
         \/ /\ asked[q].pc = "answer" /\ kind \in {"template", "combination"}
            /\ screen' = "view" /\ UNCHANGED list
         \/ /\ asked[q].pc = "answer" /\ kind = "stats"
            /\ screen' = "stats" /\ UNCHANGED list
      /\ asked' = [asked EXCEPT ![q] = NoQuestion]
      /\ UNCHANGED <<configVars, marks, keys>>

\* configSavedMsg: to the menu from wherever the user is; an error stays.
Saved(s) ==
  /\ saves[s].pc \in {"saved", "failed"}
  /\ screen' = IF saves[s].pc = "saved" THEN "menu" ELSE screen
  /\ saves' = [saves EXCEPT ![s] = NoSave]
  /\ UNCHANGED <<up, file, primary, base, faults, kept, mixed, list, marks, asked, keys>>

Saving ==
  /\ Command \/ \E s \in Savers : OpenFile(s) \/ WriteFile(s)
  /\ UNCHANGED tuiVars

Next ==
  /\ UNCHANGED plan
  /\ \/ keys < plan.keys /\ Open /\ keys' = keys + 1
     \/ Key \/ Saving
     \/ \E q \in Questions : Serve(q) \/ Answered(q)
     \/ \E s \in WizardSaves : Saved(s)

Spec == Init /\ [][Next]_<<plan, vars>>

-----------------------------------------------------------------------------
\* A template is asked for by the name of a template and a category by that of
\* a category, though lists arrive late and over one another.
RightKind ==
  \A q \in Questions :
    /\ asked[q].kind = "category" => asked[q].of = "categories"
    /\ asked[q].kind \in {"template", "combination"} => asked[q].of = "templates"

\* Every screen has what it shows: outside of the wizard there is a server to
\* ask, and the names are shown only when a list has come, though an error may
\* lead back to them from anywhere.
ScreensHold ==
  /\ screen \notin {"none", "setup"} => primary # None /\ base # None
  /\ screen = "names" => list # NoList
=============================================================================
