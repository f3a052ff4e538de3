-------------------------------- MODULE Mconf --------------------------------
(***************************************************************************)
(* make menuconfig (scripts/kconfig/mconf.c): any visible symbol may be    *)
(* set, in any order and any number of times, configurations may be saved  *)
(* and loaded in between, and nothing has to be answered.  What is open is *)
(* kept in work like the calls of conf.c: <<"menu", m>>, <<"radio", m>>    *)
(* for the values of a choice, <<"input", m>> for a text, and below them   *)
(* the question whether to save.                                           *)
(*                                                                         *)
(* The file that is saved to and loaded from is the one whose name the     *)
(* dialog starts with, .config.  MENUCONFIG_MODE is not set.               *)
(***************************************************************************)
EXTENDS Kconf

CONSTANT Menued   \* the Kconfig files menuconfig is started on

AtMenu == phase = "ask" /\ mode = "menuconfig"

-----------------------------------------------------------------------------
(* build_conf: the rows of a menu, as <<what a key does, entry>>: [st, rows] *)

RECURSIVE Build(_, _, _)

WithRow(t, rows, key, m) == [st |-> t, rows |-> Append(rows, <<key, m>>)]

BuildBelow(r, m, current) ==
    FoldLeft(LAMBDA q, child : Build(q, child, current), r, Children(r.st, m))

\* The visible value of choice c that is its value: [st, def]
LookAt(seen, def, child, c) ==
    [st |-> seen.st, def |-> IF seen.v /\ K(seen.st).menus[child].sym = seen.st.chosen[c] THEN child ELSE def]

ChosenIn(t, m, c) ==
    FoldLeft(LAMBDA q, child : LookAt(IsVisible(q.st, child), q.def, child, c), [st |-> t, def |-> None],
             Children(t, m))

\* A choice that is y has only what is below its value below it.
BuildValue(r, def, m, current) ==
    IF r.st.tri[K(r.st).menus[m].sym] # 2 THEN BuildBelow(r, m, current)
    ELSE IF def # None /\ K(r.st).menus[def].list # None THEN Build(r, def, current) ELSE r

BuildChoice(look, rows, m, c, current) ==
    BuildValue(WithRow(look.st, rows, IF Changable(look.st, c) \/ look.def # None THEN "t" ELSE ":", m),
               look.def, m, current)

\* The key that sets a symbol.
KeyOf(t, s) ==
    IF IsValue(t, s) /\ t.tri[s] = 2 THEN ":" ELSE IF GetType(t, s) \in Logical THEN "t" ELSE "s"

BuildSeen(t, rows, m, menu, current) ==
    IF menu.sym = NoSym
    THEN IF m = current THEN BuildBelow([st |-> t, rows |-> rows], m, current)
         ELSE IF K(t).props[menu.prompt].type = "menu" THEN WithRow(t, rows, "m", m)
         ELSE BuildBelow(WithRow(t, rows, ":", m), m, current)
    ELSE IF IsChoice(K(t), menu.sym)
    THEN BuildChoice(ChosenIn(t, m, menu.sym), rows, m, menu.sym, current)
    ELSE BuildBelow(WithRow(t, rows, KeyOf(t, menu.sym), m), m, current)

BuildIf(seen, rows, m, current) ==
    IF seen.v THEN BuildSeen(seen.st, rows, m, K(seen.st).menus[m], current)
    ELSE [st |-> seen.st, rows |-> rows]

Build(r, m, current) == BuildIf(IsVisible(r.st, m), r.rows, m, current)

Shown(t, m) == Build([st |-> t, rows |-> << >>], m, m)

-----------------------------------------------------------------------------
(* conf: a key in a menu *)

\* sym_toggle_tristate_value: the next value that can be set.
Toggle(t, s) ==
    FoldLeft(LAMBDA r, step : IF r.ok THEN r ELSE SetTristate(t, s, (t.tri[s] + step) % 3),
             [st |-> t, ok |-> FALSE], <<1, 2, 3>>).st

\* What y, n, m and the space bar make of a symbol; m where y cannot be.
OrMod(set, t, s) == IF set.ok THEN set.st ELSE SetTristate(t, s, 1).st

Pressed(t, s, key) ==
    CASE key = "y" -> OrMod(SetTristate(t, s, 2), t, s)
      [] key = "n" -> SetTristate(t, s, 0).st
      [] key = "m" -> SetTristate(t, s, 1).st
      [] key = " " -> Toggle(t, s)

MenuStill == UNCHANGED <<table, mode, tty, root, restarts, phase, saved, header, runs>>

\* A row is chosen with one of the keys that set something.
SetOneOf(shown, key) ==
    \E row \in Range(shown.rows) :
       row[1] = "t" /\ st' = Pressed(shown.st, K(shown.st).menus[row[2]].sym, key)

SetRow(key) ==
    /\ Doing("menu")
    /\ SetOneOf(Shown(st, Top[2]), key)
    /\ UNCHANGED work
    /\ MenuStill

\* A row is opened.
Opens(t, row, s) ==
    CASE row[1] = "m" -> {"menu"}
      [] row[1] = "s" -> {"input"}
      [] row[1] = "t" /\ IsChoice(K(t), s) /\ t.tri[s] = 2 -> {"radio"}
      [] OTHER -> {}

OpenOneOf(shown) ==
    \E row \in Range(shown.rows) : \E what \in Opens(shown.st, row, K(shown.st).menus[row[2]].sym) :
       /\ st' = shown.st
       /\ work' = <<<<what, row[2]>>>> \o work

OpenRow ==
    /\ Doing("menu")
    /\ OpenOneOf(Shown(st, Top[2]))
    /\ MenuStill

\* Exit, or nothing to be shown.
LeaveMenu ==
    /\ Doing("menu")
    /\ st' = Shown(st, Top[2]).st
    /\ work' = Tail(work)
    /\ MenuStill

\* conf_choice: one of the values, or back.
RadioOf(offer) ==
    \/ st' = offer.st
    \/ \E m \in Range(offer.ms) : st' = SetTristate(offer.st, K(offer.st).menus[m].sym, 2).st

Radio ==
    /\ Doing("radio")
    /\ RadioOf(Offered(st, Top[2]))
    /\ work' = Tail(work)
    /\ MenuStill

\* conf_string: a text, asked for again if it is refused, or back.
Entering(set) == st' = set.st /\ work' = IF set.ok THEN Tail(work) ELSE work

Input(text) ==
    /\ Doing("input")
    /\ \/ st' = st /\ work' = Tail(work)
       \/ Entering(SetString(st, K(st).menus[Top[2]].sym, text))
    /\ MenuStill

-----------------------------------------------------------------------------
(* conf_load, conf_save, main *)

Load ==
    /\ Doing("menu") /\ Top[2] = Root
    /\ saved # NoFile
    /\ st' = ReadConfig(Shown(st, Root).st, saved)
    /\ UNCHANGED work
    /\ MenuStill

Saving(written) == st' = written.st /\ saved' = written.lines

\* Mutant: the header is renamed whatever the file is.
SaveBoth ==
    /\ Doing("menu") /\ Top[2] = Root
    /\ Saving(WriteConfig(Shown(st, Root).st))
    /\ header' = saved'
    /\ UNCHANGED <<table, mode, tty, work, root, restarts, phase, runs>>

\* The header is not written.
SaveAs ==
    /\ Doing("menu") /\ Top[2] = Root
    /\ Saving(WriteConfig(Shown(st, Root).st))
    /\ UNCHANGED <<table, mode, tty, work, root, restarts, phase, header, runs>>

MenuStart(f) ==
    /\ ~ Busy /\ runs < MaxRuns
    /\ f \in Later[st.f] /\ f \in Menued
    /\ st' = Loaded(f, "oldconfig")
    /\ mode' = "menuconfig"
    /\ phase' = "ask"
    /\ work' = <<<<"menu", Root>>, <<"save", Root>>>>
    /\ runs' = MaxRuns   \* the last program of a behaviour
    /\ tty' = TRUE /\ root' = Root /\ restarts' = FALSE
    /\ UNCHANGED <<table, saved, header>>

\* "Do you wish to save your new configuration?"
Question ==
    /\ Doing("save")
    /\ work' = << >>
    /\ \/ phase' = "write" /\ UNCHANGED st
       \/ phase' = "aborted" /\ st' = Fresh(st.f)
    /\ UNCHANGED <<table, mode, tty, root, restarts, saved, header, runs>>

MenuStep ==
    \/ \E key \in {"y", "n", "m", " "} : SetRow(key)
    \/ OpenRow \/ LeaveMenu \/ Radio
    \/ \E text \in Typed : Input(text)
    \/ Load \/ SaveAs \/ Question

-----------------------------------------------------------------------------
(* What is promised *)

Alike(loaded, fresh) == loaded = [fresh EXCEPT !.write = loaded.write, !.shown = loaded.shown]

\* A file that is loaded in the middle of a session gives what it gives when
\* the program is started with it: nothing set before shines through what is
\* read, neither a value nor the choice of one (conf_read after any number of
\* sym_set_tristate_value and sym_set_string_value).
LoadForgets ==
    (Doing("menu") /\ Top[2] = Root /\ saved # NoFile) =>
       Alike(ReadConfig(st, saved), ReadConfig(Fresh(st.f), saved))
=============================================================================
