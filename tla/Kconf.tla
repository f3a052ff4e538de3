-------------------------------- MODULE Kconf --------------------------------
(***************************************************************************)
(* make config, oldconfig, silentoldconfig, defconfig, allyesconfig ...:   *)
(* the program that asks for the value of every symbol                     *)
(* (scripts/kconfig/conf.c), and how a configuration is read and written   *)
(* (confdata.c).  A saved file is a sequence of <<symbol, text>> lines.    *)
(* The recursion of conf() and check_conf() is a stack of what is still to *)
(* be done, its top first.                                                 *)
(***************************************************************************)
EXTENDS Ksym, Kfiles

CONSTANTS Modes,      \* Modes[f]: the modes conf is started in
          Typed,      \* what may be typed where text is asked for
          Edits,      \* Edits[f]: lines that may be put into .config by hand
          Later,      \* Later[f]: the Kconfig files that may follow f
          MaxRuns     \* how often it is started

VARIABLES st,         \* the table of symbols
          mode,       \* input_mode
          tty,        \* valid_stdin
          work,       \* calls of conf, conf_sym, ... not yet returned from
          root,       \* rootEntry
          restarts,   \* conf_cnt
          runs        \* how often conf was started

vars == <<table, st, mode, tty, work, root, restarts, phase, saved, header, runs>>

Auto == {"allyes", "allmod", "allno"}
Asking == {"config", "oldconfig", "silentoldconfig"}

-----------------------------------------------------------------------------
(* confdata.c: reading *)

\* Mutant: what was given for a tristate is not forgotten.
ForgottenButTri(t) ==
    [t EXCEPT !.new = [s \in DOMAIN @ |-> ~ IsChoice(K(t), s)], !.valid = Consts,
              !.uval = [s \in DOMAIN @ |-> NoText],
              !.uchosen = [s \in DOMAIN @ |-> NoSym], !.changes = FALSE]

\* What is known before the lines of a file are read.
Forgotten(t) ==
    [t EXCEPT !.new = [s \in DOMAIN @ |-> ~ IsChoice(K(t), s)], !.valid = Consts,
              !.utri = [s \in DOMAIN @ |-> 0], !.uval = [s \in DOMAIN @ |-> NoText],
              !.uchosen = [s \in DOMAIN @ |-> NoSym], !.changes = FALSE]

\* Mutant: "is not set" is not understood.
SoundSet(s, text) == text # "n" /\ (SymType[s] = "int" => text \in DOMAIN Number)

Sound(s, text) ==
    CASE SymType[s] = "bool" -> text \in {"y", "n"}
      [] SymType[s] = "tristate" -> text \in {"y", "m", "n"}
      [] SymType[s] = "int" -> text \in DOMAIN Number
      [] OTHER -> TRUE

TriOf(text) == CHOOSE v \in 0..2 : TriName[v + 1] = text

\* One line; changes is set where the code warns.
Assign(t, line) ==
    LET s == line[1]
        text == line[2]
        logical == SymType[s] \in Logical
        taken == IF SymType[s] \notin Logical \cup Texts THEN t
                 ELSE IF ~ Sound(s, text) THEN [t EXCEPT !.changes = TRUE]
                 ELSE IF logical THEN [t EXCEPT !.utri[s] = TriOf(text), !.new[s] = FALSE]
                 ELSE [t EXCEPT !.uval[s] = text, !.new[s] = FALSE]
        read == IF t.new[s] THEN taken ELSE [t EXCEPT !.changes = TRUE]
        c == K(t).choice[s]
        v == read.utri[s]
        clash == \/ v = 1 /\ read.utri[c] = 2
                 \/ v = 2 /\ read.utri[c] # 0
        joined == [read EXCEPT !.utri[c] = Greater(@, v), !.new[c] = @ \/ clash, !.changes = @ \/ clash,
                               !.uchosen[c] = IF v = 2 /\ ~ clash THEN s ELSE @]
    IN IF s \notin DOMAIN t.new THEN [t EXCEPT !.changes = TRUE]
       ELSE IF IsValue(t, s) THEN joined ELSE read

ReadSimple(t, lines) == CalcValue(FoldLeft(Assign, Forgotten(t), lines), ModulesSym)

\* conf_read after the lines.  What is computed is not what was saved:
Agrees(t, s) == IF SymType[s] \in Logical THEN t.utri[s] = t.tri[s] ELSE t.uval[s] = t.val[s]

Unsaved(t, s) ==
    /\ ~ IsChoice(K(t), s) /\ s # "ARCH"
    /\ IF HasValue(t, s) /\ s \in t.write THEN ~ Agrees(t, s) ELSE HasValue(t, s) \/ s \in t.write

NoteUnsaved(t, s) == [t EXCEPT !.changes = @ \/ Unsaved(t, s)]

Refuse(r, s) == IF r.ok THEN r.st ELSE [r.st EXCEPT !.new[s] = TRUE, !.valid = @ \ {s}]

CheckText(t, s) == IF SymType[s] \in Texts THEN Refuse(StringWithinRange(t, s, t.uval[s]), s) ELSE t

\* What is saved and not to be seen is new again, and so is a text that is
\* none of those the symbol can have.
CheckSaved(t, s) ==
    IF ~ HasValue(t, s) \/ IsValue(t, s) THEN t
    ELSE CheckText([t EXCEPT !.new[s] = @ \/ t.vis[s] = 0], s)

\* A choice is new where one of its visible values is.
RenewChoice(t, s) ==
    IF IsChoice(K(t), s)
    THEN [t EXCEPT !.new[s] = @ \/ \E v \in Range(K(t).values[s]) : t.vis[v] # 0 /\ t.new[v]]
    ELSE t

Settle(t, s) == RenewChoice(CheckSaved(NoteUnsaved(CalcValue(t, s), s), s), s)

ReadConfig(t, lines) == FoldLeft(Settle, ReadSimple(t, lines), Symbols(t))

-----------------------------------------------------------------------------
(* confdata.c: writing: [st, lines] *)

RECURSIVE Preorder(_, _)
Preorder(k, m) ==
    IF m = None THEN << >>
    ELSE <<m>> \o Preorder(k, k.menus[m].list) \o Preorder(k, k.menus[m].next)

\* An int without a value is written as 0.
LineOf(t, s) == <<s, IF SymType[s] = "int" /\ t.val[s] = Empty THEN "0" ELSE GetString(t, s)>>

\* Every symbol is written, visible or not.
WriteSym(t, lines, s) == [st |-> [t EXCEPT !.write = @ \ {s}], lines |-> Append(lines, LineOf(t, s))]

WriteMenu(r, m) ==
    IF K(r.st).menus[m].sym = NoSym THEN [r EXCEPT !.st = IsVisible(@, m).st]
    ELSE IF IsChoice(K(r.st), K(r.st).menus[m].sym) THEN r
    ELSE WriteSym(CalcValue(r.st, K(r.st).menus[m].sym), r.lines, K(r.st).menus[m].sym)

Unchanged(r) == [r EXCEPT !.st.changes = FALSE]

WriteConfig(t) ==
    Unchanged(FoldLeft(WriteMenu, [st |-> IF t.changes THEN t ELSE ClearAllValid(t), lines |-> << >>],
                       Preorder(K(t), K(t).menus[Root].list)))

-----------------------------------------------------------------------------
(* conf.c: the answers *)

\* What the three modes that set everything print for a bool or tristate, ""
\* when they have nothing to say.
Set(t, s, how) ==
    LET no == IF WithinRange(t, s, 0) THEN "n" ELSE ""
        tristate == GetType(t, s) = "tristate"
        mod == IF tristate /\ WithinRange(t, s, 1) THEN "m"
               ELSE IF ~ tristate /\ WithinRange(t, s, 2) THEN "y" ELSE no
        yes == IF WithinRange(t, s, 2) THEN "y" ELSE mod
    IN CASE how = "allyes" -> yes [] how = "allmod" -> mod [] how = "allno" -> no

\* Is somebody to be asked?
Asks(t, s) ==
    /\ Changable(t, s)
    /\ \/ mode = "config"
       \/ mode \in {"oldconfig", "silentoldconfig"} /\ ~ HasValue(t, s)

Random(t, s) == {TriName[v + 1] : v \in {x \in 0..2 : WithinRange(t, s, x)}}

\* conf_askvalue for a symbol: the lines that come of it.
Lines(t, s, typed) ==
    CASE ~ Changable(t, s) -> {""}
      [] Changable(t, s) /\ Asks(t, s) -> typed
      [] OTHER ->
           IF SymType[s] \notin Logical THEN {""}
           ELSE IF mode \in Auto /\ Set(t, s, mode) # "" THEN {Set(t, s, mode)}
           ELSE IF mode \in Auto \cup {"randconfig"} /\ ~ HasValue(t, s) THEN Random(t, s)
           ELSE {""}
-----------------------------------------------------------------------------
(* conf.c: the calls that are still to return, as <<what, menu>> *)

Top == work[1]
Doing(what) == phase = "ask" /\ work # << >> /\ Top[1] = what
Calls(what, ms) == [i \in DOMAIN ms |-> <<what, ms[i]>>]
Children(t, m) == Chain(K(t), K(t).menus[m].list)

\* menu_get_parent_menu
RECURSIVE ParentMenu(_, _)
ParentMenu(k, m) ==
    IF m = Root \/ (k.menus[m].prompt # NoProp /\ k.props[k.menus[m].prompt].type = "menu")
    THEN m ELSE ParentMenu(k, k.menus[m].parent)

Still == UNCHANGED <<table, mode, tty, root, restarts, phase, saved, header, runs>>

\* What conf() calls for an entry that is visible.
Called(t, m, menu) ==
    IF menu.sym = NoSym
    THEN IF K(t).props[menu.prompt].type = "menu" /\ mode = "silentoldconfig" /\ root # m
         THEN <<<<"check", m>>>> ELSE Calls("conf", Children(t, m))
    ELSE IF IsChoice(K(t), menu.sym)
    THEN (IF Changable(t, menu.sym) THEN <<<<"sym", m>>>> ELSE << >>)
         \o <<<<IF HasValue(t, menu.sym) THEN "choice" ELSE "new choice", m>>, <<"values", m>>>>
    ELSE <<<<IF SymType[menu.sym] \in Texts THEN "string" ELSE "sym", m>>>> \o Calls("conf", Children(t, m))

\* conf()
VisitSeen(seen, m) ==
    /\ st' = seen.st
    /\ work' = (IF seen.v THEN Called(seen.st, m, K(seen.st).menus[m]) ELSE << >>) \o Tail(work)

Visit ==
    /\ Doing("conf")
    /\ VisitSeen(IsVisible(st, Top[2]), Top[2])
    /\ Still

\* Something to ask about that has no value yet.
Unanswered(t, s) ==
    /\ s # NoSym /\ ~ HasValue(t, s)
    /\ Changable(t, s) \/ (IsChoice(K(t), s) /\ t.tri[s] = 2)

\* check_conf(): the menu it is in is gone through anew.
CheckSeen(seen, m) ==
    /\ st' = seen.st
    /\ \/ /\ seen.v /\ Unanswered(seen.st, K(seen.st).menus[m].sym)
          /\ root' = ParentMenu(K(seen.st), m)
          /\ restarts' = TRUE
          /\ work' = <<<<"conf", root'>>>> \o Calls("check", Children(st, m)) \o Tail(work)
       \/ /\ ~ (seen.v /\ Unanswered(seen.st, K(seen.st).menus[m].sym))
          /\ work' = (IF seen.v THEN Calls("check", Children(st, m)) ELSE << >>) \o Tail(work)
          /\ UNCHANGED <<root, restarts>>

Check ==
    /\ Doing("check")
    /\ CheckSeen(IsVisible(st, Top[2]), Top[2])
    /\ UNCHANGED <<table, mode, tty, phase, saved, header, runs>>

\* Somebody is asked, but not where the input is redirected.
Refused(s) == mode = "silentoldconfig" /\ ~ tty /\ Asks(st, s)

\* An answer is taken where it can be set; if not, the question comes again.
Answered(set) ==
    /\ set.ok
    /\ st' = set.st
    /\ work' = Tail(work)

\* conf_sym()
AskSym(line) ==
    /\ Doing("sym")
    /\ LET s == K(st).menus[Top[2]].sym
       IN /\ ~ Refused(s)
          /\ line \in Lines(st, s, {"y", "m", "n", ""})
          /\ Answered(SetTristate(st, s, IF line = "" THEN st.tri[s] ELSE TriOf(line)))
    /\ Still

\* conf_string()
AskString(line) ==
    /\ Doing("string")
    /\ LET s == K(st).menus[Top[2]].sym
       IN /\ ~ Refused(s)
          /\ line \in Lines(st, s, Typed \cup {""})
          /\ Answered(SetString(st, s, IF line = "" THEN GetString(st, s) ELSE line))
    /\ Still

\* The values conf_choice() offers: [st, ms]
Offer(seen, ms, child) ==
    [st |-> seen.st, ms |-> IF seen.v /\ K(seen.st).menus[child].sym # NoSym THEN Append(ms, child) ELSE ms]

Offered(t, m) ==
    FoldLeft(LAMBDA r, child : Offer(IsVisible(r.st, child), r.ms, child), [st |-> t, ms |-> << >>],
             Children(t, m))

\* Is somebody asked for a value of the choice?
AsksChoice == mode = "config" \/ (Top[1] = "new choice" /\ mode \in {"oldconfig", "silentoldconfig"})

\* The numbers that come of it: the only one, one that is typed, any, or the
\* value the choice has.
Picked(offer, chosen) ==
    IF Len(offer.ms) = 1 THEN {1}
    ELSE IF AsksChoice \/ mode = "randconfig" THEN DOMAIN offer.ms
    ELSE {i \in DOMAIN offer.ms : K(offer.st).menus[offer.ms[i]].sym = chosen}

Pick(offer, chosen, number) ==
    /\ ~ (Len(offer.ms) # 1 /\ AsksChoice /\ mode = "silentoldconfig" /\ ~ tty)
    /\ number \in Picked(offer, chosen)
    /\ LET child == K(offer.st).menus[offer.ms[number]]
       IN /\ st' = SetTristate(offer.st, child.sym, 2).st
          /\ work' = (IF child.list = None THEN << >> ELSE <<<<"conf", child.list>>>>) \o Tail(work)

CalcAsked(calc, m, c, number) ==
    \/ calc.tri[c] = 2 /\ Pick(Offered(calc, m), calc.chosen[c], number)
    \/ calc.tri[c] # 2 /\ number = 1 /\ st' = calc /\ work' = Tail(work)

\* conf_choice(), after the choice itself was asked for.
AskChoice(number) ==
    /\ Doing("choice") \/ Doing("new choice")
    /\ LET c == K(st).menus[Top[2]].sym IN CalcAsked(CalcValue(st, c), Top[2], c, number)
    /\ Still

\* The values of a choice that is m are asked for one by one.
AfterChoice ==
    /\ Doing("values")
    /\ work' = (IF st.tri[K(st).menus[Top[2]].sym] = 1 THEN Calls("conf", Children(st, Top[2])) ELSE << >>)
               \o Tail(work)
    /\ UNCHANGED st
    /\ Still

ChoiceAsked(calc, m, c) == calc.tri[c] = 2 /\ Len(Offered(calc, m).ms) # 1

\* check_stdin() ends the program, and so does the end of the input.
Abort ==
    /\ LET s == K(st).menus[Top[2]].sym
       IN \/ (Doing("sym") \/ Doing("string")) /\ Changable(st, s) /\ Asks(st, s)
          \/ /\ (Doing("choice") \/ Doing("new choice")) /\ mode \in Asking /\ AsksChoice
             /\ ChoiceAsked(CalcValue(st, s), Top[2], s)
    /\ phase' = "aborted"
    /\ work' = << >>
    /\ st' = Fresh(st.f)
    /\ UNCHANGED <<table, mode, tty, root, restarts, saved, header, runs>>

-----------------------------------------------------------------------------
(* main *)

\* conf_read, or nothing is known (allno.config and its like do not exist).
Loaded(f, how) ==
    IF how \in Asking \cup {"defconfig"}
    THEN ReadConfig(Fresh(f), IF how = "defconfig" \/ saved = NoFile THEN << >> ELSE saved)
    ELSE Fresh(f)

\* The program is started; Kconfig may have been changed since.
Start(how, f) ==
    /\ ~ Busy /\ runs < MaxRuns
    /\ f \in Later[st.f]
    /\ how = "silentoldconfig" => saved # NoFile
    /\ st' = Loaded(f, how)
    /\ mode' = how
    /\ tty' \in (IF how = "silentoldconfig" THEN BOOLEAN ELSE {TRUE})
    /\ phase' = "ask"
    /\ root' = Root
    /\ work' = (CASE how = "silentoldconfig" -> << >>
                  [] how \in Auto -> <<<<"conf", Root>>, <<"conf", Root>>>>
                  [] OTHER -> <<<<"conf", Root>>>>)
               \o <<<<"rounds", Root>>>>
    /\ restarts' = TRUE
    /\ runs' = runs + 1
    /\ UNCHANGED <<table, saved, header>>

\* do ... while (conf_cnt)
Rounds ==
    /\ Doing("rounds")
    /\ mode' = IF mode = "config" THEN "silentoldconfig" ELSE mode
    /\ restarts' = FALSE
    /\ work' = IF restarts THEN <<<<"check", Root>>, <<"rounds", Root>>>> ELSE << >>
    /\ phase' = IF restarts THEN "ask" ELSE "write"
    /\ UNCHANGED <<table, st, tty, root, saved, header, runs>>

\* conf_write: the header is in place before .config is.
WriteHeader ==
    /\ phase = "write"
    /\ header' = WriteConfig(st).lines
    /\ phase' = "renaming"
    /\ UNCHANGED <<table, st, mode, tty, work, root, restarts, saved, runs>>

Rename ==
    /\ phase = "renaming"
    /\ saved' = header
    /\ phase' = "written"
    /\ st' = Fresh(st.f)
    /\ UNCHANGED <<table, mode, tty, work, root, restarts, header, runs>>

\* The program is killed between the first rename and the last.
Kill ==
    /\ phase = "renaming"
    /\ saved' \in {saved, NoFile}
    /\ phase' = "aborted"
    /\ st' = Fresh(st.f)
    /\ UNCHANGED <<table, mode, tty, work, root, restarts, header, runs>>

\* A line of .config is changed by hand.
Edit(line) ==
    /\ phase = "written" /\ runs < MaxRuns
    /\ saved' = IF \E i \in DOMAIN saved : saved[i][1] = line[1]
                THEN [i \in DOMAIN saved |-> IF saved[i][1] = line[1] THEN line ELSE saved[i]]
                ELSE Append(saved, line)
    /\ saved' # saved
    /\ phase' = "edited"
    /\ UNCHANGED <<table, st, mode, tty, work, root, restarts, header, runs>>

Init ==
    /\ \E f \in DOMAIN Files : table = [g \in Later[f] |-> Parse(Files[g])] /\ st = Fresh(f)
    /\ mode = "config" /\ tty = TRUE
    /\ work = << >> /\ root = Root /\ restarts = FALSE
    /\ phase = "idle"
    /\ saved = NoFile /\ header = NoFile
    /\ runs = 0

Answer ==
    \/ \E line \in {"y", "m", "n", ""} : AskSym(line)
    \/ \E line \in Typed \cup {""} : AskString(line)
    \/ \E number \in 1..MaxNumber : AskChoice(number)

Step == Visit \/ Check \/ Answer \/ AfterChoice \/ Abort \/ Rounds \/ WriteHeader \/ Rename

\* Nobody wants anything any more.
Rest == ~ Busy /\ UNCHANGED vars

Next ==
    \/ Step \/ Kill
    \/ \E f \in DOMAIN Files : \E how \in Modes[f] : Start(how, f)
    \/ \E line \in Edits[st.f] : Edit(line)
    \/ Rest

Spec == Init /\ [][Next]_vars

-----------------------------------------------------------------------------
(* What is promised *)

\* Every symbol computed anew.
Anew(t) == FoldLeft(CalcValue, CalcValue([t EXCEPT !.valid = Consts], ModulesSym), Symbols(t))

Agree(now) ==
    \A s \in st.valid \ Consts :
       /\ st.tri[s] = now.tri[s] /\ st.val[s] = now.val[s] /\ st.chosen[s] = now.chosen[s]
       /\ st.vis[s] = now.vis[s] /\ st.rev[s] = now.rev[s]

\* What is kept is what would be computed: whatever is set, nothing that was
\* computed from it is used again (SYMBOL_VALID, sym_clear_all_valid).
CacheTrue == Agree(Anew(st))

\* Is there something oldconfig would ask about?
WouldAsk(t) ==
    \E m \in DOMAIN K(t).menus : Unanswered(t, K(t).menus[m].sym) /\ IsVisible(t, m).v

Settled(t) == WriteConfig(t).lines = saved /\ ~ WouldAsk(t)

\* A configuration that was written is settled: read again, it has the same
\* values, and there is nothing new to ask about.
SettledIsStable == phase = "written" => Settled(ReadConfig(Fresh(st.f), saved))

OneOfEach(t) ==
    \A c \in {s \in DOMAIN t.new : IsChoice(K(t), s)} :
       Cardinality({v \in Range(K(t).values[c]) : <<v, "y">> \in Range(saved)})
         = IF t.tri[c] = 2 THEN 1 ELSE 0

\* Exactly one value of a choice that is y is y, none of another.
OneOfEachChoice == phase = "written" => OneOfEach(Anew(ReadConfig(Fresh(st.f), saved)))

\* The conditions a text puts on its entries, read off the text alone: for
\* every config statement the expressions of its own "depends" and of the
\* blocks it is in.
Conditions(text) ==
    LET Open(r, e) == [r EXCEPT !.open = Append(@, e)]
        With(conds, e) == Append(Front(conds), Append(Last(conds), e))
        Go(r, stmt) ==
            CASE stmt[1] = "config" -> [r EXCEPT !.done = Append(@, [sym |-> stmt[2], own |-> << >>, of |-> r.open]),
                                                 !.in = "entry"]
              [] stmt[1] \in {"choice", "menu"} -> [r EXCEPT !.open = Append(@, << >>), !.in = "block"]
              [] stmt[1] = "if" -> [r EXCEPT !.open = Append(@, <<stmt[2]>>), !.in = "none"]
              [] stmt[1] = "end" -> [r EXCEPT !.open = Front(@), !.in = "none"]
              [] stmt[1] = "depends" /\ r.in = "block" -> [r EXCEPT !.open = With(@, stmt[2])]
              [] stmt[1] = "depends" /\ r.in = "entry" ->
                   [r EXCEPT !.done = Append(Front(@), [Last(@) EXCEPT !.own = Append(@, stmt[2])])]
              [] OTHER -> r
    IN FoldLeft(Go, [open |-> << >>, done |-> << >>, in |-> "none"], text).done

Written == [f \in DOMAIN Files |-> Conditions(Files[f])]

\* The conditions of an entry hold for the values that were computed.
EntryHolds(now, entry) ==
    \A e \in Range(entry.own) \cup UNION {Range(conds) : conds \in Range(entry.of)} :
       ValueIn(now, e).v # 0

DependenciesOf(now) ==
    \A s \in DOMAIN now.new :
       (now.tri[s] # 0 /\ now.rev[s] = 0 /\ ~ IsChoice(K(now), s))
         => \E entry \in Range(Written[now.f]) : entry.sym = s /\ EntryHolds(now, entry)

\* A symbol that nothing selects is n unless the conditions of one of its
\* entries hold as they are written.
DependenciesHold == phase = "write" => DependenciesOf(Anew(st))
=============================================================================
