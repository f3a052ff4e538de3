--------------------------------- MODULE Ksym ---------------------------------
(***************************************************************************)
(* The values of the symbols (scripts/kconfig/symbol.c): computed when     *)
(* asked for, from what the user chose, what is visible and what selects   *)
(* them, and kept until something is set.  The table of the symbols is one *)
(* record st that every function of the code takes and leaves behind:      *)
(*                                                                         *)
(*   tri, val, chosen     curr: the tristate, the string, the choice value *)
(*   utri, uval, uchosen  user: the same, as set or read                   *)
(*   vis, rev, shown      visible, rev_dep.tri, and visible.tri of prompts *)
(*   new, valid, write    the symbols with these flags                     *)
(*   modules, changes     modules_val, sym_change_count                    *)
(***************************************************************************)
EXTENDS Kmenu

CONSTANTS Files,      \* Files[f]: the text of Kconfig file f
          HashOrder,  \* every symbol, in the order of for_all_symbols
          MaxNumber   \* numbers up to this are told apart

VARIABLE table        \* table[f]: what conf_parse makes of the text of f, each
                      \* time a configurator is started; it never changes

Empty == ""
NoText == "NULL"   \* no string at all
Logical == {"bool", "tristate"}
Texts == {"int", "string"}
TriName == <<"n", "m", "y">>

Number == [s \in {ToString(i) : i \in 0..MaxNumber} |-> CHOOSE i \in 0..MaxNumber : ToString(i) = s]

\* strtol, for the strings that occur.
Strtol(s) == IF s \in DOMAIN Number THEN Number[s] ELSE 0

K(st) == table[st.f]

\* The symbols of a file but y, m and n.
Known(f) == {s \in Entries : SymType[s] # "const" /\
                             (s = ModulesSym \/ \E stmt \in Range(Files[f]) : Names(stmt, s))}
Symbols(st) == SelectSeq(HashOrder, LAMBDA s : s \in DOMAIN st.new)

\* The symbols of file f after conf_parse, ss their names and y, m and n.
FreshOf(f, ss) ==
    [f |-> f, tri |-> [s \in ss |-> IF s \in Consts THEN Tristate[s] ELSE 0],
     val |-> [s \in ss |-> Empty], chosen |-> [s \in ss |-> NoSym],
     utri |-> [s \in ss |-> 0], uval |-> [s \in ss |-> NoText], uchosen |-> [s \in ss |-> NoSym],
     vis |-> [s \in ss |-> 0], rev |-> [s \in ss |-> 0],
     shown |-> [i \in DOMAIN table[f].props |-> 0],
     new |-> [s \in ss \ Consts |-> TRUE], valid |-> Consts, write |-> {},
     modules |-> 0, changes |-> TRUE]

Fresh(f) == FreshOf(f, Known(f) \cup Consts)

IsValue(st, s) == s \notin Consts /\ K(st).choice[s] # NoSym
HasValue(st, s) == ~ st.new[s]

\* The properties of a symbol of one type, in order.
Props(st, s, type) ==
    SelectSeq([i \in DOMAIN K(st).props |-> i],
              LAMBDA i : K(st).props[i].sym = s /\ K(st).props[i].type = type)

Prompts(st, s) ==
    SelectSeq([i \in DOMAIN K(st).props |-> i],
              LAMBDA i : K(st).props[i].sym = s /\ K(st).props[i].type \in {"prompt", "menu", "comment"})

\* sym_get_type
GetType(st, s) ==
    IF SymType[s] = "tristate" /\ (st.modules = 0 \/ (IsValue(st, s) /\ st.vis[s] = 2))
    THEN "bool" ELSE SymType[s]

\* sym_get_string_value
GetString(st, s) ==
    IF s \in Consts \/ SymType[s] \in Logical THEN TriName[st.tri[s] + 1] ELSE st.val[s]

-----------------------------------------------------------------------------
RECURSIVE CalcValue(_, _)

\* An expression for the values that were computed: [st, v]
ValueIn(st, e) == [st |-> st, v |-> Value(e, st.tri, [s \in DOMAIN st.tri |-> GetString(st, s)])]

\* expr_calc_value: every symbol is computed, whatever the first ones are.
CalcExpr(st, e) == ValueIn(FoldLeft(CalcValue, st, SymsOf(e)), e)

OnlyIf(c, i) == [st |-> c.st, i |-> IF c.v = 0 THEN NoProp ELSE i]

\* The first of these properties whose condition holds: [st, i], 0 for none
\* (sym_get_default_prop, sym_get_range_prop).
FirstProp(st, is) ==
    FoldLeft(LAMBDA r, i : IF r.i # NoProp THEN r ELSE OnlyIf(CalcExpr(r.st, K(st).props[i].vis), i),
             [st |-> st, i |-> NoProp], is)

Expr(r) == K(r.st).props[r.i].expr

-----------------------------------------------------------------------------
(* sym_calc_visibility *)

\* A prompt was found to be as visible as c.v.
Show(c, v, i) == [st |-> [c.st EXCEPT !.shown[i] = c.v], v |-> Greater(v, c.v)]

NoteVisible(r, s) ==
    [r.st EXCEPT !.vis[s] = IF r.v = 1 /\ (SymType[s] # "tristate" \/ r.st.modules = 0) THEN 2 ELSE r.v]

NoteSelected(r, s) ==
    [r.st EXCEPT !.rev[s] = IF r.v = 1 /\ GetType(r.st, s) = "bool" THEN 2 ELSE r.v]

CalcSelected(st, s) ==
    IF IsValue(st, s) THEN st
    ELSE NoteSelected(IF K(st).rev[s] = Null THEN [st |-> st, v |-> 0] ELSE CalcExpr(st, K(st).rev[s]), s)

CalcVisibility(st, s) ==
    CalcSelected(NoteVisible(FoldLeft(LAMBDA r, i : Show(CalcExpr(r.st, K(st).props[i].vis), r.v, i),
                                      [st |-> st, v |-> 0], Prompts(st, s)), s), s)

-----------------------------------------------------------------------------
(* sym_calc_choice *)

IfSeen(st, s) == [st |-> st, v |-> IF st.vis[s] # 0 THEN s ELSE NoSym]

IfVisible(c, s) == IF c.v = 0 THEN [st |-> c.st, v |-> NoSym] ELSE IfSeen(CalcVisibility(c.st, s), s)

\* What the user chose, the defaults, all values: <<value, condition>>
Candidates(st, c) ==
    <<<<st.uchosen[c], Null>>>>
    \o [i \in DOMAIN Props(st, c, "default") |->
          LET prop == K(st).props[Props(st, c, "default")[i]] IN <<prop.expr[2], prop.vis>>]
    \o [i \in DOMAIN K(st).values[c] |-> <<K(st).values[c][i], Null>>]

Choose(r, c) ==
    IF r.v # NoSym THEN [r.st EXCEPT !.chosen[c] = r.v]
    ELSE [r.st EXCEPT !.chosen[c] = NoSym, !.tri[c] = 0]

\* The value a choice has: the first of these that is visible.
CalcChoice(st, c) ==
    Choose(FoldLeft(LAMBDA r, cand : IF r.v # NoSym \/ cand[1] = NoSym THEN r
                                     ELSE IfVisible(CalcExpr(r.st, cand[2]), cand[1]),
                    [st |-> st, v |-> NoSym], Candidates(st, c)), c)

-----------------------------------------------------------------------------
(* sym_validate_range: a number outside of its range is brought to its end *)

BringTo(st, s, end) == [st EXCEPT !.val[s] = ToString(Strtol(st.val[end]))]

BelowHigh(st, s, high) == IF Strtol(st.val[s]) > Strtol(st.val[high]) THEN BringTo(st, s, high) ELSE st

AboveLow(st, s, ends) ==
    IF Strtol(st.val[s]) < Strtol(st.val[ends[2]]) THEN BringTo(st, s, ends[2])
    ELSE BelowHigh(CalcValue(st, ends[3]), s, ends[3])

WithinEnds(r, s) == IF r.i = NoProp THEN r.st ELSE AboveLow(CalcValue(r.st, Expr(r)[2]), s, Expr(r))

ValidateRange(st, s) ==
    IF SymType[s] = "int" THEN WithinEnds(FirstProp(st, Props(st, s, "range")), s) ELSE st

-----------------------------------------------------------------------------
(* sym_calc_value *)

\* What a symbol is when nothing is chosen for it: [st, i] of its default.
Default(st, s) == FirstProp(st, Props(st, s, "default"))

\* Mutant: whatever was read for a value counts.
OwnUser(st, s) == st.utri[s]

\* A value of a choice that is y.
OfChoice(st, s) == IF st.chosen[K(st).choice[s]] = s THEN 2 ELSE 0

Writes(st, s) == [st EXCEPT !.write = @ \cup {s}]

NoteDefault(r, s) == IF r.i = NoProp THEN r ELSE [r EXCEPT !.st = Writes(@, s)]

Given(r) == IF r.i = NoProp THEN [st |-> r.st, v |-> 0] ELSE CalcExpr(r.st, Expr(r))

\* What is asked for where it is visible or selected.
Wanted(st, s) ==
    IF HasValue(st, s) THEN [st |-> st, v |-> st.utri[s]]
    ELSE IF IsChoice(K(st), s) THEN [st |-> st, v |-> 0]
    ELSE Given(Default(st, s))

Bounded(r, s) == [r EXCEPT !.v = Greater(Lesser(@, r.st.vis[s]), r.st.rev[s])]

Unrounded(st, s) ==
    IF IsValue(st, s) /\ st.vis[s] = 2 THEN [st |-> st, v |-> OfChoice(st, s)]
    ELSE IF Greater(st.vis[s], st.rev[s]) # 0 THEN Bounded(Wanted(Writes(st, s), s), s)
    ELSE IF IsChoice(K(st), s) THEN [st |-> st, v |-> 0]
    ELSE Given(NoteDefault(Default(st, s), s))

\* A bool is not m.
Round(r, s) == [r.st EXCEPT !.tri[s] = IF r.v = 1 /\ GetType(r.st, s) = "bool" THEN 2 ELSE r.v]

CopyText(st, s, from) == [st EXCEPT !.val[s] = st.val[from]]

DefaultText(r, s) ==
    IF r.i = NoProp THEN r.st ELSE CopyText(CalcValue(Writes(r.st, s), Expr(r)[2]), s, Expr(r)[2])

TextValue(st, s) ==
    IF st.vis[s] = 0 THEN DefaultText(Default(st, s), s)
    ELSE IF HasValue(st, s) THEN [Writes(st, s) EXCEPT !.val[s] = st.uval[s]]
    ELSE DefaultText(Default(Writes(st, s), s), s)

\* The value of a symbol whose visibility was just computed.
NewValue(st, s) == IF SymType[s] \in Logical THEN Round(Unrounded(st, s), s) ELSE TextValue(st, s)

\* A symbol is only written where its new value says so; a choice says it.
Unwritten(st, s) ==
    [st EXCEPT !.valid = @ \cup {s}, !.write = IF IsValue(st, s) THEN @ ELSE @ \ {s}]

Blank(st, s) == [st EXCEPT !.tri[s] = 0, !.val[s] = Empty, !.chosen[s] = NoSym]

ValueOfChoice(st, s) == IF IsChoice(K(st), s) /\ st.tri[s] = 2 THEN CalcChoice(st, s) ELSE st

NoteModules(st, s) == IF s = ModulesSym THEN [st EXCEPT !.modules = st.tri[s]] ELSE st

WriteValues(st, s) ==
    IF IsChoice(K(st), s) /\ s \in st.write THEN [st EXCEPT !.write = @ \cup Range(K(st).values[s])] ELSE st

CalcValue(st, s) ==
    CASE s \in st.valid -> st
      [] s \notin st.valid /\ SymType[s] = "unknown" ->
           [st EXCEPT !.valid = @ \cup {s}, !.val[s] = s, !.tri[s] = 0]
      [] OTHER ->
           WriteValues(NoteModules(ValidateRange(ValueOfChoice(
               NewValue(Blank(CalcVisibility(Unwritten(st, s), s), s), s), s), s), s), s)

-----------------------------------------------------------------------------
(* Setting a symbol: [st, ok] *)

\* Mutant: all that was computed stays.
KeepAllValid(st) == [st EXCEPT !.changes = TRUE]

\* Nothing computed so far counts; what MODULES is must be known at once.
ClearAllValid(st) ==
    CalcValue([st EXCEPT !.valid = Consts, !.changes = TRUE], ModulesSym)

\* sym_is_changable
Changable(st, s) == st.vis[s] > st.rev[s]

\* sym_tristate_within_range
WithinRange(st, s, v) ==
    /\ st.vis[s] # 0
    /\ GetType(st, s) \in Logical
    /\ ~ (GetType(st, s) = "bool" /\ v = 1)
    /\ Changable(st, s)
    /\ IF IsValue(st, s) /\ st.vis[s] = 2 THEN v = 2 ELSE v \in st.rev[s] .. st.vis[s]

\* Mutant: the choice stays new.
OnlyItself(st, c, s) == {s}

\* A choice value that is set makes none of the others new, nor the choice.
NotNew(st, c, s) == {s, c} \cup {t \in Range(K(st).values[c]) : st.vis[t] # 0}

SetTristate(st, s, v) ==
    LET c == K(st).choice[s]
        old == [st EXCEPT !.new[s] = FALSE]
        chosen == [old EXCEPT !.uchosen[c] = s,
                              !.new = [t \in DOMAIN @ |-> @[t] /\ t \notin NotNew(st, c, s)]]
        set == [IF IsValue(st, s) /\ v = 2 THEN chosen ELSE old EXCEPT !.utri[s] = v]
    IN IF st.tri[s] # v /\ ~ WithinRange(st, s, v) THEN [st |-> st, ok |-> FALSE]
       ELSE [st |-> IF st.tri[s] # v THEN ClearAllValid(set) ELSE set, ok |-> TRUE]

\* sym_string_valid and sym_string_within_range, for the number n: [st, ok]
NotAbove(st, high, n) == [st |-> st, ok |-> n <= Strtol(st.val[high])]

NotBelow(st, ends, n) ==
    IF n < Strtol(st.val[ends[2]]) THEN [st |-> st, ok |-> FALSE]
    ELSE NotAbove(CalcValue(st, ends[3]), ends[3], n)

IsBetween(r, n) ==
    IF r.i = NoProp THEN [st |-> r.st, ok |-> TRUE] ELSE NotBelow(CalcValue(r.st, Expr(r)[2]), Expr(r), n)

StringWithinRange(st, s, text) ==
    IF SymType[s] = "int" /\ text \in DOMAIN Number
    THEN IsBetween(FirstProp(st, Props(st, s, "range")), Number[text])
    ELSE [st |-> st, ok |-> SymType[s] = "string"]

\* sym_set_string_value, for a symbol that is text.
TakeString(st, s, text) ==
    IF st.uval[s] = text THEN st ELSE ClearAllValid([st EXCEPT !.uval[s] = text])

SetIfOk(r, s, text) ==
    IF r.ok THEN [r EXCEPT !.st = TakeString([@ EXCEPT !.new[s] = FALSE], s, text)] ELSE r

SetString(st, s, text) == SetIfOk(StringWithinRange(st, s, text), s, text)

-----------------------------------------------------------------------------
\* menu_is_visible: [st, v]
RECURSIVE IsVisible(_, _)

CalcPrompt(c, i) == [c.st EXCEPT !.shown[i] = c.v]

CalcMenu(st, menu) ==
    IF menu.sym # NoSym THEN CalcValue(st, menu.sym)
    ELSE CalcPrompt(CalcExpr(st, K(st).props[menu.prompt].vis), menu.prompt)

\* An entry that is y or m without being visible shows what is below it.
Calculated(st, menu) ==
    IF st.shown[menu.prompt] # 0 THEN [st |-> st, v |-> TRUE]
    ELSE IF menu.sym = NoSym THEN [st |-> st, v |-> FALSE]
    ELSE IF st.tri[menu.sym] = 0 THEN [st |-> st, v |-> FALSE]
    ELSE FoldLeft(LAMBDA r, child : IF r.v THEN r ELSE IsVisible(r.st, child),
                  [st |-> st, v |-> FALSE], Chain(K(st), menu.list))

IsVisible(st, m) ==
    IF K(st).menus[m].prompt = NoProp THEN [st |-> st, v |-> FALSE]
    ELSE Calculated(CalcMenu(st, K(st).menus[m]), K(st).menus[m])
=============================================================================
