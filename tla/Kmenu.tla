-------------------------------- MODULE Kmenu --------------------------------
(***************************************************************************)
(* From the text of a Kconfig file to the tree of menus and the table of   *)
(* properties that the configurators work with: the actions of the parser  *)
(* (scripts/kconfig/zconf.y), what they build (menu.c), and menu_finalize, *)
(* which hands every dependency down, groups the entries into submenus and *)
(* collects the values of a choice and what selects a symbol.              *)
(*                                                                         *)
(* A file is a sequence of statements: <<"config", s>>, <<"choice", c>>,   *)
(* <<"menu">>, <<"comment">>, <<"if", e>>, <<"end", kind>> and the options *)
(* <<"prompt", cond>>, <<"default", e, cond>>, <<"select", s, cond>>,      *)
(* <<"range", low, high, cond>>, <<"depends", e>>, <<"optional">>.  A      *)
(* condition that is not written is Null.  A menu is a number, 0 for none, *)
(* 1 for rootmenu; properties are numbered in the order they are read.     *)
(***************************************************************************)
EXTENDS Kexpr, FiniteSetsExt, TLC

CONSTANT Arch   \* $ARCH, NoSym when it is not set

Entries == DOMAIN SymType      \* every symbol the file can name
ModulesSym == "MODULES"

NoProp == 0
Root == 1
None == 0

Menu(sym, parent) ==
    [sym |-> sym, parent |-> parent, next |-> None, list |-> None, prompt |-> NoProp, dep |-> Null]

\* What sym_init and menu_init leave: the symbol ARCH with a default from the
\* environment, the root menu with its prompt.
Started ==
    [menus |-> <<[Menu(NoSym, None) EXCEPT !.prompt = 1]>>,
     props |-> <<[sym |-> NoSym, type |-> "menu", expr |-> Null, vis |-> Null, menu |-> Root]>>
               \o IF Arch = NoSym THEN << >>
                  ELSE <<[sym |-> "ARCH", type |-> "default", expr |-> Sym(Arch),
                          vis |-> Null, menu |-> None]>>,
     at |-> Root, entry |-> Root,
     last |-> <<Root, "list">>,     \* last_entry_ptr: whose pointer, and which
     open |-> FALSE,                \* a menu or choice whose options are being read
     optional |-> {},
     choice |-> [s \in Entries |-> NoSym],
     values |-> [s \in Entries |-> << >>],
     rev |-> [s \in Entries |-> Null],
     failed |-> FALSE]

-----------------------------------------------------------------------------
(* menu.c, reading *)

AddEntry(k, sym) ==
    LET m == Len(k.menus) + 1
        linked == IF k.last[2] = "list"
                  THEN [k.menus EXCEPT ![k.last[1]].list = m]
                  ELSE [k.menus EXCEPT ![k.last[1]].next = m]
    IN [k EXCEPT !.menus = Append(linked, Menu(sym, k.at)), !.last = <<m, "next">>, !.entry = m]

AddMenu(k) == [k EXCEPT !.last = <<k.entry, "list">>, !.at = k.entry, !.open = FALSE]

EndMenu(k) == [k EXCEPT !.last = <<k.at, "next">>, !.at = k.menus[k.at].parent]

\* The tristate m is never more than MODULES.
RECURSIVE CheckDep(_)
CheckDep(e) ==
    CASE e = M -> <<"and", M, Sym(ModulesSym)>>
      [] e # Null /\ e[1] = "not" -> <<"not", CheckDep(e[2])>>
      [] e # Null /\ e[1] \in Chains -> <<e[1], CheckDep(e[2]), CheckDep(e[3])>>
      [] OTHER -> e

AddDep(k, e) ==
    [k EXCEPT !.menus[k.entry].dep = And(@, CheckDep(e))]

AddProp(k, type, expr, cond) ==
    LET prop == [sym |-> k.menus[k.entry].sym, type |-> type, expr |-> expr,
                 vis |-> CheckDep(cond), menu |-> k.entry]
        added == [k EXCEPT !.props = Append(@, prop)]
    IN IF type \in {"prompt", "menu", "comment"}
       THEN [added EXCEPT !.menus[k.entry].prompt = Len(added.props)]
       ELSE added

-----------------------------------------------------------------------------
(* zconf.y: the state after one more statement *)

IsChoice(k, s) == \E p \in Range(k.props) : p.type = "choice" /\ p.sym = s

Kind(k, m) ==
    CASE k.menus[m].sym # NoSym -> "choice"
      [] k.menus[m].sym = NoSym /\ k.menus[m].prompt # NoProp -> "menu"
      [] OTHER -> "if"

\* What ends must be what is open (zconf_endtoken; all is one file here).
End(k, kind) ==
    IF k.at # Root /\ Kind(k, k.at) = kind THEN EndMenu(k) ELSE [k EXCEPT !.failed = TRUE]

\* The options of an open menu or choice end with the first other statement.
Within(k) == IF k.open THEN AddMenu(k) ELSE k

\* config, choice and their options.
ReadEntry(k, stmt) ==
    CASE stmt[1] = "config" -> [AddEntry(Within(k), stmt[2]) EXCEPT !.optional = @ \cup {stmt[2]}]
      [] stmt[1] = "choice" ->
           [AddProp(AddEntry(Within(k), stmt[2]), "choice", Null, Null) EXCEPT !.open = TRUE]
      [] stmt[1] = "prompt" -> AddProp(k, "prompt", Null, stmt[2])
      [] stmt[1] = "default" -> AddProp(k, "default", stmt[2], stmt[3])
      [] stmt[1] = "select" -> AddProp(k, "select", Sym(stmt[2]), stmt[3])
      [] stmt[1] = "range" -> AddProp(k, "range", <<"range", stmt[2], stmt[3]>>, stmt[4])
      [] stmt[1] = "optional" -> [k EXCEPT !.optional = @ \cup {k.menus[k.entry].sym}]

\* The other blocks, comments and dependencies.
ReadBlock(k, stmt) ==
    CASE stmt[1] = "if" -> AddMenu(AddDep(AddEntry(Within(k), NoSym), stmt[2]))
      [] stmt[1] = "menu" ->
           [AddProp(AddEntry(Within(k), NoSym), "menu", Null, Null) EXCEPT !.open = TRUE]
      [] stmt[1] = "comment" -> AddProp(AddEntry(Within(k), NoSym), "comment", Null, Null)
      [] stmt[1] = "depends" -> AddDep(k, stmt[2])
      [] stmt[1] = "end" -> End(Within(k), stmt[2])

Read(k, stmt) ==
    IF stmt[1] \in {"if", "menu", "comment", "depends", "end"} THEN ReadBlock(k, stmt) ELSE ReadEntry(k, stmt)

-----------------------------------------------------------------------------
(* menu_finalize *)

\* What an entry that is not a choice hands down.
VisibleDep(k, m) ==
    IF k.menus[m].prompt # NoProp THEN k.props[k.menus[m].prompt].vis ELSE k.menus[m].dep

\* Mutant: what the entry is in does not matter.
OwnDep(menu, parentdep) == EliminateDups(Transform(menu.dep))

FullDep(menu, parentdep) == EliminateDups(And(parentdep, Transform(menu.dep)))

\* The condition of a property of an entry with these dependencies.
InheritVis(prop, base) ==
    IF prop.sym # NoSym /\ SymType[prop.sym] # "tristate"
    THEN TransBool(EliminateDups(And(base, Transform(prop.vis))))
    ELSE EliminateDups(And(base, Transform(prop.vis)))

\* A select becomes a reverse dependency.
WithVis(k, i, vis) ==
    IF k.props[i].type = "select"
    THEN [k EXCEPT !.props[i].vis = vis,
                   !.rev[k.props[i].expr[2]] = Or(@, And(Sym(k.props[i].sym), vis))]
    ELSE [k EXCEPT !.props[i].vis = vis]

InheritDep(k, m, base) ==
    FoldLeft(LAMBDA r, i : IF r.props[i].menu = m THEN WithVis(r, i, InheritVis(r.props[i], base)) ELSE r,
             [k EXCEPT !.menus[m].dep = base], [i \in DOMAIN k.props |-> i])

\* The dependencies of a menu's parent added to its own, and these to those
\* of its properties.
Inherit(k, m, parentdep) == InheritDep(k, m, FullDep(k.menus[m], parentdep))

RECURSIVE InheritFrom(_, _, _)
InheritFrom(k, m, parentdep) ==
    IF m = None THEN k ELSE InheritFrom(Inherit(k, m, parentdep), k.menus[m].next, parentdep)

\* Whether an entry that names the symbol of the one before it goes below it.
NotNo(e) == EliminateDups(Transform(TransCompare(e, "ne", "n")))

Implies(dep, base) == EliminateEq(NotNo(dep), base)[3] \in {Null, Y}

BelowDep(dep, sym, base) ==
    ContainsSymbol(dep, sym) /\ (DependsSymbol(dep, sym) \/ Implies(dep, base))

RECURSIVE Finalize(_, _), FinalizeFrom(_, _), Gather(_, _, _, _, _), Collect(_, _, _)

FinalizeNext(k, m) == FinalizeFrom(k, k.menus[m].next)

FinalizeFrom(k, m) == IF m = None THEN k ELSE FinalizeNext(Finalize(k, m), m)

GatherNext(k, parent, m, base) ==
    Gather([k EXCEPT !.menus[m].parent = parent], parent, k.menus[m].next, m, base)

\* The entries that follow parent and depend on it, from m on, the last one
\* taken being last: they become its list.
Gather(k, parent, m, last, base) ==
    IF m # None /\ BelowDep(VisibleDep(k, m), k.menus[parent].sym, base)
    THEN GatherNext(Finalize(k, m), parent, m, base)
    ELSE IF last = None THEN k
    ELSE [k EXCEPT !.menus[parent].list = k.menus[parent].next,
                   !.menus[parent].next = k.menus[last].next,
                   !.menus[last].next = None]

RECURSIVE Chain(_, _)
Chain(k, m) == IF m = None THEN << >> ELSE <<m>> \o Chain(k, k.menus[m].next)

\* What is below an entry without a prompt is taken up beside it.
Flatten(k, parent, m, below) ==
    [k EXCEPT !.menus =
       [i \in DOMAIN @ |->
          [@[i] EXCEPT !.parent = IF i \in Range(below) THEN parent ELSE @,
                       !.list = IF i = m THEN None ELSE @,
                       !.next = IF i = m THEN below[1] ELSE IF i = Last(below) THEN k.menus[m].next ELSE @]]]

\* An entry of a choice is one of its values.
NoteValue(k, c, s) ==
    IF c # NoSym /\ s # NoSym /\ IsChoice(k, c)
    THEN [k EXCEPT !.choice[s] = c, !.values[c] = Append(@, s)]
    ELSE k

CollectOne(k, parent, m) ==
    IF k.menus[m].list # None /\ k.menus[m].prompt = NoProp
    THEN Flatten(k, parent, m, Chain(k, k.menus[m].list))
    ELSE k

CollectNext(k, parent, m) == Collect(k, parent, k.menus[m].next)

\* The list of parent, from m on.
Collect(k, parent, m) ==
    IF m = None THEN k
    ELSE CollectNext(CollectOne(NoteValue(k, k.menus[parent].sym, k.menus[m].sym), parent, m), parent, m)

CollectAll(k, parent) == Collect(k, parent, k.menus[parent].list)

\* What is below a choice depends on it.
HandedDown(k, m) ==
    IF k.menus[m].sym # NoSym /\ IsChoice(k, k.menus[m].sym) THEN Sym(k.menus[m].sym) ELSE VisibleDep(k, m)

PromptVis(k, m) == IF k.menus[m].prompt # NoProp THEN k.props[k.menus[m].prompt].vis ELSE Null

FinalizeBelow(k, parent) ==
    CASE k.menus[parent].list # None ->
           FinalizeFrom(InheritFrom(k, k.menus[parent].list, HandedDown(k, parent)), k.menus[parent].list)
      [] k.menus[parent].list = None /\ k.menus[parent].sym # NoSym ->
           Gather(k, parent, k.menus[parent].next, None, NotNo(PromptVis(k, parent)))
      [] OTHER -> k

\* A choice that is not optional is at least m where it is visible.
Mandatory(k, m) ==
    IF k.menus[m].sym # NoSym /\ k.menus[m].sym \notin k.optional /\ k.menus[m].prompt # NoProp
    THEN [k EXCEPT !.rev[k.menus[m].sym] = Or(@, And(PromptVis(k, m), M))]
    ELSE k

Finalize(k, parent) == Mandatory(CollectAll(FinalizeBelow(k, parent), parent), parent)

\* Symbols a statement looks up.
Names(stmt, s) ==
    \/ stmt[1] \in {"config", "choice", "select"} /\ stmt[2] = s
    \/ stmt[1] \in {"if", "depends", "prompt"} /\ ContainsSymbol(stmt[2], s)
    \/ stmt[1] = "default" /\ (ContainsSymbol(stmt[2], s) \/ ContainsSymbol(stmt[3], s))
    \/ stmt[1] = "select" /\ ContainsSymbol(stmt[3], s)
    \/ stmt[1] = "range" /\ (s \in {stmt[2], stmt[3]} \/ ContainsSymbol(stmt[4], s))

\* conf_parse, statement by statement: the table the configurators work with.
RECURSIVE ParseFrom(_, _)
ParseFrom(k, text) ==
    IF text = << >> THEN Finalize(Within(k), Root)
    ELSE ParseFrom(Read(k, Head(text)), Tail(text))

Parse(text) == ParseFrom(Started, text)
-----------------------------------------------------------------------------
(* sym_check_deps: is there a symbol whose value depends on itself? *)

RECURSIVE SymsOf(_)
SymsOf(e) ==
    CASE e = Null -> << >>
      [] e # Null /\ e[1] = "sym" -> <<e[2]>>
      [] e # Null /\ e[1] = "not" -> SymsOf(e[2])
      [] e # Null /\ e[1] \in Chains -> SymsOf(e[2]) \o SymsOf(e[3])
      [] e # Null /\ e[1] \in Compares -> <<e[2], e[3]>>

\* The symbols the value of s is computed from, in the order they are walked.
NeedsOf(k, s) ==
    LET Of(prop) ==
            IF prop.sym # s \/ prop.type \in {"choice", "select"} THEN << >>
            ELSE SymsOf(prop.vis)
                 \o IF prop.type = "default" /\ ~ IsChoice(k, s) THEN SymsOf(prop.expr) ELSE << >>
    IN SymsOf(k.rev[s]) \o FlattenSeq([i \in DOMAIN k.props |-> Of(k.props[i])])

\* r.found: the symbol met again on the way that is now being walked back.
RECURSIVE CheckSym(_, _, _, _)
CheckSym(k, s, path, r) ==
    LET below == FoldLeft(LAMBDA q, t : IF q.found # NoSym THEN q ELSE CheckSym(k, t, path \cup {s}, q),
                          [r EXCEPT !.checked = @ \cup {s}], NeedsOf(k, s))
    IN IF s \in path THEN [r EXCEPT !.found = s, !.warned = TRUE]
       ELSE IF s \in r.checked THEN r
       ELSE [below EXCEPT !.found = IF @ = s THEN NoSym ELSE @]

WarnsOfRecursion(k) ==
    LET Check(r, s) == CheckSym(k, s, {}, [r EXCEPT !.found = NoSym])
    IN FoldSet(LAMBDA s, r : Check(r, s), [checked |-> {}, found |-> NoSym, warned |-> FALSE],
               Entries).warned
=============================================================================
