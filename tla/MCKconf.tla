------------------------------- MODULE MCKconf -------------------------------
EXTENDS Kbuild

NoCond == Null
If(e) == <<"if", e>>
EndOf(kind) == <<"end", kind>>
Config(s) == <<"config", s>>
Prompt == <<"prompt", NoCond>>
Default2(e, cond) == <<"default", e, cond>>
Depends(e) == <<"depends", e>>
Not(e) == <<"not", e>>

\* The platforms, the number of interfaces and the standard of C, as in this
\* repository's Kconfig files.
EvrNet == <<
  <<"choice", "PLATFORM">>, Prompt, Default2(Sym("PLAT_LINUX"), NoCond),
    Config("PLAT_LINUX"), Prompt, <<"select", "MULTI", NoCond>>,
    If(<<"eq", "ARCH", "x86">>),
      Config("PLAT_DOS"), Prompt,
    EndOf("if"),
    Config("PLAT_WII"), Prompt, <<"select", "NINTENDO_PPC_COMMON", NoCond>>,
  EndOf("choice"),
  <<"menu">>,
    Config("MULTI"), Default2(N, NoCond),
    Config("C_STD"), Prompt, Default2(Sym("gnu89"), NoCond),
      Default2(Sym("gnu99"), Sym("PLAT_NINTENDO_PPC_COMMON")),
    Config("NET_MAX_INT"), Prompt, Default2(Sym("8"), Sym("MULTI")),
      Default2(Sym("1"), Not(Sym("MULTI"))),
      <<"range", "1", "9", Sym("MULTI")>>, <<"range", "1", "1", Not(Sym("MULTI"))>>,
  EndOf("menu"),
  <<"menu">>,
    Config("SB16"), Prompt, Default2(Y, NoCond), Depends(Sym("PLAT_DOS")),
    Config("NINTENDO_PPC_COMMON"), Default2(N, NoCond),
  EndOf("menu") >>

\* Modules, selects against the order of the file, an entry that gathers the
\* ones behind it.
Modular == <<
  Config("MODULES"), Prompt,
  Config("LIB"),
  Config("A"), Prompt,
  Config("B"), Prompt, Depends(Sym("A")), <<"select", "LIB", NoCond>>,
  If(<<"and", Sym("A"), Not(Sym("D"))>>),
    Config("C"), Prompt, <<"select", "LIB", Sym("B")>>,
  EndOf("if"),
  Config("D"), Default2(Y, Not(Sym("MODULES"))) >>

\* A choice, a menu, a tristate, a number: little enough to be set in every
\* order.
Menus == <<
  <<"choice", "PLATFORM">>, Prompt,
    Config("PLAT_LINUX"), Prompt,
    Config("PLAT_WII"), Prompt, Depends(Not(Sym("A"))),
  EndOf("choice"),
  <<"menu">>,
    Config("MODULES"), Default2(Y, NoCond),
    Config("A"), Prompt, <<"select", "LIB", Sym("PLAT_LINUX")>>,
    Config("LIB"),
    Config("NET_MAX_INT"), Prompt, Default2(Sym("8"), NoCond), <<"range", "1", "9", NoCond>>,
  EndOf("menu") >>

\* Little enough to be built in every order.
Small == <<
  <<"choice", "PLATFORM">>, Prompt,
    Config("PLAT_LINUX"), Prompt,
    Config("PLAT_WII"), Prompt, <<"select", "NINTENDO_PPC_COMMON", NoCond>>,
  EndOf("choice"),
  Config("NINTENDO_PPC_COMMON"),
  Config("SB16"), Prompt, Depends(Sym("PLAT_LINUX")) >>

\* Small, a year later.
Grown == <<
  <<"choice", "PLATFORM">>, Prompt,
    Config("PLAT_LINUX"), Prompt,
    Config("PLAT_WII"), Prompt, <<"select", "NINTENDO_PPC_COMMON", NoCond>>,
    Config("PLAT_DOS"), Prompt,
  EndOf("choice"),
  Config("NINTENDO_PPC_COMMON") >>

MCFiles == [evrnet |-> EvrNet, modular |-> Modular, menus |-> Menus, small |-> Small, grown |-> Grown]
MCLater == [evrnet |-> {"evrnet"}, modular |-> {"modular"}, menus |-> {"menus"},
            small |-> {"small", "grown"}, grown |-> {"grown"}]

Unknown == {"gnu89", "gnu99", "8", "1", "9", "x86", "PLAT_NINTENDO_PPC_COMMON"}

MCSymType ==
    [s \in {"PLATFORM", "PLAT_LINUX", "PLAT_DOS", "PLAT_WII", "MULTI", "SB16",
            "NINTENDO_PPC_COMMON", "MODULES", "D"} |-> "bool"]
    @@ [s \in {"A", "B", "C", "LIB"} |-> "tristate"]
    @@ [s \in {"C_STD", "ARCH"} |-> "string"]
    @@ [s \in {"NET_MAX_INT"} |-> "int"]
    @@ [s \in Unknown |-> "unknown"]
    @@ [s \in Consts |-> "const"]

\* The sum of the characters of a name, modulo 256.
MCHashOrder ==
    <<"MODULES", "ARCH", "PLAT_LINUX", "1", "8", "9", "A", "B", "C", "D",
      "PLAT_NINTENDO_PPC_COMMON", "NET_MAX_INT", "PLAT_DOS", "PLAT_WII", "MULTI", "C_STD",
      "gnu89", "gnu99", "NINTENDO_PPC_COMMON", "LIB", "x86", "SB16", "PLATFORM">>

\* Nothing of EvrNet can be m; Menus are set in menuconfig alone.
MCModes == [evrnet |-> {"config", "oldconfig", "silentoldconfig", "allyes", "allno", "randconfig"},
            modular |-> {"config", "oldconfig", "silentoldconfig", "defconfig", "allyes", "allmod", "allno"},
            menus |-> {}, small |-> {"config", "allno"}, grown |-> {"config", "allno"}]

MCEdits == [evrnet |-> {<<"PLAT_DOS", "y">>, <<"NET_MAX_INT", "9">>, <<"GONE", "y">>},
            modular |-> {<<"A", "m">>, <<"LIB", "y">>},
            menus |-> {},
            small |-> {<<"PLAT_WII", "y">>},
            grown |-> {}]

\* One object that cannot change, one that sources may be added to.
MCSources == [net |-> {{<<"CONFIG", "PLAT_WII">>, <<"MY_CONFIG", "PLAT_LINUX">>}},
              snd |-> {{<<"IF", "SB16">>}, {<<"IF", "SB16">>, <<"ENABLE", "PLAT_LINUX">>}}]

-----------------------------------------------------------------------------
(* The algorithms without state, for every small input *)

\* Expressions over a bool and a tristate.
Leaves == {Sym(s) : s \in {"D", "A"} \cup Consts} \cup {<<op, s, c>> : op \in Compares, s \in {"D", "A"}, c \in Consts}
Literals == Leaves \cup {<<"not", e>> : e \in Leaves}
Exprs == Literals \cup {<<op, e, f>> : op \in Chains, e \in Literals, f \in Literals}
Valuations == {[s \in {"D", "A"} |-> IF s = "D" THEN d ELSE a] @@ Tristate : d \in {0, 2}, a \in 0..2}
Of(e, of) == Value(e, of, of)

\* However an expression is rewritten it keeps its value; made a condition for
\* a bool, it is not n where it was not, as long as nothing is m; and what is
\* said to depend on a symbol is n where that is.
ASSUME RewritingKeepsValues ==
    \A e \in Exprs : \A of \in Valuations :
       /\ Of(EliminateYn(e), of) = Of(e, of)
       /\ Of(Transform(e), of) = Of(e, of)
       /\ Of(EliminateDups(e), of) = Of(e, of)
       /\ of["A"] # 1 => (Of(TransBool(e), of) # 0) = (Of(e, of) # 0)
       /\ \A s \in {"D", "A"} : DependsSymbol(e, s) /\ Of(e, of) # 0 => of[s] # 0

\* Three symbols, each of which depends on some of them.
Depending(needs) ==
    FlattenSeq([i \in 1..3 |->
       LET s == <<"A", "B", "C">>[i]
       IN <<Config(s), Prompt>> \o [j \in DOMAIN needs[s] |-> Depends(Sym(needs[s][j]))]])

Lists == {<< >>} \cup {<<s>> : s \in {"A", "B", "C"}} \cup {<<"A", "B">>, <<"B", "C">>, <<"C", "A">>}

Reaches(needs, s, t) ==
    LET One(S) == S \cup UNION {Range(needs[u]) : u \in S}
    IN t \in One(One(Range(needs[s])))

\* sym_check_deps warns exactly where a symbol depends on itself.
ASSUME RecursionIsFound ==
    \A needs \in [{"A", "B", "C"} -> Lists] :
       WarnsOfRecursion(Parse(Depending(needs))) = \E s \in {"A", "B", "C"} : Reaches(needs, s, s)
=============================================================================
