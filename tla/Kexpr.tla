-------------------------------- MODULE Kexpr --------------------------------
(***************************************************************************)
(* The expressions of Kconfig and what is done to them before they are     *)
(* ever evaluated (scripts/kconfig/expr.c): y and n eliminated, terms that *)
(* repeat each other joined, comparisons and negations rewritten.          *)
(*                                                                         *)
(* The C code rewrites the nodes of a tree in place, through pointers to   *)
(* the slots that hold them; here a slot is a path into a tree, so that    *)
(* the order in which slots are visited and overwritten is the code's.     *)
(***************************************************************************)
EXTENDS Naturals, Sequences, SequencesExt

CONSTANT SymType  \* SymType[s]: "bool", "tristate", or "const" for y, m and n

Null == << >>
NoSym == ""
Sym(s) == <<"sym", s>>
Y == Sym("y")
M == Sym("m")
N == Sym("n")

Consts == {"y", "m", "n"}
Chains == {"and", "or"}
Compares == {"eq", "ne"}

\* What a term of a chain is overwritten with when another one stands for it.
Neutral(type) == IF type = "and" THEN Y ELSE N

Opposite(op) == IF op = "eq" THEN "ne" ELSE "eq"

Both(op, e, f) == IF e = Null THEN f ELSE IF f = Null THEN e ELSE <<op, e, f>>
And(e, f) == Both("and", e, f)
Or(e, f) == Both("or", e, f)

-----------------------------------------------------------------------------
(* Slots *)

At(t, slot) == FoldLeft(LAMBDA e, i : e[i], t, slot)

RECURSIVE Put(_, _, _)
Put(t, slot, e) ==
    IF slot = << >> THEN e ELSE [t EXCEPT ![slot[1]] = Put(@, Tail(slot), e)]

\* The terms of a chain of && or ||, from left to right.
RECURSIVE Terms(_, _, _)
Terms(t, type, slot) ==
    LET e == At(t, slot)
    IN IF e[1] = type
       THEN Terms(t, type, slot \o <<2>>) \o Terms(t, type, slot \o <<3>>)
       ELSE <<slot>>

\* The same with every node of the chain behind those below it.
RECURSIVE Nodes(_, _, _)
Nodes(t, type, slot) ==
    LET e == At(t, slot)
    IN IF e[1] = type
       THEN Nodes(t, type, slot \o <<2>>) \o Nodes(t, type, slot \o <<3>>) \o <<slot>>
       ELSE <<slot>>

Pairs(ps, qs) == FlattenSeq([i \in DOMAIN ps |-> [j \in DOMAIN qs |-> <<ps[i], qs[j]>>]])

-----------------------------------------------------------------------------
(* expr_eliminate_yn, expr_eliminate_eq, expr_eq *)

RECURSIVE EliminateYn(_)
EliminateYn(e) ==
    IF e = Null \/ e[1] \notin Chains THEN e
    ELSE LET l == EliminateYn(e[2])
             r == EliminateYn(e[3])
             absorbing == IF e[1] = "and" THEN N ELSE Y
         IN CASE l = absorbing \/ r = absorbing -> absorbing
              [] l = Neutral(e[1]) -> r
              [] r = Neutral(e[1]) -> l
              [] OTHER -> <<e[1], l, r>>

RECURSIVE ExprEq(_, _)

\* Two terms of a pair, gone from both sides if they are equal.
CancelTerms(type, keep, pair, slots) ==
    IF At(pair, slots[1]) \in keep \/ ~ ExprEq(At(pair, slots[1]), At(pair, slots[2]))
    THEN pair
    ELSE Put(Put(pair, slots[1], Neutral(type)), slots[2], Neutral(type))

\* Equal terms of the two sides leave both, in the order of the chains.
Cancel(type, e, f, keep) ==
    FoldLeft(LAMBDA pair, slots : CancelTerms(type, keep, pair, slots), <<"pair", e, f>>,
             Pairs(Terms(<<"pair", e, f>>, type, <<2>>), Terms(<<"pair", e, f>>, type, <<3>>)))

\* The same where the two sides are no chains of one kind: as chains of the
\* kind of one side, then as those of the other.
CancelBy(pair, i) ==
    IF pair[i][1] \in Chains THEN Cancel(pair[i][1], pair[2], pair[3], {Y, N}) ELSE pair

CancelBoth(pair) == IF pair[2][1] = pair[3][1] THEN pair ELSE CancelBy(pair, 3)

Simplified(pair) == <<"pair", EliminateYn(pair[2]), EliminateYn(pair[3])>>

\* What is left of the two without the terms they share: y and n stay, but
\* only as they are, so that two of them are never cancelled for each other.
EliminateEq(e, f) ==
    IF e = Null \/ f = Null THEN <<"pair", e, f>>
    ELSE Simplified(CancelBoth(CancelBy(<<"pair", e, f>>, 2)))

NothingLeft(pair) == pair[2][1] = "sym" /\ pair[2] = pair[3]

ExprEq(e, f) ==
    /\ e[1] = f[1]
    /\ CASE e[1] \in Compares \cup {"sym"} -> e = f
         [] e[1] = "not" -> ExprEq(e[2], f[2])
         [] e[1] \in Chains -> NothingLeft(EliminateEq(e, f))

\* expr_extract_eq_and, expr_extract_eq_or: the same, for terms of one kind
\* of chain, and nothing is simplified when nothing was shared.
ExtractEq(type, e, f) ==
    IF \E x \in Range(Terms(e, type, << >>)), y \in Range(Terms(f, type, << >>)) : ExprEq(At(e, x), At(f, y))
    THEN Simplified(Cancel(type, e, f, {}))
    ELSE <<"pair", e, f>>

-----------------------------------------------------------------------------
(* expr_join_or, expr_join_and: Null when the two terms can not be joined *)

Simple(e) == e[1] \in Compares \cup {"sym", "not"}

\* The symbol a simple term is about; NoSym if there is none to be found.
Subject(e, negatable) ==
    IF e[1] # "not" THEN e[2]
    ELSE IF e[2][1] \in negatable THEN e[2][2]
    ELSE NoSym

SameSubject(e, f) ==
    /\ Simple(e) /\ Simple(f)
    /\ Subject(e, Compares \cup {"sym"}) # NoSym
    /\ Subject(e, Compares \cup {"sym"}) = Subject(f, {"sym"})
    /\ SymType[Subject(f, {"sym"})] \in {"bool", "tristate"}

\* One of the two is the one, the other the other.
Are(e, f, one, other) == {e, f} = {one, other}

JoinOr(e, f) ==
    LET s == Subject(f, {"sym"})
        bothEq == e[1] = "eq" /\ f[1] = "eq"
    IN IF ExprEq(e, f) THEN e
       ELSE IF ~ SameSubject(e, f) THEN Null
       ELSE IF SymType[s] = "tristate" /\ bothEq /\ {e[3], f[3]} \subseteq Consts
       THEN <<"ne", s, CHOOSE c \in Consts : c \notin {e[3], f[3]}>>
       ELSE IF SymType[s] = "bool" /\ Are(e, f, Sym(s), <<"not", Sym(s)>>) THEN Y
       ELSE Null

JoinAnd(e, f) ==
    LET s == Subject(f, {"sym"})
        bothNe == e[1] = "ne" /\ f[1] = "ne"
        \* The comparison with =, when the other one is with !=.
        equal == IF e[1] = "eq" THEN e ELSE f
        unequal == IF e[1] = "eq" THEN f ELSE e
    IN IF ExprEq(e, f) THEN e
       ELSE IF ~ SameSubject(e, f) THEN Null
       ELSE IF Are(e, f, Sym(s), <<"eq", s, "y">>) THEN <<"eq", s, "y">>
       ELSE IF Are(e, f, Sym(s), <<"ne", s, "n">>) THEN Sym(s)
       ELSE IF Are(e, f, Sym(s), <<"ne", s, "m">>) THEN <<"eq", s, "y">>
       ELSE IF SymType[s] # "tristate" THEN Null
       ELSE IF {e[1], f[1]} = Compares /\ {e[3], f[3]} \subseteq Consts
       THEN IF equal[3] # unequal[3] THEN equal ELSE N
       ELSE IF bothNe /\ {e[3], f[3]} \subseteq Consts
       THEN <<"eq", s, CHOOSE c \in Consts : c \notin {e[3], f[3]}>>
       ELSE Null

Join(type, e, f) == IF type = "and" THEN JoinAnd(e, f) ELSE JoinOr(e, f)
-----------------------------------------------------------------------------
(* expr_transform, expr_trans_compare, expr_trans_bool *)

Flip(s) == IF s = "y" THEN N ELSE IF s = "n" THEN Y ELSE M

\* A comparison of a bool with a constant.
OfBool(e) ==
    CASE <<e[1], e[3]>> \in {<<"eq", "y">>, <<"ne", "n">>} -> Sym(e[2])
      [] <<e[1], e[3]>> \in {<<"eq", "n">>, <<"ne", "y">>} -> <<"not", Sym(e[2])>>
      [] <<e[1], e[3]>> = <<"eq", "m">> -> N
      [] <<e[1], e[3]>> = <<"ne", "m">> -> Y
      [] OTHER -> e

RECURSIVE Transform(_)
Transform(e) ==
    CASE e = Null -> Null
      [] e # Null /\ e[1] = "sym" -> e
      [] e # Null /\ e[1] \in Compares -> IF SymType[e[2]] = "bool" THEN OfBool(e) ELSE e
      [] e # Null /\ e[1] \in Chains -> <<e[1], Transform(e[2]), Transform(e[3])>>
      [] e # Null /\ e[1] = "not" ->
           LET f == Transform(e[2])
           IN CASE f[1] = "not" -> Transform(f[2])
                [] f[1] \in Compares -> <<Opposite(f[1]), f[2], f[3]>>
                [] f[1] = "or" -> Transform(<<"and", <<"not", f[2]>>, <<"not", f[3]>> >>)
                [] f[1] = "and" -> Transform(<<"or", <<"not", f[2]>>, <<"not", f[3]>> >>)
                [] f[1] = "sym" -> IF f[2] \in Consts THEN Flip(f[2]) ELSE <<"not", f>>

\* FOO != n -> FOO, for what is used of a bool only.
RECURSIVE TransBool(_)
TransBool(e) ==
    CASE e = Null -> Null
      [] e # Null /\ e[1] \in Chains -> <<e[1], TransBool(e[2]), TransBool(e[3])>>
      [] e # Null /\ e[1] = "not" -> <<"not", TransBool(e[2])>>
      [] e # Null /\ e[1] = "ne" ->
           IF SymType[e[2]] = "tristate" /\ e[3] = "n" THEN Sym(e[2]) ELSE e
      [] OTHER -> e

Negated(op, e) == IF op = "ne" THEN <<"not", e>> ELSE e

\* The expression e = s or e != s, for a constant s.
RECURSIVE TransCompare(_, _, _)
TransCompare(e, op, s) ==
    CASE e = Null -> Negated(op, Sym(s))
      [] e # Null /\ e[1] \in Chains ->
           LET l == TransCompare(e[2], "eq", s)
               r == TransCompare(e[3], "eq", s)
               other == IF e[1] = "and" THEN "or" ELSE "and"
           IN Negated(op, IF s = "y" THEN <<e[1], l, r>> ELSE IF s = "n" THEN <<other, l, r>> ELSE e)
      [] e # Null /\ e[1] = "not" -> TransCompare(e[2], Opposite(op), s)
      [] e # Null /\ e[1] \in Compares ->
           IF s = "m" THEN (IF op = "eq" THEN N ELSE Y)
           ELSE IF (s = "y") = (op = "eq") THEN e ELSE <<"not", e>>
      [] e # Null /\ e[1] = "sym" -> <<op, e[2], s>>
-----------------------------------------------------------------------------
(* expr_eliminate_dups: [e, hit], hit when something was joined *)

\* An expression one of whose terms was gone through by itself.
Entered(r, slot, inner) == [e |-> Put(r.e, slot, inner.e), hit |-> r.hit \/ inner.hit]

PutJoined(type, r, slots, joined) ==
    IF joined = Null THEN r
    ELSE [e |-> Put(Put(r.e, slots[1], Neutral(type)), slots[2], joined), hit |-> TRUE]

JoinPair(type, r, slots) ==
    PutJoined(type, r, slots, Join(type, At(r.e, slots[1]), At(r.e, slots[2])))

Distinct(pairs) == SelectSeq(pairs, LAMBDA p : p[1] # p[2])

RECURSIVE Dups1(_)
Dups1(e) ==
    LET Step(r, slots) ==
            JoinPair(e[1],
                     IF At(r.e, slots[1])[1] \in Chains
                     THEN Entered(r, slots[1], Dups1(At(r.e, slots[1])))
                     ELSE r,
                     slots)
    IN FoldLeft(Step, [e |-> e, hit |-> FALSE],
                Distinct(Pairs(Terms(e, e[1], << >>), Terms(e, e[1], << >>))))

\* (a || b) && (!a && !b) -> n, (a && b) || (!a || !b) -> y
DropOpposed(type, r, slots, of) ==
    IF ExtractEq(type, Transform(<<"not", At(r.e, slots[1])>>), At(r.e, slots[2]))[2] = Neutral(type)
    THEN [e |-> Put(r.e, slots[1], Neutral(of)), hit |-> TRUE]
    ELSE r

RECURSIVE Dups2(_)
Dups2(e) ==
    LET Step(r, slots) ==
            IF At(r.e, slots[1])[1] \notin Chains THEN r
            ELSE DropOpposed(e[1], Entered(r, slots[1], Dups2(At(r.e, slots[1]))), slots,
                             At(r.e, slots[1])[1])
    IN FoldLeft(Step, [e |-> e, hit |-> FALSE],
                Distinct(Pairs(Terms(e, e[1], << >>), Nodes(e, e[1], << >>))))

BothDups(r) == Entered(r, << >>, Dups2(r.e))

RECURSIVE EliminateDups(_)
UntilNone(r) == IF r.hit THEN EliminateDups(EliminateYn(r.e)) ELSE r.e

EliminateDups(e) ==
    IF e = Null \/ e[1] \notin Chains THEN e ELSE UntilNone(BothDups(Dups1(e)))

-----------------------------------------------------------------------------
(* expr_contains_symbol, expr_depends_symbol *)

RECURSIVE ContainsSymbol(_, _)
ContainsSymbol(e, s) ==
    CASE e = Null -> FALSE
      [] e # Null /\ e[1] \in Chains -> ContainsSymbol(e[2], s) \/ ContainsSymbol(e[3], s)
      [] e # Null /\ e[1] = "not" -> ContainsSymbol(e[2], s)
      [] e # Null /\ e[1] = "sym" -> e[2] = s
      [] e # Null /\ e[1] \in Compares -> s \in {e[2], e[3]}

\* The expression is n wherever the symbol is.
RECURSIVE DependsSymbol(_, _)
DependsSymbol(e, s) ==
    /\ e # Null
    /\ \/ e[1] = "and" /\ (DependsSymbol(e[2], s) \/ DependsSymbol(e[3], s))
       \/ e \in {Sym(s), <<"eq", s, "y">>, <<"eq", s, "m">>, <<"ne", s, "n">>}

-----------------------------------------------------------------------------
(* What an expression is for given values of its symbols, 0 for n, 1 for m  *)
(* and 2 for y; text is what is compared (expr_calc_value, expr.h).         *)

Lesser(a, b) == IF a < b THEN a ELSE b
Greater(a, b) == IF a > b THEN a ELSE b

Tristate == [c \in Consts |-> IF c = "n" THEN 0 ELSE IF c = "m" THEN 1 ELSE 2]

RECURSIVE Value(_, _, _)
Value(e, tri, text) ==
    CASE e = Null -> 2
      [] e # Null /\ e[1] = "sym" -> tri[e[2]]
      [] e # Null /\ e[1] = "and" -> Lesser(Value(e[2], tri, text), Value(e[3], tri, text))
      [] e # Null /\ e[1] = "or" -> Greater(Value(e[2], tri, text), Value(e[3], tri, text))
      [] e # Null /\ e[1] = "not" -> 2 - Value(e[2], tri, text)
      [] e # Null /\ e[1] \in Compares -> IF (text[e[2]] = text[e[3]]) = (e[1] = "eq") THEN 2 ELSE 0
=============================================================================
