----------------------------- MODULE KmakeProofs -----------------------------
(***************************************************************************)
(* Proofs about Kmake, for any objects, any sources and any configuration  *)
(* that a configurator may write, however often anything is interrupted.   *)
(*                                                                         *)
(* The inductive invariant MakeInv relates what make compares to what it   *)
(* should know: include/config to the header, and an object to             *)
(* include/config.                                                         *)
(***************************************************************************)
EXTENDS Kmake, SequenceTheorems, TLAPS

-----------------------------------------------------------------------------
(* What the operators give *)

LEMMA OptionsTracked ==
    ASSUME NEW o \in Objects, uses[o] \in Sources[o]
    PROVE  Options(o) \subseteq Tracked
BY DEF Options, Tracked

\* fixdep finds what the compiler sees.
LEMMA ParsesOptions ==
    ASSUME NEW o \in Objects
    PROVE  ParseDepFile(Listed(o)) = Options(o)
<1>1. DOMAIN Listed(o) \ {"include/autoconf.h"} = {"sources"}
  BY DEF Listed
<1>2. Listed(o)["sources"] = uses[o]
  BY DEF Listed
<1>3. ParseDepFile(Listed(o)) = Found(uses[o])
  BY <1>1, <1>2 DEF ParseDepFile
<1> QED BY <1>3 DEF Found, Options, Macros

LEMMA WholeFile ==
    ASSUME NEW lines, IsFile(lines)
    PROVE  Len(lines) \in Nat /\ SubSeq(lines, 1, Len(lines)) = lines
<1>1. PICK S : lines \in Seq(S)
  <2>1. CASE lines \in Seq(STRING \X STRING)
    BY <2>1
  <2>2. CASE lines = NoFile
    <3>1. lines \in Seq({<<"no", "file">>})
      BY <2>2 DEF NoFile
    <3> QED BY <3>1
  <2> QED BY <2>1, <2>2 DEF IsFile
<1>2. Len(lines) \in Nat
  BY <1>1, LenProperties
<1> DEFINE whole == SubSeq(lines, 1, Len(lines))
<1>3. whole \in Seq(S) /\ Len(whole) = Len(lines) /\ \A i \in 1..Len(lines) : whole[i] = lines[i]
  <2>1. /\ whole \in Seq(S)
        /\ Len(whole) = IF 1 <= Len(lines) THEN Len(lines) - 1 + 1 ELSE 0
        /\ \A i \in 1..(Len(lines) - 1 + 1) : whole[i] = lines[1 + i - 1]
    BY <1>1, <1>2, SubSeqProperties
  <2> HIDE DEF whole
  <2> QED BY <1>2, <2>1
<1> HIDE DEF whole
<1>4. whole = lines
  BY <1>1, <1>2, <1>3, SeqEqual
<1> QED BY <1>2, <1>4 DEF whole

-----------------------------------------------------------------------------
(* The steps *)

LEMMA MakeInitInv ==
    ASSUME MakeInit
    PROVE  MakeInv
<1> USE DEF MakeInit, FreshTree
<1>1. Shape
  <2>1. uses = [o \in Objects |-> uses[o]] /\ \A o \in Objects : uses[o] \in Sources[o]
    <3>1. ASSUME NEW o \in Objects PROVE (CHOOSE ids \in Sources[o] : TRUE) \in Sources[o]
      <4>1. PICK ids : ids \in Sources[o]
        BY SourcesAssumption
      <4> QED BY <4>1
    <3>2. uses = [o \in Objects |-> CHOOSE ids \in Sources[o] : TRUE]
      OBVIOUS
    <3>3. \A o \in Objects : uses[o] = CHOOSE ids \in Sources[o] : TRUE
      BY <3>2, Zenon
    <3>4. uses = [o \in Objects |-> uses[o]]
      BY <3>2, Zenon
    <3> HIDE DEF MakeInit, FreshTree
    <3> QED BY <3>1, <3>3, <3>4
  <2>2. {deps, dirty} \subseteq [Objects -> SUBSET Tracked]
    BY Zenon
  <2>3. split = [x \in Tracked |-> split[x]] /\ built = [o \in Objects |-> built[o]]
    BY Zenon
  <2> QED BY <2>1, <2>2, <2>3 DEF Shape, IsFile
<1>2. TakesTurns /\ SplitDone
  BY DEF TakesTurns, SplitDone
<1>3. ObjectsKnown /\ ConfigKnown
  <2>1. \A o \in Objects : built[o] = NotBuilt
    OBVIOUS
  <2> QED BY <2>1 DEF ObjectsKnown, ConfigKnown
<1> QED BY <1>1, <1>2, <1>3 DEF MakeInv

\* A step that changes neither the objects nor what they were compiled from.
LEMMA ObjectsKept ==
    ASSUME MakeInv, Shape', UNCHANGED <<split, uses, changed, deps, dirty, built>>,
           make' = "done" => make = "done" /\ UNCHANGED flags
    PROVE  ObjectsKnown'
<1>1. \A o \in Objects \ changed : Remembered(o)' = Remembered(o)
  BY DEF Remembered, Options
<1>2. make' = "done" => \A o \in Objects : Outdated(o)' = Outdated(o)
  BY DEF Outdated
<1> QED BY <1>1, <1>2 DEF MakeInv, ObjectsKnown

LEMMA ConfGoesOnInv ==
    ASSUME MakeInv, ConfGoesOn
    PROVE  MakeInv'
<1> USE DEF MakeInv, ConfGoesOn, ConfTimes
<1>1. Shape'
  BY DEF Shape, IsFile
<1>2. make # "conf" => make = "none"
  BY DEF Shape, TakesTurns, Busy
<1>3. TakesTurns'
  BY <1>2 DEF TakesTurns, Busy
<1>4. SplitDone'
  BY <1>2 DEF SplitDone
<1>5. ObjectsKnown'
  BY <1>1, <1>2, ObjectsKept
<1>6. ConfigKnown'
  BY <1>2, <1>1 DEF ConfigKnown, TakesTurns, Shape
<1> QED BY <1>1, <1>3, <1>4, <1>5, <1>6

\* Whatever is started or written by hand makes make begin anew.
LEMMA ByHandInv ==
    ASSUME MakeInv, ConfStarts \/ MenuGoesOn \/ Killed \/ ConfigEdited
    PROVE  MakeInv'
<1> USE DEF MakeInv, ConfStarts, MenuGoesOn, Killed, ConfigEdited, StartedAlone, MenuTimes, KillTimes, EditTimes
<1>1. /\ make' = "none" /\ UNCHANGED <<header, unsplit, split, uses, changed, deps, dirty, built, configured>>
      /\ IsFile(saved') /\ phase' \in {"ask", "write", "aborted", "edited"}
      /\ newer' \in BOOLEAN /\ torn' \in BOOLEAN
  BY DEF Shape, IsFile
<1>2. Shape'
  BY <1>1 DEF Shape, IsFile
<1>3. TakesTurns' /\ SplitDone'
  BY <1>1 DEF TakesTurns, SplitDone, Busy
<1>4. ObjectsKnown'
  BY <1>1, <1>2, ObjectsKept
<1>5. ConfigKnown'
  BY <1>1 DEF ConfigKnown, Shape, Busy
<1> QED BY <1>2, <1>3, <1>4, <1>5

LEMMA EditSourceInv ==
    ASSUME MakeInv, NEW o \in Objects, NEW ids \in Sources[o], EditSource(o, ids)
    PROVE  MakeInv'
<1> USE DEF MakeInv, EditSource, confFiles
<1>1. Shape'
  <2>1. uses' = [p \in Objects |-> uses'[p]] /\ \A p \in Objects : uses'[p] \in Sources[p]
    BY DEF Shape
  <2>2. changed' \subseteq Objects
    BY DEF Shape
  <2> QED BY <2>1, <2>2 DEF Shape, IsFile
<1>2. TakesTurns' /\ SplitDone' /\ ConfigKnown'
  BY DEF TakesTurns, SplitDone, ConfigKnown, Busy
<1>3. ObjectsKnown'
  <2> SUFFICES ASSUME NEW p \in Objects \ changed', built'[p] # NotBuilt
               PROVE  Remembered(p)'
    BY DEF ObjectsKnown
  <2>1. Remembered(p) /\ uses'[p] = uses[p]
    BY DEF ObjectsKnown, Shape
  <2> QED BY <2>1 DEF Remembered, Options
<1> QED BY <1>1, <1>2, <1>3

LEMMA MakeStartsInv ==
    ASSUME MakeInv, MakeStarts
    PROVE  MakeInv'
<1> USE DEF MakeInv, MakeStarts, MakeReads, Configures, Configured, confFiles
<1>1. Shape'
  BY DEF Shape, IsFile
<1>2. TakesTurns' /\ SplitDone'
  BY DEF TakesTurns, SplitDone, Busy
<1>3. ObjectsKnown'
  BY <1>1, ObjectsKept
<1>4. ConfigKnown'
  BY DEF ConfigKnown, Busy, Shape
<1> QED BY <1>1, <1>2, <1>3, <1>4

LEMMA SplitInv ==
    ASSUME MakeInv, NEW n \in 0..Len(header), Split(n)
    PROVE  MakeInv'
<1> USE DEF MakeInv
<1> DEFINE done == SubSeq(header, 1, n)
           told == {x \in Tracked : Text(done, x) # ""}
           write == {x \in told \cup Gone(told, n) : split[x] # Text(done, x)}
<1>1. /\ make = "split" /\ unsplit
      /\ split' = [x \in Tracked |-> IF x \in write THEN Text(done, x) ELSE split[x]]
      /\ dirty' = [o \in Objects |-> dirty[o] \cup write]
      /\ \/ n = Len(header) /\ unsplit' = FALSE /\ make' = "build"
         \/ make' = "none" /\ UNCHANGED unsplit
      /\ UNCHANGED <<confFiles, configured, newer, flags, uses, changed, deps, built, torn>>
  BY DEF Split
<1>2. write \subseteq Tracked
  BY DEF Gone
<1>3. n = Len(header) => \A x \in Tracked : split'[x] = Text(header, x)
  <2> SUFFICES ASSUME n = Len(header), NEW x \in Tracked
               PROVE  split'[x] = Text(header, x)
    OBVIOUS
  <2>1. done = header /\ Len(header) \in Nat
    BY WholeFile DEF Shape
  <2> HIDE DEF done
  <2>2. Gone(told, n) = Tracked \ told
    <3> HIDE DEF told
    <3> QED BY <2>1 DEF Gone
  <2>3. x \in write \/ split[x] = Text(done, x)
    BY <2>2
  <2> HIDE DEF write
  <2> QED BY <1>1, <2>1, <2>3
<1> HIDE DEF write
<1>4. Shape'
  <2>1. dirty' \in [Objects -> SUBSET Tracked]
    BY <1>1, <1>2 DEF Shape
  <2>2. split' = [x \in Tracked |-> split'[x]]
    BY <1>1
  <2> QED BY <1>1, <2>1, <2>2 DEF Shape, IsFile, confFiles
<1>5. TakesTurns'
  BY <1>1 DEF TakesTurns, Busy, confFiles
<1>6. SplitDone'
  BY <1>1, <1>3 DEF SplitDone, confFiles
<1>7. ObjectsKnown'
  <2>1. make' # "done"
    BY <1>1
  <2>2. ASSUME NEW o \in Objects \ changed', built'[o] # NotBuilt
        PROVE  Remembered(o)'
    <3>1. Remembered(o) /\ uses[o] \in Sources[o] /\ built' = built /\ deps' = deps /\ uses' = uses
      BY <1>1, <2>2 DEF ObjectsKnown, Shape
    <3>2. Options(o)' = Options(o) /\ Options(o) \subseteq Tracked
      BY <3>1, OptionsTracked DEF Options
    <3>3. ASSUME NEW x \in Options(o)
          PROVE  built[o].saw[x] = split'[x] \/ x \in dirty'[o]
      <4>1. dirty'[o] = dirty[o] \cup write /\ (x \in write \/ split'[x] = split[x])
        BY <1>1, <3>2
      <4> QED BY <3>1, <4>1 DEF Remembered
    <3> QED BY <3>1, <3>2, <3>3 DEF Remembered
  <2> QED BY <2>1, <2>2 DEF ObjectsKnown
<1>8. ConfigKnown'
  BY <1>1 DEF ConfigKnown, confFiles
<1> QED BY <1>4, <1>5, <1>6, <1>7, <1>8

LEMMA CompileInv ==
    ASSUME MakeInv, NEW o \in Objects, Compile(o)
    PROVE  MakeInv'
<1> USE DEF MakeInv
<1>1. /\ make = "build" /\ make' \in {"build", "none"}
      /\ UNCHANGED <<confFiles, configured, newer, unsplit, split, flags, uses, torn>>
  BY DEF Compile
<1>2. TakesTurns' /\ SplitDone' /\ ConfigKnown'
  BY <1>1 DEF TakesTurns, SplitDone, ConfigKnown, Busy, confFiles
<1>3. CASE /\ built' = [built EXCEPT ![o] = [saw |-> Sees(o), flags |-> flags]]
           /\ deps' = [deps EXCEPT ![o] = ParseDepFile(Listed(o))]
           /\ dirty' = [dirty EXCEPT ![o] = {}]
           /\ changed' = changed \ {o}
           /\ make' = make
  <2>1. deps' = [deps EXCEPT ![o] = Options(o)] /\ Options(o) \subseteq Tracked
    BY <1>3, ParsesOptions, OptionsTracked DEF Shape
  <2>2. Shape'
    <3>1. {deps', dirty'} \subseteq [Objects -> SUBSET Tracked]
      BY <1>3, <2>1 DEF Shape
    <3>2. built' = [p \in Objects |-> built'[p]]
      BY <1>3 DEF Shape
    <3> QED BY <1>1, <1>3, <3>1, <3>2 DEF Shape, IsFile, confFiles
  <2>3. ASSUME NEW p \in Objects \ changed', built'[p] # NotBuilt
        PROVE  Remembered(p)'
    <3>1. Options(p)' = Options(p)
      BY <1>1 DEF Options
    <3>2. CASE p = o
      <4>1. built'[o] = [saw |-> Sees(o), flags |-> flags] /\ deps'[o] = Options(o)
        BY <1>3, <2>1 DEF Shape
      <4>2. ASSUME NEW x \in Options(o) PROVE built'[o].saw[x] = split'[x]
        <5>1. built'[o].saw[x] = Text(header, x)
          BY <4>1 DEF Sees
        <5>2. x \in Tracked /\ ~ unsplit
          BY <1>1, <2>1 DEF SplitDone
        <5> QED BY <1>1, <5>1, <5>2 DEF SplitDone
      <4>3. built'[o] = [saw |-> [x \in Options(o) |-> built'[o].saw[x]], flags |-> built'[o].flags]
        BY <4>1 DEF Sees
      <4> QED BY <3>1, <3>2, <4>1, <4>2, <4>3 DEF Remembered
    <3>3. CASE p # o
      <4>1. /\ p \in Objects \ changed
            /\ built'[p] = built[p] /\ deps'[p] = deps[p] /\ dirty'[p] = dirty[p]
        BY <1>3, <2>3, <3>3 DEF Shape
      <4>2. Remembered(p)
        BY <2>3, <4>1 DEF ObjectsKnown
      <4> QED BY <1>1, <3>1, <4>1, <4>2 DEF Remembered
    <3> QED BY <3>2, <3>3
  <2>4. ObjectsKnown'
    BY <1>1, <2>3 DEF ObjectsKnown
  <2> QED BY <1>2, <2>2, <2>4
<1>4. CASE /\ built' = [built EXCEPT ![o] = NotBuilt]
           /\ UNCHANGED <<deps, dirty, changed>>
  <2>1. Shape'
    <3>1. built' = [p \in Objects |-> built'[p]]
      BY <1>4 DEF Shape
    <3> QED BY <1>1, <1>4, <3>1 DEF Shape, IsFile, confFiles
  <2>2. ASSUME NEW p \in Objects \ changed', built'[p] # NotBuilt
        PROVE  Remembered(p)'
    <3>1. built'[p] = built[p]
      BY <1>4, <2>2 DEF Shape
    <3>2. Remembered(p)
      BY <1>4, <2>2, <3>1 DEF ObjectsKnown
    <3> QED BY <1>1, <1>4, <3>1, <3>2 DEF Remembered, Options
  <2>3. ObjectsKnown'
    BY <1>1, <2>2 DEF ObjectsKnown
  <2> QED BY <1>2, <2>1, <2>3
<1> QED BY <1>3, <1>4 DEF Compile

LEMMA TurnsInv ==
    ASSUME MakeInv, NothingToSplit \/ MakeEnds
    PROVE  MakeInv'
<1> USE DEF MakeInv, NothingToSplit, MakeEnds, confFiles
<1>1. Shape'
  BY DEF Shape, IsFile
<1>2. TakesTurns' /\ SplitDone' /\ ConfigKnown'
  BY DEF TakesTurns, SplitDone, ConfigKnown, Busy
<1>3. ObjectsKnown'
  <2>1. \A o \in Objects \ changed : Remembered(o)' = Remembered(o)
    BY DEF Remembered, Options
  <2>2. make' = "done" => \A o \in Objects : ~ Outdated(o)'
    BY DEF Outdated
  <2> QED BY <2>1, <2>2 DEF ObjectsKnown
<1> QED BY <1>1, <1>2, <1>3

LEMMA MakeStutters ==
    ASSUME MakeInv, UNCHANGED makeVars
    PROVE  MakeInv'
<1> USE DEF MakeInv, makeVars, confFiles, bvars
<1>1. Shape' /\ TakesTurns' /\ SplitDone' /\ ConfigKnown'
  BY DEF Shape, IsFile, TakesTurns, SplitDone, ConfigKnown, Busy
<1>2. ObjectsKnown'
  BY <1>1, ObjectsKept
<1> QED BY <1>1, <1>2

\* Every variable keeps its type, make and conf take turns, include/config
\* follows the header, and what an object was compiled with is remembered in
\* the times of the files of its options.
THEOREM MakeInvariant == MakeSpec => []MakeInv
<1>1. MakeInit => MakeInv
  BY MakeInitInv
<1>2. MakeInv /\ [MakeNext]_makeVars => MakeInv'
  <2> SUFFICES ASSUME MakeInv, [MakeNext]_makeVars PROVE MakeInv'
    OBVIOUS
  <2>1. CASE ConfGoesOn
    BY <2>1, ConfGoesOnInv
  <2>2. CASE ConfStarts \/ MenuGoesOn \/ Killed \/ ConfigEdited
    BY <2>2, ByHandInv
  <2>3. CASE \E o \in Objects : \E ids \in Sources[o] : EditSource(o, ids)
    BY <2>3, EditSourceInv
  <2>4. CASE MakeStarts
    BY <2>4, MakeStartsInv
  <2>5. CASE \E n \in 0..Len(header) : Split(n)
    BY <2>5, SplitInv
  <2>6. CASE NothingToSplit \/ MakeEnds
    BY <2>6, TurnsInv
  <2>7. CASE \E o \in Objects : Compile(o)
    BY <2>7, CompileInv
  <2>8. CASE UNCHANGED makeVars
    BY <2>8, MakeStutters
  <2> QED BY <2>1, <2>2, <2>3, <2>4, <2>5, <2>6, <2>7, <2>8 DEF MakeNext
<1> QED BY <1>1, <1>2, PTL DEF MakeSpec

\* Wherever conf, split-include, fixdep and make were interrupted, and whatever
\* was edited in between: when make says it is done, every object is what it
\* would be if it were compiled now.
THEOREM UpToDateCorrect == MakeSpec => []UpToDate
<1>1. MakeInv => UpToDate
  <2> SUFFICES ASSUME MakeInv, make = "done" PROVE UpToDate
    BY DEF UpToDate
  <2>1. ASSUME NEW o \in Objects
        PROVE  built[o] = [saw |-> Sees(o), flags |-> flags] /\ deps[o] = Options(o)
    <3>1. ~ Outdated(o)
      BY DEF MakeInv, ObjectsKnown
    <3>2. Remembered(o) /\ built[o].flags = flags /\ deps[o] \cap dirty[o] = {}
      BY <3>1 DEF MakeInv, ObjectsKnown, Outdated
    <3>3. ASSUME NEW x \in Options(o) PROVE built[o].saw[x] = Text(header, x)
      <4>1. x \in Tracked
        BY OptionsTracked DEF MakeInv, Shape
      <4>2. built[o].saw[x] = split[x]
        BY <3>2 DEF Remembered
      <4> QED BY <4>1, <4>2 DEF MakeInv, SplitDone
    <3>4. Sees(o) = [x \in Options(o) |-> built[o].saw[x]]
      BY <3>3 DEF Sees
    <3> QED BY <3>2, <3>4 DEF Remembered
  <2>2. header = saved \/ torn
    BY DEF MakeInv, ConfigKnown
  <2>3. flags = Text(saved, FlagSym) \/ configured
    BY DEF MakeInv, ConfigKnown
  <2> QED BY <2>1, <2>2, <2>3 DEF UpToDate
<1> QED BY <1>1, MakeInvariant, PTL
=============================================================================
