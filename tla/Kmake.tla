-------------------------------- MODULE Kmake --------------------------------
(***************************************************************************)
(* make after a change of the configuration: the top Makefile starts conf  *)
(* where .config is newer than include/autoconf.h, split-include writes a  *)
(* file for every option whose line changed, and an object is compiled     *)
(* again where a file of an option that fixdep found in its sources is     *)
(* newer than it.  Times are kept as what make compares: which file is     *)
(* newer than which.  Anything make runs may be interrupted.               *)
(*                                                                         *)
(* Of the configurators only the files are seen here, and where main is:   *)
(* they may write whatever lines they want.  Kbuild puts conf and          *)
(* menuconfig in their place.                                              *)
(***************************************************************************)
EXTENDS Kfiles, Integers, Sequences

CONSTANTS Objects,
          Sources,     \* Sources[o]: what its sources may mention, as sets of
                       \* <<prefix, option>>: CONFIG_X is <<"CONFIG", X>>
          FlagSym,     \* the option Makefile.flags looks at
          MaxStops     \* how often something is interrupted

VARIABLES make,        \* where make is
          configured,  \* conf ran in this make
          newer,       \* .config, Kconfig or a source is newer than autoconf.h
          unsplit,     \* autoconf.h is newer than include/config/MARKER
          split,       \* include/config: the line kept for an option
          flags,       \* what this make read of .config for Makefile.flags
          uses,        \* uses[o]: what its sources mention
          changed,     \* the objects with a source newer than they
          deps,        \* deps[o]: the options in its .cmd file
          dirty,       \* dirty[o]: options whose file is newer than it
          built,       \* built[o]: what it was compiled with, NotBuilt
          torn,        \* conf was killed between its renames
          stops

confFiles == <<phase, saved, header>>
bvars == <<make, configured, newer, unsplit, split, flags, uses, changed, deps, dirty, built, torn, stops>>
makeVars == <<confFiles, bvars>>

\* Every object has sources.
ASSUME SourcesAssumption == \A o \in Objects : Sources[o] # {}

\* Lines <<option, text>>.
IsFile(lines) == lines \in Seq(STRING \X STRING) \/ lines = NoFile

NotBuilt == [saw |-> << >>, flags |-> "not built"]
Tracked == {id[2] : id \in UNION UNION {Sources[o] : o \in Objects}}

\* What a file says of an option; the line of one that is m names another.
Text(lines, x) ==
    IF \E i \in DOMAIN lines : lines[i][1] = x /\ lines[i][2] # "m"
    THEN lines[CHOOSE i \in DOMAIN lines : lines[i][1] = x][2]
    ELSE ""

\* The compiler sees an option through any of the macros conf_write defines.
Macros == {"CONFIG", "ENABLE", "IF", "IF_NOT"}

Options(o) == {id[2] : id \in {id \in uses[o] : id[1] \in Macros}}
Sees(o) == [x \in Options(o) |-> Text(header, x)]

\* Mutant: only CONFIG_X counts as a use of X, as in Linux.
FoundConfig(ids) == {id[2] : id \in {id \in ids : id[1] = "CONFIG"}}

\* fixdep: the options it finds in the text of the sources; a longer name that
\* only ends like one of these is stepped over as a whole.
Found(ids) == {id[2] : id \in {id \in ids : id[1] \in {"CONFIG", "ENABLE", "IF", "IF_NOT"}}}

\* What the compiler listed as read for an object, and what each of these
\* mentions: the header it sees the options in names every one of them.
Listed(o) == [file \in {"sources", "include/autoconf.h"} |->
                IF file = "sources" THEN uses[o] ELSE {<<"CONFIG", header[i][1]>> : i \in DOMAIN header}]

\* Not of the header, or every object would depend on every option.
ParseDepFile(listed) == UNION {Found(listed[file]) : file \in DOMAIN listed \ {"include/autoconf.h"}}

Running == make \in {"conf", "split", "build"}

-----------------------------------------------------------------------------
(* The configurators *)

\* What becomes of make, which waits for silentoldconfig, and of the times.
ConfTimes ==
    /\ unsplit' = (unsplit \/ phase = "write")
    /\ newer' = (newer /\ phase # "renaming")
    /\ torn' = (torn /\ phase # "renaming")
    /\ make' = IF make # "conf" THEN make
               ELSE IF phase' = "written" THEN "split"
               ELSE IF phase' = "aborted" THEN "none" ELSE make
    /\ UNCHANGED <<configured, split, flags, uses, changed, deps, dirty, built, stops>>

\* It asks, and writes the header before .config.
ConfGoesOn ==
    /\ \/ /\ phase = "ask" /\ phase' \in {"ask", "write", "aborted"}
          /\ UNCHANGED <<saved, header>>
       \/ /\ phase = "write" /\ phase' = "renaming"
          /\ IsFile(header') /\ UNCHANGED saved
       \/ /\ phase = "renaming" /\ phase' = "written"
          /\ saved' = header /\ UNCHANGED header
    /\ ConfTimes

\* Started by hand, not by make.
StartedAlone ==
    /\ ~ Running
    /\ make' = "none"
    /\ UNCHANGED <<configured, newer, unsplit, split, flags, uses, changed, deps, dirty, built, torn, stops>>

ConfStarts ==
    /\ ~ Busy
    /\ phase' = "ask" /\ UNCHANGED <<saved, header>>
    /\ StartedAlone

\* .config alone is written where menuconfig saves a file in between.
MenuTimes ==
    /\ ~ Running
    /\ newer' = (newer \/ saved' # saved)
    /\ make' = "none"
    /\ UNCHANGED <<configured, unsplit, split, flags, uses, changed, deps, dirty, built, torn, stops>>

MenuGoesOn ==
    /\ phase = "ask" /\ phase' \in {"ask", "write", "aborted"}
    /\ IsFile(saved') /\ UNCHANGED header
    /\ MenuTimes

KillTimes ==
    /\ stops < MaxStops
    /\ torn' = TRUE
    /\ newer' = (saved' = NoFile)
    /\ make' = "none"
    /\ stops' = stops + 1
    /\ UNCHANGED <<configured, unsplit, split, flags, uses, changed, deps, dirty, built>>

\* Between the first rename and the last.
Killed ==
    /\ phase = "renaming" /\ phase' = "aborted"
    /\ saved' \in {saved, NoFile} /\ UNCHANGED header
    /\ KillTimes

\* A second later than conf wrote the header, as all but "make config" wait
\* and whoever answers that takes: the file is newer for make as well.
EditTimes ==
    /\ ~ Running
    /\ newer' = TRUE
    /\ make' = "none"
    /\ UNCHANGED <<configured, unsplit, split, flags, uses, changed, deps, dirty, built, torn, stops>>

ConfigEdited ==
    /\ ~ Busy /\ phase' = "edited"
    /\ IsFile(saved') /\ UNCHANGED header
    /\ EditTimes

EditSource(o, ids) ==
    /\ ~ Running /\ ~ Busy
    /\ ids # uses[o]
    /\ uses' = [uses EXCEPT ![o] = ids]
    /\ changed' = changed \cup {o}
    /\ newer' = TRUE
    /\ make' = "none"
    /\ UNCHANGED <<confFiles, configured, unsplit, split, flags, deps, dirty, built, torn, stops>>

-----------------------------------------------------------------------------
(* make *)

\* .config is read when the Makefile is; only then is it seen whether it, a
\* Kconfig file or a source was changed since autoconf.h was written.
MakeReads ==
    /\ ~ Running /\ ~ Busy /\ phase # "idle"
    /\ flags' = Text(saved, FlagSym)
    /\ UNCHANGED <<newer, unsplit, split, uses, changed, deps, dirty, built, torn, stops>>

\* With conf to be run first or not.
Configures == make' = "conf" /\ configured' = TRUE
Configured == make' = "split" /\ configured' = FALSE

MakeStarts ==
    /\ MakeReads
    /\ \/ phase' = "ask" /\ UNCHANGED <<saved, header>> /\ Configures
       \/ ~ newer /\ UNCHANGED confFiles /\ Configured

\* Mutant: an option that is no longer in the header keeps its file.
NoneGone(told, n) == {}

\* The options whose file is emptied after all lines.
Gone(told, n) == IF n < Len(header) THEN {} ELSE Tracked \ told

\* split-include: the first n lines of the header, then the options that are
\* not in it; each file only where its line is another one.  MARKER follows.
Split(n) ==
    /\ make = "split" /\ unsplit
    /\ LET done == SubSeq(header, 1, n)
           told == {x \in Tracked : Text(done, x) # ""}
           write == {x \in told \cup Gone(told, n) : split[x] # Text(done, x)}
       IN /\ split' = [x \in Tracked |-> IF x \in write THEN Text(done, x) ELSE split[x]]
          /\ dirty' = [o \in Objects |-> dirty[o] \cup write]
    /\ \/ /\ n = Len(header)
          /\ unsplit' = FALSE /\ make' = "build"
          /\ UNCHANGED stops
       \/ /\ stops < MaxStops /\ stops' = stops + 1
          /\ make' = "none"
          /\ UNCHANGED unsplit
    /\ UNCHANGED <<confFiles, configured, newer, flags, uses, changed, deps, built, torn>>

NothingToSplit ==
    /\ make = "split" /\ ~ unsplit
    /\ make' = "build"
    /\ UNCHANGED <<confFiles, configured, newer, unsplit, split, flags, uses, changed, deps, dirty, built, torn, stops>>

\* if_changed_rule
Outdated(o) ==
    \/ built[o] = NotBuilt
    \/ o \in changed
    \/ deps[o] \cap dirty[o] # {}
    \/ built[o].flags # flags

\* The compiler reads the header, fixdep the sources; interrupted by a signal
\* that it catches, make takes the object away.  (If fixdep alone is killed, or
\* fails, the object stays with the .cmd file of the one before: left out.)
Compile(o) ==
    /\ make = "build" /\ Outdated(o)
    /\ \/ /\ built' = [built EXCEPT ![o] = [saw |-> Sees(o), flags |-> flags]]
          /\ deps' = [deps EXCEPT ![o] = ParseDepFile(Listed(o))]
          /\ dirty' = [dirty EXCEPT ![o] = {}]
          /\ changed' = changed \ {o}
          /\ UNCHANGED <<make, stops>>
       \/ /\ stops < MaxStops /\ stops' = stops + 1
          /\ built' = [built EXCEPT ![o] = NotBuilt]
          /\ make' = "none"
          /\ UNCHANGED <<deps, dirty, changed>>
    /\ UNCHANGED <<confFiles, configured, newer, unsplit, split, flags, uses, torn>>

MakeEnds ==
    /\ make = "build"
    /\ \A o \in Objects : ~ Outdated(o)
    /\ make' = "done"
    /\ UNCHANGED <<confFiles, configured, newer, unsplit, split, flags, uses, changed, deps, dirty, built, torn, stops>>

-----------------------------------------------------------------------------
\* Nothing is made yet.
FreshTree ==
    /\ make = "none" /\ configured = FALSE
    /\ newer = TRUE /\ unsplit = TRUE /\ torn = FALSE
    /\ split = [x \in Tracked |-> ""]
    /\ flags = ""
    /\ uses = [o \in Objects |-> CHOOSE ids \in Sources[o] : TRUE]
    /\ changed = {}
    /\ deps = [o \in Objects |-> {}]
    /\ dirty = [o \in Objects |-> {}]
    /\ built = [o \in Objects |-> NotBuilt]
    /\ stops = 0

MakeInit == phase = "idle" /\ saved = NoFile /\ header = NoFile /\ FreshTree

MakeNext ==
    \/ ConfGoesOn \/ ConfStarts \/ MenuGoesOn \/ Killed \/ ConfigEdited
    \/ \E o \in Objects : \E ids \in Sources[o] : EditSource(o, ids)
    \/ MakeStarts
    \/ \E n \in 0..Len(header) : Split(n)
    \/ NothingToSplit
    \/ \E o \in Objects : Compile(o)
    \/ MakeEnds

MakeSpec == MakeInit /\ [][MakeNext]_makeVars

-----------------------------------------------------------------------------
(* What is promised *)

\* When make is done, every object is as if it had been compiled just now: it
\* saw what the header now says of the options its sources mention, with the
\* flags make read, and waits for those options alone; the header says what
\* .config says unless conf was killed in between; and the flags are those of
\* .config unless conf ran meanwhile.
UpToDate ==
    make = "done" =>
        /\ \A o \in Objects : built[o] = [saw |-> Sees(o), flags |-> flags] /\ deps[o] = Options(o)
        /\ header = saved \/ torn
        /\ flags = Text(saved, FlagSym) \/ configured

-----------------------------------------------------------------------------
(* The inductive invariant *)

\* Every variable keeps its type.
Shape ==
    /\ phase \in {"idle", "ask", "write", "renaming", "written", "aborted", "edited"}
    /\ IsFile(saved) /\ IsFile(header)
    /\ make \in {"none", "conf", "split", "build", "done"}
    /\ {configured, newer, unsplit, torn} \subseteq BOOLEAN
    /\ split = [x \in Tracked |-> split[x]]
    /\ uses = [o \in Objects |-> uses[o]] /\ \A o \in Objects : uses[o] \in Sources[o]
    /\ changed \subseteq Objects
    /\ {deps, dirty} \subseteq [Objects -> SUBSET Tracked]
    /\ built = [o \in Objects |-> built[o]]

\* conf runs where make waits for it, and nowhere else while make runs.
TakesTurns ==
    /\ make = "conf" => Busy /\ configured
    /\ make \in {"split", "build", "done"} => ~ Busy

\* include/config says what the header says, except where MARKER is older.
SplitDone ==
    /\ make \in {"build", "done"} => ~ unsplit
    /\ ~ unsplit => \A x \in Tracked : split[x] = Text(header, x)

\* What an object was compiled with is what include/config says, except where
\* the file of an option is newer than the object.
Remembered(o) ==
    /\ deps[o] = Options(o)
    /\ built[o] = [saw |-> [x \in Options(o) |-> built[o].saw[x]], flags |-> built[o].flags]
    /\ \A x \in Options(o) : built[o].saw[x] = split[x] \/ x \in dirty[o]

ObjectsKnown ==
    /\ \A o \in Objects \ changed : built[o] # NotBuilt => Remembered(o)
    /\ make = "done" => \A o \in Objects : ~ Outdated(o)

\* What make read is what .config says, unless conf ran; and the header is not
\* another configuration's, except where make will see it or conf was killed.
ConfigKnown ==
    /\ ~ newer /\ phase # "renaming" => header = saved \/ torn
    /\ make \in {"split", "build", "done"} =>
         /\ header = saved \/ torn
         /\ flags = Text(saved, FlagSym) \/ configured

MakeInv == Shape /\ TakesTurns /\ SplitDone /\ ObjectsKnown /\ ConfigKnown
=============================================================================
