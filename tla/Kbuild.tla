------------------------------- MODULE Kbuild -------------------------------
(***************************************************************************)
(* The configurators and make in one tree: what conf and menuconfig do     *)
(* (Kconf, Mconf) is what happens to the files that make compares (Kmake). *)
(* Times are kept where they change, make waits for the conf it starts.    *)
(***************************************************************************)
EXTENDS Mconf, Kmake

CONSTANT Buildable   \* the Kconfig files whose configurations are built

allvars == <<vars, bvars>>

-----------------------------------------------------------------------------
\* By hand, or as silentoldconfig by make, which waits for it.
Conf == Step /\ ConfTimes

\* menuconfig, until it writes.
Menuconfig ==
    \/ MenuStep /\ MenuTimes
    \/ (\E f \in Menued : MenuStart(f)) /\ StartedAlone

ConfKilled == Kill /\ KillTimes

ByHand(how, f) == Start(how, f) /\ StartedAlone

EditConfig(line) == Edit(line) /\ EditTimes

SourceEdited(o, ids) ==
    /\ st.f \in Buildable
    /\ EditSource(o, ids)
    /\ UNCHANGED vars

\* A Kconfig file that is another one is newer too.
MakeOf(f) ==
    /\ f \in Buildable
    /\ MakeReads
    /\ \/ (newer \/ f # st.f) /\ Start("silentoldconfig", f) /\ Configures
       \/ ~ newer /\ f = st.f /\ UNCHANGED vars /\ Configured

Made(step) == step /\ UNCHANGED vars

-----------------------------------------------------------------------------
BInit == Init /\ FreshTree

\* Steps that are taken without anybody wanting them.
Proceed ==
    \/ Conf
    \/ Made(Split(Len(header))) \/ Made(NothingToSplit)
    \/ \E o \in Objects : Made(Compile(o))
    \/ Made(MakeEnds)

BRest == ~ Busy /\ ~ Running /\ UNCHANGED allvars

BNext ==
    \/ Proceed
    \/ ConfKilled
    \/ Menuconfig
    \/ \E f \in DOMAIN Files : \E how \in Modes[f] : ByHand(how, f)
    \/ \E line \in Edits[st.f] : EditConfig(line)
    \/ \E o \in Objects : \E ids \in Sources[o] : SourceEdited(o, ids)
    \/ \E f \in DOMAIN Files : f \in Later[st.f] /\ MakeOf(f)
    \/ \E n \in 0..Len(header) : Made(Split(n))
    \/ BRest

BSpec == BInit /\ [][BNext]_allvars

\* The programs go on, and who is asked answers something they take; in a menu
\* there is nothing that has to be done.  There is
\* a step to take wherever something is busy (the run has no deadlock), so
\* this is weak fairness of Proceed without ENABLED, which TLC cannot afford.
BFairSpec == BSpec /\ ([]<>(AtMenu \/ (~ Busy /\ ~ Running)) \/ []<><<Proceed>>_allvars)

-----------------------------------------------------------------------------
(* What is promised *)

\* Of the files that make compares, conf and menuconfig write no other than
\* Kmake allows them: the header only to rename .config after it, .config
\* alone only where somebody saves or edits it, and neither under a make that
\* compiles.  So what is proved of Kmake is true of the whole.
ImplementsMake == MakeSpec

\* conf ends, in whichever order its questions come, as long as each is at last
\* given an answer that is taken, and so does make.  That holds of Kconfig files
\* in which no value of a choice has two entries below it: of these conf_choice
\* only visits the first, and main would start check_conf again for ever.
Ends == (Busy \/ Running) ~> (AtMenu \/ ~ (Busy \/ Running))
=============================================================================
