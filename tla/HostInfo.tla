------------------------------ MODULE HostInfo ------------------------------
(***************************************************************************)
(* What a device finds out about itself: on Linux the name of the machine  *)
(* (DeviceInfo) and then of its CPU (LinuxCpu), on DOS of the CPU          *)
(* (DosCpu), on Mac OS X of the system (OsxInfo).  The functions share     *)
(* nothing but the fields of PLAT_Info they fill in, each its own, so each *)
(* is run by itself: at "idle" there is only the search of DeviceInfo, and *)
(* otherwise that has already ended.                                       *)
(***************************************************************************)
EXTENDS DeviceInfo, Sequences

CONSTANTS
    CpuLines, MaxLines, Compats,    \* of LinuxCpu
    Macs, NameSize                  \* of OsxInfo

VARIABLES host, at, pos, got

hvars == <<host, at, pos, got>>

Linux == INSTANCE LinuxCpu
Dos == INSTANCE DosCpu
Osx == INSTANCE OsxInfo

CpuLine == [key : Seq(STRING), colon : BOOLEAN, value : Seq(STRING)]

ASSUME HostInfoAssumption ==
    /\ CpuLines \in [{"x86", "ppc", "arm"} -> SUBSET CpuLine]
    /\ MaxLines \in Nat
    /\ Compats \subseteq Seq(STRING)
    /\ Macs \subseteq [plat : {"osx"}, file : Seq(STRING), cpu : Osx!Cpus]
    /\ NameSize \in Nat \ {0}

\* The name of the machine is known already.
DeviceKnown ==
    /\ sysVendor = "model" /\ files = [i \in 1..NPaths |-> "model"]
    /\ pc = "done" /\ idx = 1 /\ hasVendor = TRUE /\ model = 1

HInit ==
    \/ Init /\ host = [plat |-> "dmi"] /\ at = "idle" /\ pos = 0 /\ got = << >>
    \/ DeviceKnown /\ (Linux!Init \/ Dos!Init \/ Osx!Init)

HEnd == pc \in {"done", "astray"} /\ at \in {"idle", "returned", "failed", "astray"}

HRest == HEnd /\ UNCHANGED <<vars, hvars>>

HNext ==
    \/ Next /\ UNCHANGED hvars
    \/ host.plat = "linux" /\ Linux!Next /\ UNCHANGED vars
    \/ host.plat = "dos" /\ Dos!Next /\ UNCHANGED vars
    \/ host.plat = "osx" /\ Osx!Next /\ UNCHANGED vars
    \/ HRest

HSpec == HInit /\ [][HNext]_<<vars, hvars>>

\* One thread; the files can be read without waiting.
HFairSpec == HSpec /\ WF_<<vars, hvars>>(HNext)

\* The same without ENABLED, to be reasoned from: wherever the host is not at
\* its end there is a step to take (the run has no deadlock), and it changes
\* something (the proofs show what).
HLiveSpec == HSpec /\ ([]<>HEnd \/ []<><<HNext>>_<<vars, hvars>>)
-----------------------------------------------------------------------------
(* Properties *)

\* Whatever the files of a host say, and in whatever order, what is gathered is
\* what the host says, with the exceptions that the three properties name: the
\* CPU's name on Linux and on DOS, the system's and the CPU's on Mac OS X.
\*
\* Linux: an earlier line with a longer key is taken for the one asked for, a
\* Cortex-A5 may have the name of an A53 or A57, an A7 that of an A78, and an
\* empty file may count as read; DOS: an AMD K6-2 has the name of a K5, and from
\* family 6 on whoever is not AMD is Intel; Mac OS X: a file with a <string>
\* that is not closed or too long, and one whose version has no <string>.
NamesTrue ==
    CASE host.plat = "linux" -> Linux!LinuxNamed
      [] host.plat = "dos" -> Dos!DosNamed
      [] host.plat = "osx" -> Osx!PlistRead
      [] OTHER -> TRUE

\* No file, however it is cut up into lines, keeps a host from starting: the
\* loops of cpuinfoFindLine and of the parsers all come to their end.
GatherEnds == <>(at \in {"idle", "returned", "failed", "astray"})

-----------------------------------------------------------------------------
(* The inductive invariant *)

HInv ==
    /\ IInv
    /\ host.plat \in {"dmi", "linux", "dos", "osx"}
    /\ host.plat = "linux" => Linux!IInv
    /\ host.plat = "dos" => Dos!IInv
    /\ host.plat = "osx" => Osx!IInv
=============================================================================
