------------------------------- MODULE DosCpu -------------------------------
(***************************************************************************)
(* DOS_GatherCPUInfo (plat/dos/info_cpu.c): a 386 does not keep the AC     *)
(* flag, an early 486 has no CPUID and raises SIGILL, whose handler jumps  *)
(* back into the function; everything newer says what it is.               *)
(***************************************************************************)
EXTENDS Naturals, Sequences, SequencesExt

VARIABLES
    host,   \* the CPU: never changes
    at,     \* where the function is
    pos,    \* cpuModel, from 1
    got     \* cpu: PLAT_Info.cpu, handler: that of SIGILL

vars == <<host, at, pos, got>>

\* enum cpuModels
Models == <<"386", "486", "Pentium", "Pentium MMX", "Pentium Pro">>

\* Models that have CPUID, of any family and model number.
Hosts ==
    [plat : {"dos"}, ac : {TRUE}, cpuid : {TRUE}, family : 4..15, model : 0..15,
     vendor : {"GenuineIntel", "AuthenticAMD", "CyrixInstead"}]
    \cup [plat : {"dos"}, ac : BOOLEAN, cpuid : {FALSE}, family : {0}, model : {0}, vendor : {""}]

Init ==
    /\ host \in Hosts
    /\ at = "enter"
    /\ pos = 1
    /\ got = [cpu |-> <<"static">>, handler |-> "original"]

\* signal(SIGILL, sigillHandlerTest), isAtLeast486() and setjmp().
Install ==
    /\ at = "enter"
    /\ got' = [got EXCEPT !.handler = "test"]
    /\ at' = IF host.ac THEN "cpuid" ELSE "out"
    /\ UNCHANGED <<host, pos>>

\* CPUID faults, and sigillHandlerTest jumps to the other branch.
Fault ==
    /\ at = "cpuid"
    /\ ~ host.cpuid
    /\ pos' = 2
    /\ at' = "out"
    /\ UNCHANGED <<host, got>>

ModelOf(f, m) ==
    CASE f >= 6 -> 5
      [] f = 5 /\ m \in {4, 6} -> 4
      [] f = 5 /\ m \notin {4, 6} -> 3
      [] OTHER -> 2

Identify ==
    /\ at = "cpuid"
    /\ host.cpuid
    /\ pos' = ModelOf(host.family, host.model)
    /\ at' = "out"
    /\ UNCHANGED <<host, got>>

\* The table of names: the vendor is only asked of a CPU with CPUID, and the
\* last name is the same for Intel and for those without a table.
Vendor ==
    IF ~ host.cpuid THEN "compatible"
    ELSE CASE host.vendor = "GenuineIntel" -> "Intel"
           [] host.vendor = "AuthenticAMD" -> "AMD"
           [] OTHER -> IF pos = 5 THEN "Intel" ELSE "compatible"

Out ==
    /\ at = "out"
    /\ got' = [cpu |-> <<Vendor, Models[pos]>>, handler |-> "original"]
    /\ at' = "returned"
    /\ UNCHANGED <<host, pos>>

Next == Install \/ Fault \/ Identify \/ Out
-----------------------------------------------------------------------------
(* Properties *)

\* What a CPU of this family and model number is, as far as the code tells the
\* Pentiums with MMX: it knows the models 4 and 6, so that an AMD K6-2 has the
\* name of a K5.
Generation ==
    IF ~ host.ac THEN "386"
    ELSE IF ~ host.cpuid \/ host.family = 4 THEN "486"
    ELSE IF host.family >= 6 THEN "Pentium Pro"
    ELSE IF host.model \in {4, 6} THEN "Pentium MMX" ELSE "Pentium"

\* From family 6 on the code takes whoever is not AMD for Intel.
SaidIntel ==
    host.cpuid /\ (host.vendor = "GenuineIntel" \/ (host.vendor # "AuthenticAMD" /\ host.family >= 6))

SaidAMD == host.cpuid /\ host.vendor = "AuthenticAMD"

\* The name given to the CPU is that of its generation and of its vendor, if it
\* tells, by whichever way the function goes, and SIGILL has its handler back on
\* every way out of it.
DosNamed ==
    at = "returned" =>
        /\ got.handler = "original"
        /\ got.cpu[2] = Generation
        /\ got.cpu[1] = IF SaidIntel THEN "Intel" ELSE IF SaidAMD THEN "AMD" ELSE "compatible"

-----------------------------------------------------------------------------
(* The inductive invariant *)

\* The model found, by whichever way the function went.
Identified ==
    pos = IF ~ host.ac THEN 1 ELSE IF ~ host.cpuid THEN 2 ELSE ModelOf(host.family, host.model)

IInv ==
    /\ host \in Hosts
    /\ at \in {"enter", "cpuid", "out", "returned"}
    /\ at \in {"enter", "cpuid"} => pos = 1
    /\ at = "cpuid" => host.ac
    /\ at \in {"out", "returned"} => Identified
    /\ at = "returned" => got = [cpu |-> <<Vendor, Models[pos]>>, handler |-> "original"]
=============================================================================
