------------------------------ MODULE LinuxCpu ------------------------------
(***************************************************************************)
(* LINUX_GatherCPUInfo and cpuinfoFindLine (plat/linux/info_cpu.c): the    *)
(* name of the CPU, and on PowerPC that of the machine, from the lines of  *)
(* /proc/cpuinfo, on ARM both from the device tree (the machine's before,  *)
(* in info_device.c).  A step is one turn of the loop of cpuinfoFindLine,  *)
(* or the code between two calls of it.                                    *)
(*                                                                         *)
(* The key of a line is a sequence of words and a value one of parts, so   *)
(* that what strncmp, strstr and strchr look for is a prefix or a part.    *)
(***************************************************************************)
EXTENDS Naturals, Sequences, SequencesExt, FiniteSetsExt

CONSTANTS
    CpuLines,   \* CpuLines[arch]: the lines that may be in /proc/cpuinfo
    MaxLines,   \* the most lines in it
    Compats     \* the models of Cortex-A that the device tree may name

VARIABLES
    host,   \* what the machine has to say of itself: never changes
    at,     \* where the function is
    pos,    \* the line at whose '\n' buf stands, 0 at the start
    got     \* what was gathered: cpuName and PLAT_Info.name

vars == <<host, at, pos, got>>

Unknown == <<"Unknown">>
Radeon == "withRadeonGraphics"
Clock == "@clock"

\* The keys asked for, in order.
CpuKey(arch) == IF arch = "ppc" THEN <<"cpu">> ELSE <<"model", "name">>

ModelKeys ==
    << <<"machine">>, <<"model">>, <<"platform">>, <<"motherboard">>, <<"detected", "as">> >>

\* armCPUNames: the digits after "arm,cortex-a".
ArmNames == << <<"5", "3">>, <<"5", "7">>, <<"7", "8">> >>

HostsOf(arch) ==
    [plat : {"linux"}, arch : {arch}, text : BoundedSeq(CpuLines[arch], MaxLines), lastEnds : BOOLEAN,
     compat : IF arch = "arm" THEN Compats \cup {<< >>} ELSE {<< >>},
     model : IF arch = "arm" THEN {"missing", "short", "whole"} ELSE {"missing"}]

Hosts == UNION {HostsOf(arch) : arch \in {"x86", "ppc", "arm"}}

\* An empty text is one that there is no memory for, that can not be read or
\* that is empty, an empty compat one that can not be read; only a line that is
\* not empty can lack its newline.
Init ==
    /\ host \in Hosts
    /\ host.text = << >> => host.lastEnds
    /\ ~ host.lastEnds => Last(host.text).key # << >>
    /\ at = IF host.arch = "arm" THEN "name" ELSE "open"
    /\ pos = 0
    /\ got = [cpu |-> << >>, name |-> << >>, asked |-> 0]
-----------------------------------------------------------------------------
(* cpuinfoFindLine *)

Key == IF got.asked = 0 THEN CpuKey(host.arch) ELSE ModelKeys[got.asked]

\* Mutant: the newline is not stepped over.
SameLine(p) == IF p = 0 THEN 1 ELSE p

\* The line behind the '\n' where buf stands; an empty first line is a '\n' too.
LineBehind(p) == IF p = 0 /\ host.text[1].key = << >> THEN 2 ELSE p + 1

HasNewline(i) == i < Len(host.text) \/ (i = Len(host.text) /\ host.lastEnds)

Here == LineBehind(pos)

Fits(line, key) == IsPrefix(key, line.key) /\ line.colon

NextLine ==
    /\ at = "search"
    /\ HasNewline(Here)
    /\ ~ Fits(host.text[Here], Key)
    /\ pos' = Here
    /\ UNCHANGED <<host, at, got>>

\* What the search for the CPU or for the machine ends with.
Found(value) ==
    IF got.asked = 0
    THEN /\ got' = [got EXCEPT !.cpu = value, !.asked = 1]
         /\ at' = IF host.arch = "ppc" THEN "search" ELSE "clean"
    ELSE /\ got' = [got EXCEPT !.name = value]
         /\ at' = "clean"

LineFound ==
    /\ at = "search"
    /\ HasNewline(Here)
    /\ Fits(host.text[Here], Key)
    /\ Found(host.text[Here].value)
    /\ pos' = 0
    /\ UNCHANGED host

\* On x86 a CPU without a name ends the program.
NotFound ==
    /\ at = "search"
    /\ ~ HasNewline(Here)
    /\ IF got.asked \in 1..(Len(ModelKeys) - 1)
       THEN got' = [got EXCEPT !.asked = @ + 1] /\ UNCHANGED at
       ELSE IF host.arch = "x86"
       THEN got' = [got EXCEPT !.cpu = Unknown] /\ at' = "failed"
       ELSE Found(Unknown)
    /\ pos' = 0
    /\ UNCHANGED host
-----------------------------------------------------------------------------
(* LINUX_GatherCPUInfo *)

\* LINUX_GatherDeviceInfo on ARM: the model in the device tree, if all of it
\* can be read.
Name ==
    /\ at = "name"
    /\ got' = [got EXCEPT !.name = IF host.model = "whole" THEN <<"model">> ELSE Unknown]
    /\ at' = "open"
    /\ UNCHANGED <<host, pos>>

\* A read of nothing returns -errno, which nothing has set: it may be 0.
Open ==
    /\ at = "open"
    /\ IF host.text = << >> THEN at' \in {"failed", "returned"}
       ELSE at' = IF host.arch = "arm" THEN "devicetree" ELSE "search"
    /\ UNCHANGED <<host, pos, got>>

\* strncmp over the length of the shorter one.
Agrees(c, n) == IsPrefix(c, n) \/ IsPrefix(n, c)

Readable(c) ==
    LET is == {i \in DOMAIN ArmNames : Agrees(c, ArmNames[i])}
    IN IF is = {} THEN c ELSE ArmNames[Min(is)]

DeviceTree ==
    /\ at = "devicetree"
    /\ IF host.compat = << >>
       THEN at' = "search" /\ UNCHANGED got
       ELSE at' = "clean" /\ got' = [got EXCEPT !.cpu = Readable(host.compat)]
    /\ UNCHANGED <<host, pos>>

\* The name up to a part of it.
CutAt(name, part) ==
    IF part \in Range(name)
    THEN SubSeq(name, 1, Min({i \in DOMAIN name : name[i] = part}) - 1)
    ELSE name

\* Mutant: the clock stays on.
CleanedOnce(name) == IF Len(name) > 1 THEN CutAt(name, Radeon) ELSE name

\* A name that is nothing but the first suffix keeps it.
Cleaned(name) == CutAt(IF Len(name) > 1 THEN CutAt(name, Radeon) ELSE name, Clock)

CleanUp ==
    /\ at = "clean"
    /\ got' = [got EXCEPT !.cpu = Cleaned(@)]
    /\ at' = "returned"
    /\ UNCHANGED <<host, pos>>

Next == Name \/ Open \/ NextLine \/ LineFound \/ NotFound \/ DeviceTree \/ CleanUp
-----------------------------------------------------------------------------
(* Properties *)

\* The value of the first line that begins like this key, among those that have
\* a colon and end.
ValueOf(key) ==
    LET is == {i \in DOMAIN host.text : HasNewline(i) /\ Fits(host.text[i], key)}
    IN IF is = {} THEN Unknown ELSE host.text[Min(is)].value

HasLine(key) == \E i \in DOMAIN host.text : HasNewline(i) /\ Fits(host.text[i], key)

KeysFound == {k \in DOMAIN ModelKeys : HasLine(ModelKeys[k])}

\* The lines with exactly this key, ...
LinesOf(key) ==
    {i \in DOMAIN host.text : HasNewline(i) /\ host.text[i].colon /\ host.text[i].key = key}

\* ... and those before them that strncmp takes for one of them.
Mistaken(key) ==
    {i \in DOMAIN host.text :
        /\ HasNewline(i) /\ Fits(host.text[i], key) /\ host.text[i].key # key
        /\ \A j \in LinesOf(key) : i < j}

\* What may be given out as the value of a key.
Values(key) ==
    IF Mistaken(key) # {} THEN {host.text[i].value : i \in Mistaken(key)}
    ELSE IF LinesOf(key) # {} THEN {host.text[Min(LinesOf(key))].value}
    ELSE {Unknown}

\* The names that begin with a model, or that it begins with.
Alike(c) == {n \in Range(ArmNames) : Agrees(c, n)}

RawNames ==
    IF host.compat = << >> THEN Values(CpuKey(host.arch))
    ELSE IF Alike(host.compat) = {} \/ host.compat \in Range(ArmNames) THEN {host.compat}
    ELSE Alike(host.compat)

MachineNames == IF KeysFound = {} THEN {Unknown} ELSE Values(ModelKeys[Min(KeysFound)])

\* What is left of a name is all of it up to the first suffix not wanted.
Shortened(name, raw) ==
    /\ IsPrefix(name, raw)
    /\ Clock \notin Range(name)
    /\ Radeon \in Range(name) => name = <<Radeon>>
    /\ name # raw => raw[Len(name) + 1] \in {Radeon, Clock}

\* Whatever the order of the lines, the empty ones among them and how the last
\* one ends: the name gathered is the value of the first line with the key asked
\* for, or what the device tree says, up to the first suffix that is not wanted;
\* on PowerPC the machine is named by the most useful line there is; and only
\* x86 gives up for want of a name.
\*
\* The exceptions are the code's.  It compares no more than the key, so that an
\* earlier line with a longer one is taken for it (Mistaken); it compares a model
\* of the device tree over the shorter length, so that a Cortex-A5 is given out
\* as an A53 and an A7 as an A78 (Alike), where a model with no such entry keeps
\* its own name; and an empty file may count as read, with no name.
LinuxNamed ==
    /\ at = "returned" =>
        /\ IF host.text = << >> THEN got.cpu = << >>
           ELSE /\ \E raw \in RawNames : Shortened(got.cpu, raw)
                /\ host.arch = "ppc" => got.name \in MachineNames
        /\ host.arch = "arm" => (got.name = Unknown) = (host.model # "whole")
    /\ at = "failed" =>
        host.text = << >> \/ (host.arch = "x86" /\ ~ HasLine(<<"model", "name">>))

-----------------------------------------------------------------------------
(* The inductive invariant *)

\* What is gathered is a text of the files, one of the function's own or, at
\* the end, what is left of it.
Texts ==
    {<< >>, Unknown, <<"model">>, host.compat} \cup Range(ArmNames)
    \cup {host.text[i].value : i \in DOMAIN host.text}

Gathered ==
    [cpu : Texts \cup {Cleaned(t) : t \in Texts}, name : Texts, asked : 0..Len(ModelKeys)]

\* Every variable keeps its type.
TypeOK ==
    /\ host \in Hosts
    /\ at \in {"name", "open", "devicetree", "search", "clean", "returned", "failed"}
    /\ pos \in 0..Len(host.text)
    /\ got \in Gathered

\* What is known before CleanUp.
Raw == IF host.compat = << >> THEN ValueOf(CpuKey(host.arch)) ELSE Readable(host.compat)

\* The name of an ARM machine is there before its CPU is looked for.
ArmNamed == host.arch = "arm" => (got.name = Unknown) = (host.model # "whole")

PpcNamed ==
    host.arch = "ppc" =>
        got.name = IF KeysFound = {} THEN Unknown ELSE ValueOf(ModelKeys[Min(KeysFound)])

\* The search has passed no line that is asked for; before the one for the
\* machine the CPU was found, and no better key.
Searching ==
    /\ host.compat = << >>
    /\ \A i \in 1..pos : ~ (HasNewline(i) /\ Fits(host.text[i], Key))
    /\ got.asked > 0 => host.arch = "ppc" /\ got.cpu = Raw /\ \A k \in 1..(got.asked - 1) : k \notin KeysFound

IInv ==
    /\ TypeOK
    /\ host.arch # "arm" => host.compat = << >>
    /\ at \in {"name", "open", "devicetree"} => pos = 0 /\ got.asked = 0 /\ got.cpu = << >>
    /\ at = "devicetree" => host.arch = "arm"
    /\ at \in {"devicetree", "search", "clean"} => host.text # << >>
    /\ at # "name" => ArmNamed
    /\ at = "search" => Searching
    /\ at = "clean" => got.cpu = Raw /\ PpcNamed
    /\ at = "returned" =>
        IF host.text = << >> THEN got.cpu = << >> ELSE got.cpu = Cleaned(Raw) /\ PpcNamed
    /\ at = "failed" => host.text = << >> \/ (host.arch = "x86" /\ ~ HasLine(<<"model", "name">>))
=============================================================================
