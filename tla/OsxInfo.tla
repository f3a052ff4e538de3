------------------------------- MODULE OsxInfo -------------------------------
(***************************************************************************)
(* OSX_GatherInfo's parser of SystemVersion.plist (plat/osx/info.c): the   *)
(* product's name and version are each the first <string> behind a <key>.  *)
(* A step is one strstr.  The file is a sequence of tags and texts.  Then, *)
(* on PowerPC, OSX_GatherCPUInfo (plat/osx/info_cpu.c).                    *)
(***************************************************************************)
EXTENDS Naturals, Sequences, SequencesExt, FiniteSetsExt

CONSTANTS
    Macs,       \* what may be on such a machine: a file and a CPU
    NameSize    \* the tags and texts that productName has room for

VARIABLES
    host,   \* the file: never changes
    at,     \* what is looked for
    pos,    \* ptr: the token found last, 0 the start of the file
    got     \* productName and productVersion, and which of them is parsed

vars == <<host, at, pos, got>>

Keys == <<"<key>ProductName</key>", "<key>ProductVersion</key>">>

Families == {"G3", "G4", "G5"}
Generic == {"750", "7400", "970"}
Specific == {"601", "602", "603", "603e", "603ev", "604", "604e", "620", "7450"}

\* What sysctl says of the CPU; "none" when it fails.
Cpus ==
    [type : {"POWERPC", "POWERPC64", "other", "none"}, family : Families \cup {"other", "none"},
     subtype : Generic \cup Specific \cup {"other", "none"}]

\* An empty file is one that can not be opened, statted or read.
Init ==
    /\ host \in Macs
    /\ at = "open"
    /\ pos = 0
    /\ got = [strings |-> << << >>, << >> >>, parsed |-> 1, cpu |-> ""]

Open ==
    /\ at = "open"
    /\ at' = IF host.file = << >> THEN "failed" ELSE "key"
    /\ UNCHANGED <<host, pos, got>>

Wanted ==
    CASE at = "key" -> Keys[got.parsed]
      [] at = "string" -> "<string>"
      [] at = "end" -> "</string>"

\* Where strstr finds a word from p on.
Positions(word, p) == {i \in DOMAIN host.file : i >= p /\ host.file[i] = word}

From(p) == Positions(Wanted, p)

\* One of the two is parsed; after both, PLAT_Info.os is put together.
Parsed(strings) ==
    /\ got' = [got EXCEPT !.strings = strings, !.parsed = @ + 1]
    /\ at' = IF got.parsed = 1 THEN "key" ELSE "cpu"
    /\ pos' = 0

Advance ==
    /\ at \in {"key", "string"}
    /\ From(pos) # {}
    /\ pos' = Min(From(pos))
    /\ at' = IF at = "key" THEN "string" ELSE "end"
    /\ UNCHANGED <<host, got>>

\* Only the key of the version has its fallback where it belongs: without a
\* <string> behind it the name is overwritten, and the version is never set.
Fallback ==
    /\ at \in {"key", "string"}
    /\ From(pos) = {}
    /\ IF got.parsed = 1 THEN Parsed([got.strings EXCEPT ![1] = <<"MacOSX">>])
       ELSE IF at = "key" THEN Parsed([got.strings EXCEPT ![2] = <<"[UnknownVersion]">>])
       ELSE Parsed([got.strings EXCEPT ![1] = <<"[UnknownVersion]">>])
    /\ UNCHANGED host

Between(i, j) == SubSeq(host.file, i + 1, j - 1)

CopyString ==
    /\ at = "end"
    /\ From(pos) # {}
    /\ LET value == Between(pos, Min(From(pos)))
       IN IF Len(value) <= NameSize
          THEN Parsed([got.strings EXCEPT ![got.parsed] = value])
          ELSE at' = "astray" /\ UNCHANGED <<pos, got>>
    /\ UNCHANGED host

\* ptr is tested where ptrEnd is meant: the copy runs to the end of memory.
NoEnd ==
    /\ at = "end"
    /\ From(pos) = {}
    /\ at' = "astray"
    /\ UNCHANGED <<host, pos, got>>

-----------------------------------------------------------------------------
(* OSX_GatherCPUInfo *)

SysctlFails == "none" \in {host.cpu.type, host.cpu.family, host.cpu.subtype}

CpuFails ==
    /\ at = "cpu"
    /\ SysctlFails \/ host.cpu.type = "other"
    /\ got' = IF SysctlFails THEN got ELSE [got EXCEPT !.cpu = "UnknownPPC"]
    /\ at' = "failed"
    /\ UNCHANGED <<host, pos>>

ByFamily ==
    /\ at = "cpu"
    /\ ~ SysctlFails /\ host.cpu.type # "other"
    /\ got' = [got EXCEPT !.cpu = IF host.cpu.family \in Families THEN host.cpu.family ELSE "Unknown"]
    /\ at' = "subtype"
    /\ UNCHANGED <<host, pos>>

\* Those of the generic subtypes have their name already.
BySubtype ==
    /\ at = "subtype"
    /\ got' = IF host.cpu.subtype \in Specific THEN [got EXCEPT !.cpu = host.cpu.subtype] ELSE got
    /\ at' = "returned"
    /\ UNCHANGED <<host, pos>>

Next ==
    \/ Open \/ Advance \/ Fallback \/ CopyString \/ NoEnd
    \/ CpuFails \/ ByFamily \/ BySubtype
-----------------------------------------------------------------------------
(* Properties *)

\* The first of one of the two keys, the first <string> behind it, and the
\* first </string> behind that.
KeyAt(k) == Positions(Keys[k], 0)

StringAt(k) == Positions("<string>", Min(KeyAt(k)))

EndAt(k) == Positions("</string>", Min(StringAt(k)))

Text(k) == Between(Min(StringAt(k)), Min(EndAt(k)))

\* The strings that are read are closed and have room, and the version has one.
Sound ==
    \A k \in 1..2 : KeyAt(k) # {} =>
        /\ k = 2 => StringAt(k) # {}
        /\ StringAt(k) # {} => EndAt(k) # {} /\ Len(Text(k)) <= NameSize

Defaults == <<"MacOSX", "[UnknownVersion]">>

\* What the file says under a key.
Says(k) == IF KeyAt(k) = {} \/ StringAt(k) = {} THEN <<Defaults[k]>> ELSE Text(k)

\* The name of the CPU: its subtype, if that tells more than the family.
CpuSays ==
    IF host.cpu.subtype \in Specific THEN host.cpu.subtype
    ELSE IF host.cpu.family \in Families THEN host.cpu.family ELSE "Unknown"

\* Whatever the order of the keys, and whatever stands before, between and
\* behind them, the product's name and its version are each the text of the
\* first <string> behind the first of its keys, or the fallback for it, and
\* nothing is read past the end of the file.  Excepted is the file (Sound) whose
\* <string> is never closed or too long, and the version's key with no <string>
\* behind it, for which the code overwrites the product's name.  The CPU on
\* PowerPC has the name of its subtype, or of its family, whatever the file.
PlistRead ==
    /\ Sound => at # "astray"
    /\ at = "returned" => got.cpu = CpuSays
    /\ at = "returned" /\ Sound => got.strings = <<Says(1), Says(2)>>

-----------------------------------------------------------------------------
(* The inductive invariant *)

\* What is gathered stands in the file, or is a fallback.
Words == Range(host.file) \cup Range(Defaults)

CpuNames == Families \cup Specific \cup {"", "Unknown", "UnknownPPC"}

Gathered == [strings : [1..2 -> Seq(Words)], parsed : 1..3, cpu : CpuNames]

\* Every variable keeps its type.
TypeOK ==
    /\ host \in Macs
    /\ at \in {"open", "key", "string", "end", "cpu", "subtype", "returned", "failed", "astray"}
    /\ pos \in 0..Len(host.file)
    /\ got \in Gathered

\* Where the parser stands, for each of the two keys.
Parsing ==
    /\ at = "key" => pos = 0
    /\ at \in {"string", "end"} => KeyAt(got.parsed) # {}
    /\ at = "string" => pos = Min(KeyAt(got.parsed))
    /\ at = "end" => StringAt(got.parsed) # {} /\ pos = Min(StringAt(got.parsed))

\* The strings it has copied.
Copied == \A k \in 1..2 : k < got.parsed => got.strings[k] = Says(k)

CpuNamed ==
    /\ at = "subtype" =>
         got.cpu = IF host.cpu.family \in Families THEN host.cpu.family ELSE "Unknown"
    /\ at = "returned" => got.cpu = CpuSays

IInv ==
    /\ TypeOK
    /\ at = "open" => got.parsed = 1 /\ pos = 0
    /\ at \in {"open", "key", "string", "end"} => got.parsed \in 1..2
    /\ at \in {"cpu", "subtype", "returned"} => got.parsed = 3
    /\ Parsing
    /\ Sound => at # "astray" /\ Copied
    /\ CpuNamed
=============================================================================
