--------------------------- MODULE HostInfoProofs ---------------------------
(***************************************************************************)
(* For any number of DMI paths, any /proc/cpuinfo, device tree, CPU and    *)
(* SystemVersion.plist: what a host finds out about itself is what its     *)
(* files say.                                                              *)
(***************************************************************************)
EXTENDS HostInfo, SequenceTheorems, WellFoundedInduction, TLAPS

-----------------------------------------------------------------------------
(* LINUX_GatherDeviceInfo *)

LEMMA InitIInv == Init => IInv
<1> SUFFICES ASSUME Init PROVE IInv
  OBVIOUS
<1>1. 1 \in 1..(NPaths + 2) /\ 0 \in 0..Unknown
  BY DeviceInfoAssumption DEF Unknown
<1>2. hasVendor \in BOOLEAN
  BY Zenon DEF Init
<1>3. TypeOK
  BY <1>1, <1>2 DEF Init, TypeOK
<1> QED BY <1>3 DEF Init, IInv, FirstUseful

LEMMA StepIInv == IInv /\ [Next]_vars => IInv'
<1> SUFFICES ASSUME IInv, [Next]_vars PROVE IInv'
  OBVIOUS
<1> USE DeviceInfoAssumption
<1>1. CASE ReadVendor
  <2>1. idx' = 1 /\ pc' = "tryGetModel"
    BY <1>1 DEF ReadVendor, IInv
  <2>2. TypeOK'
    BY <1>1 DEF ReadVendor, IInv, TypeOK
  <2>3. Searched'
    BY <2>1, <2>2 DEF Searched, TypeOK
  <2> QED BY <1>1, <2>1, <2>2, <2>3 DEF ReadVendor, IInv, FirstUseful, Unknown
<1>2. CASE ReadModel
  <2>1. TypeOK'
    BY <1>2 DEF ReadModel, CanRead, IInv, TypeOK, Unknown
  <2>2. Useful(model)'
    BY <1>2 DEF ReadModel, CanRead, IsGarbage, Useful, IInv, TypeOK
  <2>3. \A j \in 1..(model' - 1) : ~ Useful(j)'
    BY <1>2 DEF ReadModel, CanRead, Useful, IInv, TypeOK, Searched
  <2>4. hasVendor' = (sysVendor' \in {"garbage", "model"})
    BY <1>2 DEF ReadModel, IInv
  <2>5. pc' = "done"
    BY <1>2 DEF ReadModel
  <2> QED BY <2>1, <2>2, <2>3, <2>4, <2>5 DEF IInv, FirstUseful
<1>3. CASE TryNextPath
  <2>1. idx' = idx + 1 /\ idx \in 1..Unknown /\ pc = "tryGetModel"
    BY <1>3 DEF TryNextPath, Following, IInv, TypeOK, Unknown
  <2>2. ~ Useful(idx)
    BY <1>3 DEF TryNextPath, CanRead, IsGarbage, Useful
  <2>3. model' \in 0..Unknown
    BY <1>3 DEF TryNextPath, Unknown
  <2>4. TypeOK'
    BY <1>3, <2>1, <2>3 DEF TryNextPath, IInv, TypeOK, Unknown
  <2>5. Searched'
    <3> SUFFICES ASSUME NEW j \in 1..NPaths, j < idx + 1 PROVE ~ Useful(j)
      BY <1>3, <2>1 DEF TryNextPath, Searched, Useful
    <3>1. j < idx \/ j = idx
      BY <2>1 DEF Unknown
    <3> QED BY <2>1, <2>2, <3>1 DEF IInv, Searched
  <2>6. pc' \in {"tryGetModel", "astray"} /\ (pc' = "tryGetModel" => idx' <= Unknown)
    BY <1>3, <2>1 DEF TryNextPath, Unknown
  <2>7. hasVendor' = (sysVendor' \in {"garbage", "model"})
    BY <1>3, <2>1 DEF TryNextPath, IInv
  <2> QED BY <2>4, <2>5, <2>6, <2>7 DEF IInv, FirstUseful
<1>4. CASE UNCHANGED vars
  BY <1>4 DEF vars, IInv, TypeOK, FirstUseful, Searched, Useful, Unknown
<1> QED BY <1>1, <1>2, <1>3, <1>4 DEF Next

\* Whatever the DMI files hold and however many there are, the model reported
\* is that of the first useful one, and the vendor is kept.
THEOREM FirstUsefulCorrect == Spec => []FirstUseful
<1>1. IInv => FirstUseful
  BY DEF IInv
<1> QED BY <1>1, InitIInv, StepIInv, PTL DEF Spec

-----------------------------------------------------------------------------
(* The first of several positions *)

LEMMA LeastExists ==
    ASSUME NEW S \in SUBSET Nat, S # {}
    PROVE  \E x \in S : \A y \in S : x <= y
<1>1. PICK x \in S : \A y \in S : ~ (<<y, x>> \in OpToRel(<, Nat))
  BY WFMin, NatLessThanWellFounded
<1>2. \A y \in S : ~ (y < x)
  BY <1>1 DEF OpToRel
<1> QED BY <1>2

LEMMA LinuxMin ==
    ASSUME NEW S \in SUBSET Nat, S # {}
    PROVE  Linux!Min(S) \in S /\ \A y \in S : Linux!Min(S) <= y
BY LeastExists DEF Linux!Min

LEMMA OsxMin ==
    ASSUME NEW S \in SUBSET Nat, S # {}
    PROVE  Osx!Min(S) \in S /\ \A y \in S : Osx!Min(S) <= y
BY LeastExists DEF Osx!Min

\* The one that is found first is the least.
LEMMA LinuxLeast ==
    ASSUME NEW S \in SUBSET Nat, NEW x \in S, \A y \in S : x <= y
    PROVE  Linux!Min(S) = x
<1>1. Linux!Min(S) \in S /\ Linux!Min(S) <= x
  BY LinuxMin
<1>2. x <= Linux!Min(S) /\ x \in Nat /\ Linux!Min(S) \in Nat
  BY <1>1
<1> QED BY <1>1, <1>2

LEMMA OsxLeast ==
    ASSUME NEW S \in SUBSET Nat, NEW x \in S, \A y \in S : x <= y
    PROVE  Osx!Min(S) = x
<1>1. Osx!Min(S) \in S /\ Osx!Min(S) <= x
  BY OsxMin
<1>2. x <= Osx!Min(S) /\ x \in Nat /\ Osx!Min(S) \in Nat
  BY <1>1
<1> QED BY <1>1, <1>2

-----------------------------------------------------------------------------
(* DOS_GatherCPUInfo *)

LEMMA DosInit == Dos!Init => Dos!IInv
BY DEF Dos!Init, Dos!IInv

LEMMA DosStep == Dos!IInv /\ Dos!Next => Dos!IInv'
<1> SUFFICES ASSUME Dos!IInv, Dos!Next PROVE Dos!IInv'
  OBVIOUS
<1>1. CASE Dos!Install
  BY <1>1 DEF Dos!Install, Dos!IInv, Dos!Identified
<1>2. CASE Dos!Fault
  BY <1>2 DEF Dos!Fault, Dos!IInv, Dos!Identified
<1>3. CASE Dos!Identify
  BY <1>3 DEF Dos!Identify, Dos!IInv, Dos!Identified
<1>4. CASE Dos!Out
  BY <1>4 DEF Dos!Out, Dos!IInv, Dos!Identified, Dos!Vendor
<1> QED BY <1>1, <1>2, <1>3, <1>4 DEF Dos!Next

\* What there is to know of a CPU.
LEMMA DosHost ==
    ASSUME host \in Dos!Hosts
    PROVE  /\ host.cpuid \in BOOLEAN /\ host.ac \in BOOLEAN
           /\ host.cpuid => host.ac /\ host.family \in 4..15
           /\ ~ host.cpuid => host.vendor = ""
<1>1. CASE host \in [plat : {"dos"}, ac : {TRUE}, cpuid : {TRUE}, family : 4..15, model : 0..15,
                     vendor : {"GenuineIntel", "AuthenticAMD", "CyrixInstead"}]
  BY <1>1
<1>2. CASE host \in [plat : {"dos"}, ac : BOOLEAN, cpuid : {FALSE}, family : {0}, model : {0}, vendor : {""}]
  BY <1>2
<1> QED BY <1>1, <1>2 DEF Dos!Hosts

LEMMA DosTrue == Dos!IInv => Dos!DosNamed
<1> SUFFICES ASSUME Dos!IInv, at = "returned" PROVE Dos!DosNamed
  BY DEF Dos!DosNamed
<1>1. /\ got.cpu = <<Dos!Vendor, Dos!Models[pos]>> /\ got.handler = "original"
      /\ Dos!Identified
  BY DEF Dos!IInv
<1>2. /\ host.cpuid \in BOOLEAN /\ host.ac \in BOOLEAN
      /\ host.cpuid => host.ac /\ host.family \in 4..15
      /\ ~ host.cpuid => host.vendor = ""
  BY DosHost DEF Dos!IInv
<1>3. CASE host.cpuid
  <2>1. pos = IF host.family >= 6 THEN 5 ELSE IF host.family = 5
              THEN (IF host.model \in {4, 6} THEN 4 ELSE 3) ELSE 2
    BY <1>1, <1>2, <1>3 DEF Dos!Identified, Dos!ModelOf
  <2>2. Dos!Models[pos] = Dos!Generation
    <3>1. CASE host.family >= 6
      <4>1. pos = 5 /\ host.family # 4 /\ host.ac /\ host.cpuid
        BY <1>2, <1>3, <2>1, <3>1
      <4>2. Dos!Generation = "Pentium Pro"
        BY <3>1, <4>1 DEF Dos!Generation
      <4> QED BY <4>1, <4>2 DEF Dos!Models
    <3>2. CASE host.family = 5
      <4>1. ~ (host.family >= 6) /\ host.family # 4 /\ host.ac /\ host.cpuid
        BY <1>2, <1>3, <3>2
      <4>2. pos = IF host.model \in {4, 6} THEN 4 ELSE 3
        BY <2>1, <3>2, <4>1
      <4>3. Dos!Generation = IF host.model \in {4, 6} THEN "Pentium MMX" ELSE "Pentium"
        BY <4>1 DEF Dos!Generation
      <4> QED BY <4>2, <4>3 DEF Dos!Models
    <3>3. CASE host.family = 4
      BY <1>2, <1>3, <2>1, <3>3 DEF Dos!Generation, Dos!Models
    <3> QED BY <1>2, <1>3, <3>1, <3>2, <3>3
  <2>3. pos = 5 <=> host.family >= 6
    BY <1>2, <1>3, <2>1
  <2>4. Dos!Vendor = IF Dos!SaidIntel THEN "Intel" ELSE IF Dos!SaidAMD THEN "AMD" ELSE "compatible"
    BY <1>3, <2>3 DEF Dos!Vendor, Dos!SaidIntel, Dos!SaidAMD
  <2> QED BY <1>1, <2>2, <2>4 DEF Dos!DosNamed
<1>4. CASE ~ host.cpuid
  <2>1. Dos!Models[pos] = Dos!Generation
    BY <1>1, <1>2, <1>4 DEF Dos!Identified, Dos!Generation, Dos!Models
  <2>2. Dos!Vendor = "compatible" /\ ~ Dos!SaidIntel /\ ~ Dos!SaidAMD
    BY <1>4 DEF Dos!Vendor, Dos!SaidIntel, Dos!SaidAMD
  <2> QED BY <1>1, <2>1, <2>2 DEF Dos!DosNamed
<1> QED BY <1>2, <1>3, <1>4

-----------------------------------------------------------------------------
(* OSX_GatherInfo and OSX_GatherCPUInfo *)

LEMMA OsxHost ==
    ASSUME Osx!TypeOK
    PROVE  /\ host.file \in Seq(STRING) /\ Len(host.file) \in Nat
           /\ DOMAIN host.file = 1..Len(host.file)
           /\ host.cpu \in Osx!Cpus
           /\ pos \in Nat
BY HostInfoAssumption DEF Osx!TypeOK

\* What strstr finds lies in the file, and not before ptr.
LEMMA OsxFound ==
    ASSUME Osx!TypeOK, Osx!From(pos) # {}
    PROVE  /\ Osx!From(pos) \in SUBSET Nat
           /\ Osx!Min(Osx!From(pos)) \in Osx!From(pos)
           /\ Osx!Min(Osx!From(pos)) \in 1..Len(host.file)
<1>1. Osx!From(pos) \subseteq 1..Len(host.file)
  BY OsxHost DEF Osx!From, Osx!Positions
<1>2. Osx!From(pos) \in SUBSET Nat
  BY <1>1, OsxHost
<1> QED BY <1>1, <1>2, OsxMin

\* Wherever the parser stands, strstr looks for what comes next under the key.
LEMMA OsxNext ==
    ASSUME Osx!TypeOK, Osx!Parsing
    PROVE  /\ at = "key" => Osx!From(pos) = Osx!KeyAt(got.parsed)
           /\ at = "string" => Osx!From(pos) = Osx!StringAt(got.parsed)
           /\ at = "end" => Osx!From(pos) = Osx!EndAt(got.parsed)
BY DEF Osx!Parsing, Osx!From, Osx!Wanted, Osx!KeyAt, Osx!StringAt, Osx!EndAt

\* What the file says is the file's: it does not change with the parser.
LEMMA OsxFile ==
    ASSUME host' = host
    PROVE  /\ Osx!Sound' <=> Osx!Sound
           /\ Osx!Gathered' = Osx!Gathered
           /\ \A k \in 1..2 :
                /\ Osx!KeyAt(k)' = Osx!KeyAt(k)
                /\ Osx!StringAt(k)' = Osx!StringAt(k)
                /\ Osx!Says(k)' = Osx!Says(k)
<1>1. \A k \in 1..2 :
        /\ Osx!KeyAt(k)' = Osx!KeyAt(k) /\ Osx!StringAt(k)' = Osx!StringAt(k)
        /\ Osx!EndAt(k)' = Osx!EndAt(k) /\ Osx!Text(k)' = Osx!Text(k)
  BY DEF Osx!KeyAt, Osx!StringAt, Osx!EndAt, Osx!Text, Osx!Between, Osx!Positions
<1>2. \A k \in 1..2 : Osx!Says(k)' = Osx!Says(k)
  BY <1>1 DEF Osx!Says
<1>3. Osx!Sound' <=> Osx!Sound
  BY <1>1 DEF Osx!Sound
<1>4. Osx!Gathered' = Osx!Gathered
  BY DEF Osx!Gathered, Osx!Words
<1> QED BY <1>1, <1>2, <1>3, <1>4

LEMMA Pair ==
    ASSUME NEW W, NEW a \in Seq(W), NEW b \in Seq(W)
    PROVE  <<a, b>> \in [1..2 -> Seq(W)]
OBVIOUS

LEMMA OsxInit == Osx!Init => Osx!IInv
<1> SUFFICES ASSUME Osx!Init PROVE Osx!IInv
  OBVIOUS
<1>1. << >> \in Seq(Osx!Words)
  OBVIOUS
<1>2. << << >>, << >> >> \in [1..2 -> Seq(Osx!Words)]
  BY <1>1, Pair
<1>3. [strings |-> << << >>, << >> >>, parsed |-> 1, cpu |-> ""] \in Osx!Gathered
  BY <1>2 DEF Osx!Gathered, Osx!CpuNames
<1>4. host \in [plat : {"osx"}, file : Seq(STRING), cpu : Osx!Cpus]
  BY HostInfoAssumption DEF Osx!Init
<1>5. Len(host.file) \in Nat
  BY <1>4
<1>6. Osx!TypeOK
  <2>1. host \in Macs /\ at = "open" /\ pos = 0 /\ got \in Osx!Gathered
    BY <1>3 DEF Osx!Init
  <2>2. pos \in 0..Len(host.file)
    BY <1>5, <2>1
  <2> QED BY <2>1, <2>2 DEF Osx!TypeOK
<1>7. at = "open" /\ got.parsed = 1 /\ pos = 0
  BY DEF Osx!Init
<1> QED BY <1>6, <1>7 DEF Osx!IInv, Osx!Parsing, Osx!Copied, Osx!CpuNamed

\* The strings with one of them set.
LEMMA OsxParsed ==
    ASSUME Osx!TypeOK, got.parsed \in 1..2, NEW i \in 1..2, NEW v \in Seq(Osx!Words),
           got' = [got EXCEPT !.strings = [got.strings EXCEPT ![i] = v], !.parsed = @ + 1]
    PROVE  /\ got' \in Osx!Gathered
           /\ got'.parsed = got.parsed + 1 /\ got'.cpu = got.cpu
           /\ got'.strings[i] = v
           /\ \A j \in 1..2 : j # i => got'.strings[j] = got.strings[j]
<1> DEFINE strings == [got.strings EXCEPT ![i] = v]
<1>1. got \in Osx!Gathered
  BY DEF Osx!TypeOK
<1>2. /\ got.strings \in [1..2 -> Seq(Osx!Words)]
      /\ got.parsed + 1 \in 1..3 /\ got.cpu \in Osx!CpuNames
  BY <1>1 DEF Osx!Gathered
<1>3. /\ strings \in [1..2 -> Seq(Osx!Words)]
      /\ strings[i] = v /\ \A j \in 1..2 : j # i => strings[j] = got.strings[j]
  BY <1>2
<1>4. got' = [strings |-> strings, parsed |-> got.parsed + 1, cpu |-> got.cpu]
  BY <1>1 DEF Osx!Gathered
<1> HIDE DEF strings
<1> QED BY <1>2, <1>3, <1>4 DEF Osx!Gathered

LEMMA OsxWords ==
    /\ \A k \in 1..2 : <<Osx!Defaults[k]>> \in Seq(Osx!Words)
    /\ host.file \in Seq(STRING) => host.file \in Seq(Osx!Words)
<1>1. DOMAIN Osx!Defaults = 1..2
  BY DEF Osx!Defaults
<1>2. \A k \in 1..2 : Osx!Defaults[k] \in Osx!Words
  BY <1>1 DEF Osx!Words, Osx!Range
<1>3. ASSUME host.file \in Seq(STRING) PROVE host.file \in Seq(Osx!Words)
  <2>1. \A i \in 1..Len(host.file) : host.file[i] \in Osx!Words
    BY <1>3 DEF Osx!Words, Osx!Range
  <2> QED BY <1>3, <2>1
<1>4. ASSUME NEW W, NEW w \in W PROVE <<w>> \in Seq(W)
  OBVIOUS
<1> QED BY <1>2, <1>3, <1>4

\* What is parsed leaves the parser before the next key, or at the CPU.
LEMMA OsxParsedStep ==
    ASSUME Osx!IInv, at \in {"key", "string", "end"}, host' = host, NEW i \in 1..2, NEW v \in Seq(Osx!Words),
           Osx!Parsed([got.strings EXCEPT ![i] = v]),
           Osx!Sound => i = got.parsed /\ v = Osx!Says(i)
    PROVE  Osx!IInv'
<1>0. Osx!TypeOK /\ got.parsed \in 1..2
  BY DEF Osx!IInv
<1>1. /\ got' \in Osx!Gathered
      /\ got'.parsed = got.parsed + 1 /\ got'.cpu = got.cpu
      /\ got'.strings[i] = v
      /\ \A j \in 1..2 : j # i => got'.strings[j] = got.strings[j]
  BY <1>0, OsxParsed DEF Osx!Parsed
<1>2. pos' = 0 /\ at' = (IF got.parsed = 1 THEN "key" ELSE "cpu")
  BY DEF Osx!Parsed
<1>3. Osx!TypeOK'
  <2>1. pos' \in 0..Len(host.file)'
    BY <1>0, <1>2, OsxHost
  <2> QED BY <1>0, <1>1, <1>2, <2>1, OsxFile DEF Osx!TypeOK
<1>4. Osx!CpuNamed'
  BY <1>2 DEF Osx!CpuNamed
<1>5. Osx!Parsing'
  BY <1>0, <1>1, <1>2 DEF Osx!Parsing
<1>6. ASSUME Osx!Sound PROVE Osx!Copied'
  <2>1. Osx!Copied /\ i = got.parsed /\ v = Osx!Says(i)
    BY <1>6 DEF Osx!IInv
  <2>2. \A k \in 1..2 : k < got'.parsed => got'.strings[k] = Osx!Says(k)
    BY <1>0, <1>1, <2>1 DEF Osx!Copied
  <2> QED BY <2>2, OsxFile DEF Osx!Copied
<1> QED BY <1>0, <1>1, <1>2, <1>3, <1>4, <1>5, <1>6, OsxFile DEF Osx!IInv

LEMMA OsxStep == Osx!IInv /\ Osx!Next => Osx!IInv'
<1> SUFFICES ASSUME Osx!IInv, Osx!Next PROVE Osx!IInv'
  OBVIOUS
<1>0. /\ Osx!TypeOK /\ Osx!Parsing
      /\ got \in Osx!Gathered
      /\ host.file \in Seq(STRING) /\ Len(host.file) \in Nat /\ DOMAIN host.file = 1..Len(host.file)
      /\ host.cpu \in Osx!Cpus /\ pos \in Nat
  BY OsxHost DEF Osx!IInv, Osx!TypeOK
<1>h. host' = host
  BY DEF Osx!Next, Osx!Open, Osx!Advance, Osx!Fallback, Osx!CopyString, Osx!NoEnd,
         Osx!CpuFails, Osx!ByFamily, Osx!BySubtype
<1>p. pos \in 0..Len(host.file)
  BY DEF Osx!IInv, Osx!TypeOK
<1>t. ASSUME pos' \in 0..Len(host.file), got' \in Osx!Gathered,
             at' \in {"open", "key", "string", "end", "cpu", "subtype", "returned", "failed", "astray"}
      PROVE  Osx!TypeOK'
  BY <1>0, <1>h, <1>t, OsxFile DEF Osx!TypeOK
\* Whatever leaves the strings alone keeps those that were copied.
<1>c. ASSUME got'.strings = got.strings, got'.parsed = got.parsed, at' # "astray"
      PROVE  Osx!Sound' => at' # "astray" /\ Osx!Copied'
  <2>1. Osx!Sound => \A k \in 1..2 : k < got'.parsed => got'.strings[k] = Osx!Says(k)
    BY <1>c DEF Osx!IInv, Osx!Copied
  <2> QED BY <1>c, <1>h, <2>1, OsxFile DEF Osx!Copied
<1>1. CASE Osx!Open
  <2>1. Osx!TypeOK'
    BY <1>0, <1>1, <1>p, <1>t DEF Osx!Open
  <2>2. got.parsed = 1 /\ pos' = 0 /\ got' = got /\ at' \in {"failed", "key"}
    BY <1>1 DEF Osx!Open, Osx!IInv
  <2>3. Osx!Sound' => at' # "astray" /\ Osx!Copied'
    BY <1>c, <2>2
  <2> QED BY <2>1, <2>2, <2>3 DEF Osx!IInv, Osx!Parsing, Osx!CpuNamed
<1>2. CASE Osx!Advance
  <2>1. got' = got /\ at \in {"key", "string"} /\ got.parsed \in 1..2
        /\ pos' = Osx!Min(Osx!From(pos)) /\ Osx!From(pos) # {}
        /\ at' = IF at = "key" THEN "string" ELSE "end"
    BY <1>2 DEF Osx!Advance, Osx!IInv
  <2>2. pos' \in 1..Len(host.file)
    BY <1>0, <2>1, OsxFound
  <2>3. Osx!TypeOK'
    BY <1>0, <1>t, <2>1, <2>2
  <2>4. Osx!Parsing'
    <3>1. CASE at = "key"
      <4>1. at' = "string" /\ pos' = Osx!Min(Osx!KeyAt(got.parsed)) /\ Osx!KeyAt(got.parsed) # {}
        BY <1>0, <2>1, <3>1, OsxNext
      <4>2. Osx!KeyAt(got.parsed)' = Osx!KeyAt(got.parsed)
        BY <1>h, <2>1 DEF Osx!KeyAt, Osx!Positions
      <4> QED BY <4>1, <4>2 DEF Osx!Parsing
    <3>2. CASE at = "string"
      <4>1. /\ at' = "end" /\ pos' = Osx!Min(Osx!StringAt(got.parsed)) /\ Osx!StringAt(got.parsed) # {}
            /\ Osx!KeyAt(got.parsed) # {}
        BY <1>0, <2>1, <3>2, OsxNext DEF Osx!Parsing
      <4>2. Osx!KeyAt(got.parsed)' = Osx!KeyAt(got.parsed) /\ Osx!StringAt(got.parsed)' = Osx!StringAt(got.parsed)
        BY <1>h, <2>1, OsxFile DEF Osx!KeyAt, Osx!StringAt, Osx!Positions
      <4> QED BY <2>1, <4>1, <4>2 DEF Osx!Parsing
    <3> QED BY <2>1, <3>1, <3>2
  <2>5. Osx!Sound' => at' # "astray" /\ Osx!Copied'
    BY <1>c, <2>1
  <2> QED BY <2>1, <2>3, <2>4, <2>5 DEF Osx!IInv, Osx!CpuNamed
<1>3. CASE Osx!Fallback
  <2>1. at \in {"key", "string"} /\ got.parsed \in 1..2 /\ Osx!From(pos) = {}
    BY <1>3 DEF Osx!Fallback, Osx!IInv
  <2>2. Osx!KeyAt(got.parsed) = {} \/ (at = "string" /\ Osx!StringAt(got.parsed) = {})
    <3>1. CASE at = "key"
      BY <1>0, <2>1, <3>1, OsxNext
    <3>2. CASE at = "string"
      BY <1>0, <2>1, <3>2, OsxNext
    <3> QED BY <2>1, <3>1, <3>2
  <2>3. Osx!Says(got.parsed) = <<Osx!Defaults[got.parsed]>>
    BY <2>2 DEF Osx!Says
  <2>4. CASE got.parsed = 1
    <3>1. Osx!Parsed([got.strings EXCEPT ![1] = <<"MacOSX">>])
      BY <1>3, <2>4 DEF Osx!Fallback
    <3>2. <<"MacOSX">> \in Seq(Osx!Words) /\ <<"MacOSX">> = Osx!Says(1)
      BY <2>3, <2>4, OsxWords DEF Osx!Defaults
    <3>3. 1 \in 1..2
      OBVIOUS
    <3> QED BY <1>h, <2>1, <2>4, <3>1, <3>2, <3>3, OsxParsedStep
  <2>5. CASE got.parsed = 2 /\ at = "key"
    <3>1. Osx!Parsed([got.strings EXCEPT ![2] = <<"[UnknownVersion]">>])
      BY <1>3, <2>5 DEF Osx!Fallback
    <3>2. <<"[UnknownVersion]">> \in Seq(Osx!Words) /\ <<"[UnknownVersion]">> = Osx!Says(2)
      BY <2>3, <2>5, OsxWords DEF Osx!Defaults
    <3>3. 2 \in 1..2
      OBVIOUS
    <3> QED BY <1>h, <2>1, <2>5, <3>1, <3>2, <3>3, OsxParsedStep
  <2>6. CASE got.parsed = 2 /\ at = "string"
    <3>1. Osx!Parsed([got.strings EXCEPT ![1] = <<"[UnknownVersion]">>])
      BY <1>3, <2>6 DEF Osx!Fallback
    <3>2. <<"[UnknownVersion]">> \in Seq(Osx!Words)
      BY OsxWords DEF Osx!Defaults
    <3>3. ~ Osx!Sound
      <4>1. Osx!KeyAt(2) # {} /\ Osx!StringAt(2) = {}
        BY <1>0, <2>1, <2>6, OsxNext DEF Osx!Parsing
      <4> QED BY <4>1 DEF Osx!Sound
    <3>4. 1 \in 1..2
      OBVIOUS
    <3> QED BY <1>h, <2>1, <3>1, <3>2, <3>3, <3>4, OsxParsedStep
  <2> QED BY <2>1, <2>4, <2>5, <2>6
<1>4. CASE Osx!CopyString
  <2> DEFINE value == Osx!Between(pos, Osx!Min(Osx!From(pos)))
  <2>1. at = "end" /\ got.parsed \in 1..2 /\ Osx!From(pos) # {}
    BY <1>4 DEF Osx!CopyString, Osx!IInv
  <2>2. Osx!Min(Osx!From(pos)) \in 1..Len(host.file)
    BY <1>0, <2>1, OsxFound
  <2>3. value \in Seq(Osx!Words)
    BY <1>0, <2>2, OsxWords DEF Osx!Between
  <2>4. value = Osx!Says(got.parsed) /\ value = Osx!Text(got.parsed)
        /\ Osx!KeyAt(got.parsed) # {} /\ Osx!StringAt(got.parsed) # {}
    <3>1. /\ Osx!KeyAt(got.parsed) # {} /\ Osx!StringAt(got.parsed) # {}
          /\ pos = Osx!Min(Osx!StringAt(got.parsed)) /\ Osx!From(pos) = Osx!EndAt(got.parsed)
      BY <1>0, <2>1, OsxNext DEF Osx!Parsing
    <3>2. value = Osx!Text(got.parsed)
      BY <3>1 DEF Osx!Text
    <3> QED BY <3>1, <3>2 DEF Osx!Says
  <2> HIDE DEF value
  <2>5. CASE Len(value) <= NameSize
    <3>1. Osx!Parsed([got.strings EXCEPT ![got.parsed] = value])
      BY <1>4, <2>5 DEF Osx!CopyString, value
    <3> QED BY <1>h, <2>1, <2>3, <2>4, <3>1, OsxParsedStep
  <2>6. CASE ~ (Len(value) <= NameSize)
    <3>1. at' = "astray" /\ pos' = pos /\ got' = got
      BY <1>4, <2>6 DEF Osx!CopyString, value
    <3>2. ~ Osx!Sound
      BY <2>1, <2>4, <2>6 DEF Osx!Sound
    <3>3. Osx!TypeOK'
      BY <1>0, <1>p, <1>t, <3>1
    <3>4. ~ Osx!Sound'
      BY <1>h, <3>2, OsxFile
    <3> QED BY <3>1, <3>3, <3>4 DEF Osx!IInv, Osx!Parsing, Osx!CpuNamed
  <2> QED BY <2>5, <2>6
<1>5. CASE Osx!NoEnd
  <2>1. at = "end" /\ got.parsed \in 1..2 /\ Osx!From(pos) = {}
        /\ at' = "astray" /\ pos' = pos /\ got' = got
    BY <1>5 DEF Osx!NoEnd, Osx!IInv
  <2>2. ~ Osx!Sound
    <3>1. Osx!KeyAt(got.parsed) # {} /\ Osx!StringAt(got.parsed) # {} /\ Osx!EndAt(got.parsed) = {}
      BY <1>0, <2>1, OsxNext DEF Osx!Parsing
    <3> QED BY <2>1, <3>1 DEF Osx!Sound
  <2>3. Osx!TypeOK'
    BY <1>0, <1>p, <1>t, <2>1
  <2>4. ~ Osx!Sound'
    BY <1>h, <2>2, OsxFile
  <2> QED BY <2>1, <2>3, <2>4 DEF Osx!IInv, Osx!Parsing, Osx!CpuNamed
<1>6. CASE Osx!CpuFails
  <2>1. at = "cpu" /\ at' = "failed" /\ pos' = pos /\ got.parsed = 3
    BY <1>6 DEF Osx!CpuFails, Osx!IInv
  <2>2. got' \in Osx!Gathered
        /\ got'.strings = got.strings /\ got'.parsed = got.parsed
    BY <1>0, <1>6 DEF Osx!CpuFails, Osx!Gathered, Osx!CpuNames
  <2>3. Osx!TypeOK'
    BY <1>0, <1>p, <1>t, <2>1, <2>2
  <2>4. Osx!Sound' => at' # "astray" /\ Osx!Copied'
    BY <1>c, <2>1, <2>2
  <2> QED BY <2>1, <2>2, <2>3, <2>4 DEF Osx!IInv, Osx!Parsing, Osx!CpuNamed
<1>7. CASE Osx!ByFamily
  <2> DEFINE name == IF host.cpu.family \in Osx!Families THEN host.cpu.family ELSE "Unknown"
  <2>1. at = "cpu" /\ at' = "subtype" /\ pos' = pos /\ got.parsed = 3
    BY <1>7 DEF Osx!ByFamily, Osx!IInv
  <2>2. name \in Osx!CpuNames
    BY DEF Osx!CpuNames
  <2>3. got' \in Osx!Gathered
        /\ got'.strings = got.strings /\ got'.parsed = got.parsed /\ got'.cpu = name
    BY <1>0, <1>7, <2>2 DEF Osx!ByFamily, Osx!Gathered
  <2>4. Osx!TypeOK'
    BY <1>0, <1>p, <1>t, <2>1, <2>3
  <2>5. Osx!Sound' => at' # "astray" /\ Osx!Copied'
    BY <1>c, <2>1, <2>3
  <2>6. Osx!CpuNamed'
    BY <1>h, <2>1, <2>3 DEF Osx!CpuNamed
  <2> QED BY <2>1, <2>3, <2>4, <2>5, <2>6 DEF Osx!IInv, Osx!Parsing
<1>8. CASE Osx!BySubtype
  <2>1. at = "subtype" /\ at' = "returned" /\ pos' = pos /\ got.parsed = 3
    BY <1>8 DEF Osx!BySubtype, Osx!IInv
  <2>3. got' \in Osx!Gathered
        /\ got'.strings = got.strings /\ got'.parsed = got.parsed
        /\ got'.cpu = IF host.cpu.subtype \in Osx!Specific THEN host.cpu.subtype ELSE got.cpu
    BY <1>0, <1>8 DEF Osx!BySubtype, Osx!Gathered, Osx!CpuNames
  <2>4. Osx!TypeOK'
    BY <1>0, <1>p, <1>t, <2>1, <2>3
  <2>5. Osx!Sound' => at' # "astray" /\ Osx!Copied'
    BY <1>c, <2>1, <2>3
  <2>6. Osx!CpuNamed'
    BY <1>h, <2>1, <2>3 DEF Osx!CpuNamed, Osx!IInv, Osx!CpuSays
  <2> QED BY <2>1, <2>3, <2>4, <2>5, <2>6 DEF Osx!IInv, Osx!Parsing
<1> QED BY <1>1, <1>2, <1>3, <1>4, <1>5, <1>6, <1>7, <1>8 DEF Osx!Next

LEMMA OsxTrue == Osx!IInv => Osx!PlistRead
<1> SUFFICES ASSUME Osx!IInv PROVE Osx!PlistRead
  OBVIOUS
<1>1. ASSUME at = "returned", Osx!Sound PROVE got.strings = <<Osx!Says(1), Osx!Says(2)>>
  <2>1. got.parsed = 3 /\ Osx!Copied /\ got.strings \in [1..2 -> Seq(Osx!Words)]
    BY <1>1 DEF Osx!IInv, Osx!TypeOK, Osx!Gathered
  <2>2. got.strings = <<got.strings[1], got.strings[2]>>
    BY <2>1
  <2> QED BY <2>1, <2>2 DEF Osx!Copied
<1> QED BY <1>1 DEF Osx!PlistRead, Osx!IInv, Osx!CpuNamed

-----------------------------------------------------------------------------
(* The clean up at the end of LINUX_GatherCPUInfo *)

\* A beginning of a text.
LEMMA Beginning ==
    ASSUME NEW W, NEW s \in Seq(W), NEW k \in 0..Len(s)
    PROVE  /\ SubSeq(s, 1, k) \in Seq(W) /\ Len(SubSeq(s, 1, k)) = k
           /\ \A i \in 1..k : SubSeq(s, 1, k)[i] = s[i]
           /\ Linux!IsPrefix(SubSeq(s, 1, k), s)
           /\ \A j \in 0..k : SubSeq(SubSeq(s, 1, k), 1, j) = SubSeq(s, 1, j)
<1>1. SubSeq(s, 1, k) \in Seq(W) /\ Len(SubSeq(s, 1, k)) = k /\ \A i \in 1..k : SubSeq(s, 1, k)[i] = s[i]
  OBVIOUS
<1>2. Linux!IsPrefix(SubSeq(s, 1, k), s)
  BY DEF Linux!IsPrefix
<1>3. ASSUME NEW j \in 0..k PROVE SubSeq(SubSeq(s, 1, k), 1, j) = SubSeq(s, 1, j)
  OBVIOUS
<1> QED BY <1>1, <1>2, <1>3

LEMMA CutAtKeeps ==
    ASSUME NEW W, NEW name \in Seq(W), NEW part
    PROVE  \E k \in 0..Len(name) :
             /\ Linux!CutAt(name, part) = SubSeq(name, 1, k)
             /\ \A i \in 1..k : name[i] # part
             /\ k < Len(name) => name[k + 1] = part
<1> DEFINE is == {i \in DOMAIN name : name[i] = part}
<1>1. DOMAIN name = 1..Len(name) /\ Len(name) \in Nat
  OBVIOUS
<1>2. is \in SUBSET Nat /\ is \subseteq 1..Len(name)
  BY <1>1
<1>3. CASE part \in Linux!Range(name)
  <2> DEFINE m == Linux!Min(is)
  <2>1. is # {}
    BY <1>3 DEF Linux!Range
  <2>2. m \in is /\ \A y \in is : m <= y
    BY <1>2, <2>1, LinuxMin
  <2>3. m \in 1..Len(name) /\ name[m] = part
    BY <1>2, <2>2
  <2>4. Linux!CutAt(name, part) = SubSeq(name, 1, m - 1)
    BY <1>3 DEF Linux!CutAt
  <2>5. \A i \in 1..(m - 1) : name[i] # part
    <3> SUFFICES ASSUME NEW i \in 1..(m - 1), name[i] = part PROVE FALSE
      OBVIOUS
    <3> HIDE DEF m
    <3>1. i \in 1..Len(name) /\ i < m
      BY <1>1, <2>3
    <3> QED BY <1>1, <2>2, <2>3, <3>1
  <2>6. m - 1 \in 0..Len(name) /\ (m - 1) + 1 = m
    BY <1>1, <2>3
  <2> HIDE DEF m
  <2> QED BY <2>3, <2>4, <2>5, <2>6
<1>4. CASE part \notin Linux!Range(name)
  <2>1. Linux!CutAt(name, part) = name /\ name = SubSeq(name, 1, Len(name))
    BY <1>4 DEF Linux!CutAt
  <2>2. \A i \in 1..Len(name) : name[i] # part
    <3> SUFFICES ASSUME NEW i \in 1..Len(name), name[i] = part PROVE FALSE
      OBVIOUS
    <3> QED BY <1>1, <1>4 DEF Linux!Range
  <2>3. Len(name) \in 0..Len(name) /\ ~ (Len(name) < Len(name))
    BY <1>1
  <2> HIDE DEF is
  <2> QED BY <2>1, <2>2, <2>3
<1> QED BY <1>3, <1>4

\* What stays of a name is its beginning, up to a part that is not wanted.
LEMMA CleanedKeeps ==
    ASSUME NEW W, NEW name \in Seq(W)
    PROVE  /\ Linux!IsPrefix(Linux!Cleaned(name), name)
           /\ Linux!Clock \notin Linux!Range(Linux!Cleaned(name))
           /\ Linux!Radeon \in Linux!Range(Linux!Cleaned(name)) => Linux!Cleaned(name) = <<Linux!Radeon>>
           /\ Linux!Cleaned(name) # name => name[Len(Linux!Cleaned(name)) + 1] \in {Linux!Radeon, Linux!Clock}
           /\ Linux!IsPrefix(Linux!Cleaned(name), Linux!Cleaned(name))
<1> DEFINE mid == IF Len(name) > 1 THEN Linux!CutAt(name, Linux!Radeon) ELSE name
           c == Linux!Cleaned(name)
<1>0. Len(name) \in Nat /\ name = SubSeq(name, 1, Len(name)) /\ DOMAIN name = 1..Len(name)
  OBVIOUS
<1>1. PICK k \in 0..Len(name) :
        /\ mid = SubSeq(name, 1, k)
        /\ Len(name) > 1 => \A i \in 1..k : name[i] # Linux!Radeon
        /\ k < Len(name) => name[k + 1] = Linux!Radeon
  <2>1. CASE Len(name) > 1
    BY <2>1, CutAtKeeps
  <2>2. CASE ~ (Len(name) > 1)
    <3>1. mid = SubSeq(name, 1, Len(name)) /\ Len(name) \in 0..Len(name) /\ ~ (Len(name) < Len(name))
      BY <1>0, <2>2
    <3> HIDE DEF mid
    <3> QED BY <2>2, <3>1
  <2> QED BY <2>1, <2>2
<1>2. mid \in Seq(W) /\ Len(mid) = k /\ \A i \in 1..k : mid[i] = name[i]
  BY <1>1, Beginning
<1>3. PICK j \in 0..Len(mid) :
        /\ Linux!CutAt(mid, Linux!Clock) = SubSeq(mid, 1, j)
        /\ \A i \in 1..j : mid[i] # Linux!Clock
        /\ j < Len(mid) => mid[j + 1] = Linux!Clock
  <2> HIDE DEF mid
  <2> QED BY <1>2, CutAtKeeps
<1>4. c = SubSeq(name, 1, j) /\ j \in 0..k /\ j \in 0..Len(name) /\ j \in Nat /\ k \in Nat
  <2>1. c = SubSeq(mid, 1, j)
    BY <1>3 DEF Linux!Cleaned
  <2> HIDE DEF c, mid
  <2>2. j \in 0..k /\ j \in 0..Len(name) /\ j \in Nat /\ k \in Nat
    BY <1>0, <1>1, <1>2, <1>3
  <2>3. SubSeq(SubSeq(name, 1, k), 1, j) = SubSeq(name, 1, j)
    BY <1>1, <2>2, Beginning
  <2> QED BY <1>1, <2>1, <2>2, <2>3
<1>5. c \in Seq(W) /\ Len(c) = j /\ DOMAIN c = 1..j /\ (\A i \in 1..j : c[i] = name[i]) /\ Linux!IsPrefix(c, name)
  BY <1>4, Beginning
<1>6. \A i \in 1..j : c[i] # Linux!Clock
  BY <1>2, <1>3, <1>4, <1>5
<1>7. Linux!Clock \notin Linux!Range(c)
  BY <1>5, <1>6 DEF Linux!Range
<1>8. ASSUME Linux!Radeon \in Linux!Range(c) PROVE c = <<Linux!Radeon>>
  <2>1. PICK i \in 1..j : name[i] = Linux!Radeon
    BY <1>5, <1>8 DEF Linux!Range
  <2>2. ~ (Len(name) > 1)
    BY <1>1, <1>4, <2>1
  <2>3. j = 1 /\ i = 1 /\ Len(c) = 1 /\ c[1] = Linux!Radeon
    BY <1>0, <1>4, <1>5, <2>1, <2>2
  <2> HIDE DEF c
  <2>4. c = <<c[1]>>
    BY <1>5, <2>3
  <2> QED BY <2>3, <2>4
<1>9. ASSUME c # name PROVE name[j + 1] \in {Linux!Radeon, Linux!Clock}
  <2>1. CASE j < k
    BY <1>2, <1>3, <1>4, <2>1
  <2>2. CASE j = k
    <3>1. k < Len(name)
      <4> HIDE DEF c
      <4>1. k # Len(name)
        BY <1>0, <1>4, <1>9, <2>2
      <4> HIDE DEF mid
      <4>2. k \in Nat /\ k <= Len(name) /\ Len(name) \in Nat
        BY <1>0, <1>1
      <4> QED BY <4>1, <4>2
    <3> QED BY <1>1, <2>2, <3>1
  <2> QED BY <1>4, <2>1, <2>2
<1>10. Linux!IsPrefix(c, c)
  BY <1>5 DEF Linux!IsPrefix
<1> HIDE DEF c
<1> QED BY <1>5, <1>7, <1>8, <1>9, <1>10 DEF c

-----------------------------------------------------------------------------
(* LINUX_GatherCPUInfo and cpuinfoFindLine *)

LEMMA LinuxKeys ==
    /\ Len(Linux!ModelKeys) = 5 /\ DOMAIN Linux!ModelKeys = 1..5
    /\ \A k \in 1..5 : Len(Linux!ModelKeys[k]) > 0
    /\ \A a : Len(Linux!CpuKey(a)) > 0
BY DEF Linux!ModelKeys, Linux!CpuKey

LEMMA LinuxHost ==
    ASSUME host \in Linux!Hosts
    PROVE  /\ host.arch \in {"x86", "ppc", "arm"} /\ host.plat = "linux"
           /\ Len(host.text) \in Nat /\ DOMAIN host.text = 1..Len(host.text)
           /\ Len(host.text) <= MaxLines
           /\ host.text # << >> => Len(host.text) > 0
           /\ \A i \in 1..Len(host.text) : host.text[i] \in CpuLine
           /\ host.compat \in Seq(STRING)
           /\ host.arch # "arm" => host.compat = << >>
<1>1. PICK arch \in {"x86", "ppc", "arm"} :
        /\ host.arch = arch /\ host.plat = "linux"
        /\ host.text \in Linux!BoundedSeq(CpuLines[arch], MaxLines)
        /\ host.compat \in IF arch = "arm" THEN Compats \cup {<< >>} ELSE {<< >>}
  BY DEF Linux!Hosts, Linux!HostsOf
<1>3. CpuLines[host.arch] \subseteq CpuLine
  BY <1>1, HostInfoAssumption
<1>4. PICK m \in 0..MaxLines : host.text \in [1..m -> CpuLines[host.arch]]
  BY <1>1 DEF Linux!BoundedSeq, Linux!SeqOf
<1>5. m \in Nat /\ host.text \in [1..m -> CpuLine]
  BY <1>3, <1>4, HostInfoAssumption
<1>6. host.text \in Seq(CpuLine) /\ Len(host.text) = m
  BY <1>5
<1>7. host.compat \in Seq(STRING)
  <2>1. host.compat \in Compats \cup {<< >>}
    BY <1>1
  <2>2. << >> \in Seq(STRING)
    OBVIOUS
  <2> QED BY <2>1, <2>2, HostInfoAssumption
<1>8. host.text # << >> => Len(host.text) > 0
  BY <1>6
<1>9. Len(host.text) <= MaxLines
  BY <1>4, <1>6, HostInfoAssumption
<1> QED BY <1>1, <1>5, <1>6, <1>7, <1>8, <1>9

\* Every text the function deals with is a sequence.
LEMMA LinuxTexts ==
    ASSUME host \in Linux!Hosts, NEW t \in Linux!Texts
    PROVE  \E W : t \in Seq(W)
<1>1. CASE t \in {<< >>, Linux!Unknown, <<"model">>}
  <2>1. ASSUME NEW w PROVE <<w>> \in Seq({w})
    OBVIOUS
  <2>2. << >> \in Seq({})
    OBVIOUS
  <2> QED BY <1>1, <2>1, <2>2 DEF Linux!Unknown
<1>2. CASE t = host.compat
  BY <1>2, LinuxHost
<1>3. CASE t \in Linux!Range(Linux!ArmNames)
  <2>1. t \in {<<"5", "3">>, <<"5", "7">>, <<"7", "8">>}
    BY <1>3 DEF Linux!Range, Linux!ArmNames
  <2>2. /\ <<"5", "3">> \in Seq({"5", "3"}) /\ <<"5", "7">> \in Seq({"5", "7"})
        /\ <<"7", "8">> \in Seq({"7", "8"})
    OBVIOUS
  <2> QED BY <2>1, <2>2
<1>4. CASE t \in {host.text[i].value : i \in DOMAIN host.text}
  <2>1. t \in Seq(STRING)
    BY <1>4, LinuxHost DEF CpuLine
  <2> QED BY <2>1
<1> QED BY <1>1, <1>2, <1>3, <1>4 DEF Linux!Texts

LEMMA ValueOfText ==
    ASSUME host \in Linux!Hosts, NEW key
    PROVE  Linux!ValueOf(key) \in Linux!Texts
<1> DEFINE is == {i \in DOMAIN host.text : Linux!HasNewline(i) /\ Linux!Fits(host.text[i], key)}
<1>1. is \in SUBSET Nat /\ is \subseteq DOMAIN host.text
  BY LinuxHost
<1>2. is # {} => Linux!Min(is) \in DOMAIN host.text
  <2> HIDE DEF is
  <2> QED BY <1>1, LinuxMin
<1>3. Linux!ValueOf(key) = IF is = {} THEN Linux!Unknown ELSE host.text[Linux!Min(is)].value
  BY DEF Linux!ValueOf
<1> HIDE DEF is
<1> QED BY <1>2, <1>3 DEF Linux!Texts

LEMMA ReadableText ==
    Linux!Readable(host.compat) \in Linux!Texts
<1> DEFINE is == {i \in DOMAIN Linux!ArmNames : Linux!Agrees(host.compat, Linux!ArmNames[i])}
<1>0. DOMAIN Linux!ArmNames = 1..3
  BY DEF Linux!ArmNames
<1>1. is \in SUBSET Nat /\ is \subseteq DOMAIN Linux!ArmNames
  BY <1>0
<1>2. is # {} => Linux!Min(is) \in DOMAIN Linux!ArmNames
  <2> HIDE DEF is
  <2> QED BY <1>1, LinuxMin
<1>3. Linux!Readable(host.compat) = IF is = {} THEN host.compat ELSE Linux!ArmNames[Linux!Min(is)]
  BY DEF Linux!Readable
<1> HIDE DEF is
<1> QED BY <1>2, <1>3 DEF Linux!Texts, Linux!Range

LEMMA RawText ==
    ASSUME host \in Linux!Hosts
    PROVE  Linux!Raw \in Linux!Texts
BY ValueOfText, ReadableText DEF Linux!Raw

\* No line that is empty fits a key.
LEMMA EmptyFitsNot ==
    ASSUME NEW line, line.key = << >>, NEW key, Len(key) > 0
    PROVE  ~ Linux!Fits(line, key)
BY DEF Linux!Fits, Linux!IsPrefix

\* Every line that has its newline, and fits the key asked for, is among these.
LinesFor(key) == {i \in DOMAIN host.text : Linux!HasNewline(i) /\ Linux!Fits(host.text[i], key)}

\* The line behind the last one looked at: there is none of those asked for
\* before it, and none after it if it has no newline.
LEMMA LinuxHere ==
    ASSUME host \in Linux!Hosts, host.text # << >>, pos \in 0..Len(host.text), Len(Linux!Key) > 0,
           \A i \in 1..pos : ~ (Linux!HasNewline(i) /\ Linux!Fits(host.text[i], Linux!Key))
    PROVE  /\ Linux!Here \in Nat /\ Linux!Here > pos
           /\ \A i \in 1..(Linux!Here - 1) : ~ (Linux!HasNewline(i) /\ Linux!Fits(host.text[i], Linux!Key))
           /\ Linux!HasNewline(Linux!Here) => Linux!Here \in 1..Len(host.text)
           /\ ~ Linux!HasNewline(Linux!Here) => LinesFor(Linux!Key) = {}
<1>0. Len(host.text) \in Nat /\ Len(host.text) > 0 /\ DOMAIN host.text = 1..Len(host.text) /\ pos \in Nat
  BY LinuxHost
<1>1. Linux!Here = pos + 1 \/ (pos = 0 /\ Linux!Here = 2 /\ host.text[1].key = << >>)
  BY DEF Linux!Here, Linux!LineBehind
<1>2. Linux!Here \in Nat /\ Linux!Here > pos
  BY <1>0, <1>1
<1>3. ASSUME NEW i \in 1..(Linux!Here - 1)
      PROVE  ~ (Linux!HasNewline(i) /\ Linux!Fits(host.text[i], Linux!Key))
  <2>1. CASE i \in 1..pos
    BY <2>1
  <2>2. CASE i \notin 1..pos
    <3>1. i = 1 /\ host.text[1].key = << >>
      BY <1>0, <1>1, <2>2
    <3> QED BY <3>1, EmptyFitsNot
  <2> QED BY <2>1, <2>2
<1>4. Linux!HasNewline(Linux!Here) => Linux!Here \in 1..Len(host.text)
  BY <1>0, <1>2 DEF Linux!HasNewline
<1>5. ASSUME ~ Linux!HasNewline(Linux!Here) PROVE LinesFor(Linux!Key) = {}
  <2> SUFFICES ASSUME NEW i \in 1..Len(host.text), Linux!HasNewline(i), Linux!Fits(host.text[i], Linux!Key)
               PROVE  FALSE
    BY <1>0 DEF LinesFor
  <2>1. i \in Nat /\ ~ (i \in 1..(Linux!Here - 1))
    BY <1>3
  <2>2. i >= Linux!Here
    BY <1>2, <2>1
  <2>3. Linux!HasNewline(Linux!Here)
    BY <1>0, <1>2, <2>1, <2>2 DEF Linux!HasNewline
  <2> QED BY <1>5, <2>3
<1> QED BY <1>2, <1>3, <1>4, <1>5

\* The first line that fits has the value.
LEMMA LinuxFirst ==
    ASSUME host \in Linux!Hosts, NEW key, NEW h \in 1..Len(host.text),
           Linux!HasNewline(h), Linux!Fits(host.text[h], key),
           \A i \in 1..(h - 1) : ~ (Linux!HasNewline(i) /\ Linux!Fits(host.text[i], key))
    PROVE  Linux!ValueOf(key) = host.text[h].value /\ Linux!HasLine(key)
<1>0. Len(host.text) \in Nat /\ DOMAIN host.text = 1..Len(host.text)
  BY LinuxHost
<1>1. LinesFor(key) \in SUBSET Nat /\ h \in LinesFor(key)
  BY <1>0 DEF LinesFor
<1>2. \A i \in LinesFor(key) : h <= i
  <2> SUFFICES ASSUME NEW i \in LinesFor(key), ~ (h <= i) PROVE FALSE
    OBVIOUS
  <2>1. i \in 1..Len(host.text) /\ Linux!HasNewline(i) /\ Linux!Fits(host.text[i], key)
    BY <1>0 DEF LinesFor
  <2>2. i \in 1..(h - 1)
    BY <1>0, <2>1
  <2> QED BY <2>1, <2>2
<1>3. Linux!Min(LinesFor(key)) = h
  BY <1>1, <1>2, LinuxLeast
<1> QED BY <1>0, <1>1, <1>3 DEF LinesFor, Linux!ValueOf, Linux!HasLine

LEMMA LinuxNone ==
    ASSUME NEW key, LinesFor(key) = {}
    PROVE  Linux!ValueOf(key) = Linux!Unknown /\ ~ Linux!HasLine(key)
<1>1. Linux!ValueOf(key) = Linux!Unknown
  BY DEF LinesFor, Linux!ValueOf
<1>2. ~ Linux!HasLine(key)
  BY DEF LinesFor, Linux!HasLine
<1> QED BY <1>1, <1>2

\* The key that is found first is the most useful one there is.
LEMMA FirstKey ==
    ASSUME NEW k \in 1..5, Linux!HasLine(Linux!ModelKeys[k]), \A j \in 1..(k - 1) : j \notin Linux!KeysFound
    PROVE  Linux!KeysFound # {} /\ Linux!Min(Linux!KeysFound) = k
<1>1. Linux!KeysFound \in SUBSET Nat /\ k \in Linux!KeysFound
  BY LinuxKeys DEF Linux!KeysFound
<1>2. \A j \in Linux!KeysFound : k <= j
  <2> SUFFICES ASSUME NEW j \in Linux!KeysFound, ~ (k <= j) PROVE FALSE
    OBVIOUS
  <2>1. j \in 1..5
    BY LinuxKeys DEF Linux!KeysFound
  <2>2. j \in 1..(k - 1)
    BY <2>1
  <2> QED BY <2>2
<1> QED BY <1>1, <1>2, LinuxLeast

LEMMA NoKey ==
    ASSUME \A k \in 1..5 : k \notin Linux!KeysFound
    PROVE  Linux!KeysFound = {}
BY LinuxKeys DEF Linux!KeysFound

LEMMA LinuxInit == Linux!Init => Linux!IInv
<1> SUFFICES ASSUME Linux!Init PROVE Linux!IInv
  OBVIOUS
<1>1. host \in Linux!Hosts /\ pos = 0 /\ got = [cpu |-> << >>, name |-> << >>, asked |-> 0]
      /\ at = (IF host.arch = "arm" THEN "name" ELSE "open")
      /\ (host.arch # "arm" => host.compat = << >>)
  BY LinuxHost DEF Linux!Init
<1>2. got \in Linux!Gathered
  <2>1. << >> \in Linux!Texts
    BY DEF Linux!Texts
  <2> QED BY <1>1, <2>1, LinuxKeys DEF Linux!Gathered
<1>3. Linux!TypeOK
  BY <1>1, <1>2, LinuxHost DEF Linux!TypeOK
<1>4. at # "name" => Linux!ArmNamed
  BY <1>1 DEF Linux!ArmNamed
<1> QED BY <1>1, <1>3, <1>4 DEF Linux!IInv

\* A text gathered, and the next key.
LEMMA LinuxGot ==
    ASSUME got \in Linux!Gathered, NEW t \in Linux!Texts, NEW n \in 0..5
    PROVE  /\ [got EXCEPT !.cpu = t, !.asked = n] \in Linux!Gathered
           /\ [got EXCEPT !.cpu = t, !.asked = n].cpu = t
           /\ [got EXCEPT !.cpu = t, !.asked = n].asked = n
           /\ [got EXCEPT !.cpu = t, !.asked = n].name = got.name
           /\ [got EXCEPT !.cpu = t] \in Linux!Gathered
           /\ [got EXCEPT !.cpu = t].cpu = t
           /\ [got EXCEPT !.cpu = t].asked = got.asked
           /\ [got EXCEPT !.cpu = t].name = got.name
           /\ [got EXCEPT !.name = t] \in Linux!Gathered
           /\ [got EXCEPT !.name = t].name = t
           /\ [got EXCEPT !.name = t].cpu = got.cpu
           /\ [got EXCEPT !.name = t].asked = got.asked
           /\ [got EXCEPT !.asked = n] \in Linux!Gathered
           /\ [got EXCEPT !.asked = n].asked = n
           /\ [got EXCEPT !.asked = n].cpu = got.cpu
           /\ [got EXCEPT !.asked = n].name = got.name
BY LinuxKeys DEF Linux!Gathered

\* What the search ends with is kept, and leads on to the machine's name or to
\* the clean up.
LEMMA LinuxFoundStep ==
    ASSUME Linux!IInv, at = "search", host' = host, pos' = 0, NEW value \in Linux!Texts,
           Linux!Found(value),
           got.asked = 0 => value = Linux!Raw /\ got.asked = 0,
           got.asked # 0 => value = IF Linux!KeysFound = {} THEN Linux!Unknown
                                    ELSE Linux!ValueOf(Linux!ModelKeys[Linux!Min(Linux!KeysFound)])
    PROVE  Linux!IInv'
<1>0. host \in Linux!Hosts /\ got \in Linux!Gathered /\ Linux!Searching /\ Linux!ArmNamed
      /\ (host.arch # "arm" => host.compat = << >>) /\ host.text # << >> /\ host.compat = << >>
  BY DEF Linux!IInv, Linux!TypeOK, Linux!Searching
<1>k. Linux!Gathered' = Linux!Gathered /\ Linux!Raw' = Linux!Raw /\ (host \in Linux!Hosts)'
  BY <1>0 DEF Linux!Gathered, Linux!Texts, Linux!Raw, Linux!ValueOf, Linux!HasNewline, Linux!Fits,
              Linux!Readable, Linux!Agrees
<1>p. pos' \in 0..Len(host.text)
  BY <1>0, LinuxHost
<1>1. CASE got.asked = 0
  <2>1. got' = [got EXCEPT !.cpu = value, !.asked = 1]
        /\ at' = (IF host.arch = "ppc" THEN "search" ELSE "clean")
    BY <1>1 DEF Linux!Found
  <2>2. got' \in Linux!Gathered /\ got'.cpu = value /\ got'.asked = 1 /\ got'.name = got.name
    <3>1. got \in Linux!Gathered /\ 1 \in 0..5
      BY <1>0
    <3> QED BY <2>1, <3>1, LinuxGot
  <2>3. Linux!TypeOK'
    BY <1>0, <1>k, <1>p, <2>1, <2>2 DEF Linux!TypeOK
  <2>4. Linux!ArmNamed'
    BY <1>0, <2>2 DEF Linux!ArmNamed
  <2>5. at' = "search" => Linux!Searching'
    BY <1>0, <1>1, <1>k, <2>1, <2>2 DEF Linux!Searching
  <2>6. at' = "clean" => Linux!PpcNamed'
    BY <2>1 DEF Linux!PpcNamed
  <2> QED BY <1>0, <1>1, <1>k, <2>1, <2>2, <2>3, <2>4, <2>5, <2>6 DEF Linux!IInv
<1>2. CASE got.asked # 0
  <2>1. got' = [got EXCEPT !.name = value] /\ at' = "clean"
    BY <1>2 DEF Linux!Found
  <2>2. got' \in Linux!Gathered /\ got'.cpu = got.cpu /\ got'.asked = got.asked /\ got'.name = value
    <3>1. got \in Linux!Gathered /\ 1 \in 0..5
      BY <1>0
    <3> QED BY <2>1, <3>1, LinuxGot
  <2>3. Linux!TypeOK'
    BY <1>0, <1>k, <1>p, <2>1, <2>2 DEF Linux!TypeOK
  <2>4. host.arch = "ppc" /\ got.cpu = Linux!Raw
    BY <1>0, <1>2, LinuxKeys DEF Linux!Searching, Linux!Gathered
  <2>5. Linux!ArmNamed'
    BY <2>4 DEF Linux!ArmNamed
  <2>6. Linux!PpcNamed'
    BY <1>2, <2>2 DEF Linux!PpcNamed, Linux!KeysFound, Linux!HasLine, Linux!ValueOf, Linux!HasNewline, Linux!Fits
  <2> QED BY <1>0, <1>k, <2>1, <2>2, <2>3, <2>4, <2>5, <2>6 DEF Linux!IInv
<1> QED BY <1>1, <1>2

LEMMA LinuxStep == Linux!IInv /\ Linux!Next => Linux!IInv'
<1> SUFFICES ASSUME Linux!IInv, Linux!Next PROVE Linux!IInv'
  OBVIOUS
<1>0. /\ host \in Linux!Hosts /\ got \in Linux!Gathered /\ pos \in 0..Len(host.text)
      /\ (host.arch # "arm" => host.compat = << >>)
      /\ 1 \in 0..5 /\ got.asked \in 0..5 /\ Len(host.text) \in Nat
  BY LinuxHost, LinuxKeys DEF Linux!IInv, Linux!TypeOK, Linux!Gathered
<1>h. host' = host
  BY DEF Linux!Next, Linux!Name, Linux!Open, Linux!NextLine, Linux!LineFound, Linux!NotFound,
         Linux!DeviceTree, Linux!CleanUp
<1>k. Linux!Gathered' = Linux!Gathered /\ Linux!Raw' = Linux!Raw /\ (host \in Linux!Hosts)'
  BY <1>0, <1>h DEF Linux!Gathered, Linux!Texts, Linux!Raw, Linux!ValueOf, Linux!HasNewline, Linux!Fits,
              Linux!Readable, Linux!Agrees
<1>t. ASSUME pos' \in 0..Len(host.text), got' \in Linux!Gathered,
             at' \in {"name", "open", "devicetree", "search", "clean", "returned", "failed"}
      PROVE  Linux!TypeOK'
  BY <1>h, <1>k, <1>t DEF Linux!TypeOK
<1>1. CASE Linux!Name
  <2>1. /\ at = "name" /\ at' = "open" /\ pos' = pos /\ pos = 0 /\ got.asked = 0 /\ got.cpu = << >>
        /\ got' = [got EXCEPT !.name = IF host.model = "whole" THEN <<"model">> ELSE Linux!Unknown]
    BY <1>1 DEF Linux!Name, Linux!IInv
  <2>2. (IF host.model = "whole" THEN <<"model">> ELSE Linux!Unknown) \in Linux!Texts
    BY DEF Linux!Texts
  <2>3. /\ got' \in Linux!Gathered /\ got'.asked = 0 /\ got'.cpu = << >>
        /\ got'.name = IF host.model = "whole" THEN <<"model">> ELSE Linux!Unknown
    BY <1>0, <2>1, <2>2, LinuxGot
  <2>4. Linux!TypeOK'
    BY <1>0, <1>t, <2>1, <2>3
  <2>5. <<"model">> # <<"Unknown">>
    OBVIOUS
  <2>6. Linux!ArmNamed'
    BY <1>h, <2>3, <2>5 DEF Linux!ArmNamed, Linux!Unknown
  <2> QED BY <1>0, <1>h, <2>1, <2>3, <2>4, <2>6 DEF Linux!IInv
<1>2. CASE Linux!Open
  <2>1. /\ at = "open" /\ pos' = pos /\ pos = 0 /\ got' = got /\ got.asked = 0 /\ got.cpu = << >> /\ Linux!ArmNamed
        /\ host.text = << >> => at' \in {"failed", "returned"}
        /\ host.text # << >> => at' = IF host.arch = "arm" THEN "devicetree" ELSE "search"
    BY <1>2 DEF Linux!Open, Linux!IInv
  <2>2. Linux!TypeOK'
    BY <1>0, <1>t, <2>1
  <2>3. Linux!ArmNamed'
    BY <1>h, <2>1 DEF Linux!ArmNamed
  <2>4. at' = "search" => Linux!Searching'
    BY <1>0, <1>h, <2>1 DEF Linux!Searching
  <2> QED BY <1>0, <1>h, <2>1, <2>2, <2>3, <2>4 DEF Linux!IInv
<1>3. CASE Linux!DeviceTree
  <2>1. /\ at = "devicetree" /\ pos' = pos /\ pos = 0 /\ got.asked = 0 /\ Linux!ArmNamed
        /\ host.arch = "arm" /\ host.text # << >>
    BY <1>3 DEF Linux!DeviceTree, Linux!IInv
  <2>2. CASE host.compat = << >>
    <3>1. at' = "search" /\ got' = got
      BY <1>3, <2>2 DEF Linux!DeviceTree
    <3>2. Linux!TypeOK'
      BY <1>0, <1>t, <2>1, <3>1
    <3>3. Linux!ArmNamed' /\ Linux!Searching'
      BY <1>h, <2>1, <2>2, <3>1 DEF Linux!ArmNamed, Linux!Searching
    <3> QED BY <1>0, <1>h, <2>1, <2>2, <3>1, <3>2, <3>3 DEF Linux!IInv
  <2>3. CASE host.compat # << >>
    <3>1. at' = "clean" /\ got' = [got EXCEPT !.cpu = Linux!Readable(host.compat)]
      BY <1>3, <2>3 DEF Linux!DeviceTree
    <3>2. Linux!Raw = Linux!Readable(host.compat)
      BY <2>3 DEF Linux!Raw
    <3>3. got' \in Linux!Gathered /\ got'.cpu = Linux!Raw /\ got'.name = got.name
      BY <1>0, <3>1, <3>2, ReadableText, LinuxGot
    <3>4. Linux!TypeOK'
      BY <1>0, <1>t, <2>1, <3>1, <3>3
    <3>5. Linux!ArmNamed' /\ Linux!PpcNamed'
      BY <1>h, <2>1, <3>3 DEF Linux!ArmNamed, Linux!PpcNamed
    <3> QED BY <1>0, <1>h, <1>k, <2>1, <3>1, <3>3, <3>4, <3>5 DEF Linux!IInv
  <2> QED BY <2>2, <2>3
<1>s. ASSUME at = "search"
      PROVE  /\ Linux!Searching /\ Linux!ArmNamed /\ host.text # << >> /\ host.compat = << >>
             /\ Len(Linux!Key) > 0
             /\ Linux!Here \in Nat /\ Linux!Here > pos
             /\ \A i \in 1..(Linux!Here - 1) : ~ (Linux!HasNewline(i) /\ Linux!Fits(host.text[i], Linux!Key))
             /\ Linux!HasNewline(Linux!Here) => Linux!Here \in 1..Len(host.text)
             /\ ~ Linux!HasNewline(Linux!Here) => LinesFor(Linux!Key) = {}
  <2>1. Linux!Searching /\ Linux!ArmNamed /\ host.text # << >>
    BY <1>s DEF Linux!IInv
  <2>2. Len(Linux!Key) > 0
    BY <1>0, LinuxKeys DEF Linux!Key
  <2> QED BY <1>0, <2>1, <2>2, LinuxHere DEF Linux!Searching
<1>4. CASE Linux!NextLine
  <2>1. /\ at = "search" /\ at' = at /\ pos' = Linux!Here /\ got' = got
        /\ Linux!HasNewline(Linux!Here) /\ ~ Linux!Fits(host.text[Linux!Here], Linux!Key)
    BY <1>4 DEF Linux!NextLine
  <2>2. Linux!TypeOK'
    BY <1>0, <1>s, <1>t, <2>1
  <2>3. Linux!ArmNamed'
    BY <1>h, <1>s, <2>1 DEF Linux!ArmNamed
  <2>4. \A i \in 1..Linux!Here : ~ (Linux!HasNewline(i) /\ Linux!Fits(host.text[i], Linux!Key))
    <3> SUFFICES ASSUME NEW i \in 1..Linux!Here PROVE ~ (Linux!HasNewline(i) /\ Linux!Fits(host.text[i], Linux!Key))
      OBVIOUS
    <3>1. i = Linux!Here \/ i \in 1..(Linux!Here - 1)
      BY <1>s, <2>1
    <3> QED BY <1>s, <2>1, <3>1
  <2>5. Linux!Searching'
    <3>1. \A i \in 1..pos' : ~ (Linux!HasNewline(i) /\ Linux!Fits(host.text[i], Linux!Key))'
      BY <1>h, <2>1, <2>4 DEF Linux!HasNewline, Linux!Fits, Linux!Key
    <3>2. Linux!KeysFound' = Linux!KeysFound
      BY <1>h DEF Linux!KeysFound, Linux!HasLine, Linux!HasNewline, Linux!Fits
    <3> QED BY <1>h, <1>k, <1>s, <2>1, <3>1, <3>2 DEF Linux!Searching
  <2> QED BY <1>0, <1>h, <2>1, <2>2, <2>3, <2>5 DEF Linux!IInv
<1>5. CASE Linux!LineFound
  <2> DEFINE value == host.text[Linux!Here].value
  <2>1. /\ at = "search" /\ pos' = 0 /\ Linux!Found(value)
        /\ Linux!HasNewline(Linux!Here) /\ Linux!Fits(host.text[Linux!Here], Linux!Key)
    BY <1>5 DEF Linux!LineFound
  <2>2. Linux!ValueOf(Linux!Key) = value /\ Linux!HasLine(Linux!Key)
    BY <1>0, <1>s, <2>1, LinuxFirst
  <2>3. value \in Linux!Texts
    BY <1>0, <2>2, ValueOfText
  <2>4. got.asked = 0 => value = Linux!Raw
    BY <1>s, <2>1, <2>2 DEF Linux!Raw, Linux!Key
  <2>5. ASSUME got.asked # 0
        PROVE  value = IF Linux!KeysFound = {} THEN Linux!Unknown
                       ELSE Linux!ValueOf(Linux!ModelKeys[Linux!Min(Linux!KeysFound)])
    <3>1. got.asked \in 1..5 /\ got.asked > 0 /\ Linux!Key = Linux!ModelKeys[got.asked]
      BY <1>0, <2>5 DEF Linux!Key
    <3>2. \A k \in 1..(got.asked - 1) : k \notin Linux!KeysFound
      BY <1>s, <2>1, <3>1 DEF Linux!Searching
    <3>3. Linux!KeysFound # {} /\ Linux!Min(Linux!KeysFound) = got.asked
      BY <2>2, <3>1, <3>2, FirstKey
    <3> QED BY <2>2, <3>1, <3>3
  <2> HIDE DEF value
  <2> QED BY <1>h, <2>1, <2>3, <2>4, <2>5, LinuxFoundStep
<1>6. CASE Linux!NotFound
  <2>1. at = "search" /\ pos' = 0 /\ ~ Linux!HasNewline(Linux!Here)
    BY <1>6 DEF Linux!NotFound
  <2>2. Linux!ValueOf(Linux!Key) = Linux!Unknown /\ ~ Linux!HasLine(Linux!Key)
    BY <1>s, <2>1, LinuxNone
  <2>3. Linux!Unknown \in Linux!Texts
    BY DEF Linux!Texts
  <2>4. ASSUME got.asked # 0
        PROVE  /\ got.asked \in 1..5 /\ host.arch = "ppc" /\ got.cpu = Linux!Raw
               /\ \A k \in 1..got.asked : k \notin Linux!KeysFound
    <3>1. got.asked \in 1..5 /\ got.asked > 0 /\ Linux!Key = Linux!ModelKeys[got.asked]
      BY <1>0, <2>4 DEF Linux!Key
    <3>2. /\ host.arch = "ppc" /\ got.cpu = Linux!Raw
          /\ \A k \in 1..(got.asked - 1) : k \notin Linux!KeysFound
      BY <1>s, <2>1, <3>1 DEF Linux!Searching
    <3>3. got.asked \notin Linux!KeysFound
      BY <2>2, <3>1 DEF Linux!KeysFound
    <3>4. \A k \in 1..got.asked : k = got.asked \/ k \in 1..(got.asked - 1)
      BY <3>1
    <3> QED BY <3>1, <3>2, <3>3, <3>4
  <2>5. CASE got.asked \in 1..4
    <3>1. got' = [got EXCEPT !.asked = got.asked + 1] /\ at' = "search"
      BY <1>6, <2>1, <2>5, LinuxKeys DEF Linux!NotFound
    <3>2. got.asked + 1 \in 0..5 /\ got.asked # 0
      BY <2>5
    <3>3. /\ got' \in Linux!Gathered /\ got'.asked = got.asked + 1
          /\ got'.cpu = got.cpu /\ got'.name = got.name
      BY <1>0, <2>3, <3>1, <3>2, LinuxGot
    <3>4. Linux!TypeOK'
      BY <1>0, <1>t, <2>1, <3>1, <3>3
    <3>5. Linux!ArmNamed'
      BY <1>h, <1>s, <2>1, <3>3 DEF Linux!ArmNamed
    <3>6. Linux!KeysFound' = Linux!KeysFound
      BY <1>h DEF Linux!KeysFound, Linux!HasLine, Linux!HasNewline, Linux!Fits
    <3>7. got'.asked - 1 = got.asked
      BY <2>5, <3>3
    <3>8. Linux!Searching'
      BY <1>h, <1>k, <1>s, <2>1, <2>4, <3>2, <3>3, <3>6, <3>7 DEF Linux!Searching
    <3> QED BY <1>0, <1>h, <1>s, <2>1, <3>1, <3>4, <3>5, <3>8 DEF Linux!IInv
  <2>6. CASE got.asked \notin 1..4 /\ host.arch = "x86"
    <3>1. got' = [got EXCEPT !.cpu = Linux!Unknown] /\ at' = "failed"
      BY <1>6, <2>6, LinuxKeys DEF Linux!NotFound
    <3>2. got' \in Linux!Gathered
      BY <1>0, <2>3, <3>1, LinuxGot
    <3>3. Linux!TypeOK'
      BY <1>0, <1>t, <2>1, <3>1, <3>2
    <3>4. got.asked = 0
      BY <2>4, <2>6
    <3>5. ~ Linux!HasLine(<<"model", "name">>)
      BY <2>2, <2>6, <3>4 DEF Linux!Key, Linux!CpuKey
    <3>6. Linux!ArmNamed'
      BY <1>h, <2>6 DEF Linux!ArmNamed
    <3>7. ~ Linux!HasLine(<<"model", "name">>)'
      BY <1>h, <3>5 DEF Linux!HasLine, Linux!HasNewline, Linux!Fits
    <3> QED BY <1>0, <1>h, <2>6, <3>1, <3>3, <3>6, <3>7 DEF Linux!IInv
  <2>7. CASE got.asked \notin 1..4 /\ host.arch # "x86"
    <3>1. Linux!Found(Linux!Unknown)
      BY <1>6, <2>7, LinuxKeys DEF Linux!NotFound
    <3>2. got.asked = 0 => Linux!Unknown = Linux!Raw
      BY <1>s, <2>1, <2>2 DEF Linux!Raw, Linux!Key
    <3>3. ASSUME got.asked # 0 PROVE Linux!KeysFound = {}
      <4>1. got.asked = 5
        BY <1>0, <2>7, <3>3
      <4> QED BY <2>4, <4>1, NoKey
    <3> QED BY <1>h, <2>1, <2>3, <3>1, <3>2, <3>3, LinuxFoundStep
  <2> QED BY <2>5, <2>6, <2>7
<1>7. CASE Linux!CleanUp
  <2>1. /\ at = "clean" /\ at' = "returned" /\ pos' = pos /\ got.cpu = Linux!Raw /\ host.text # << >>
        /\ Linux!PpcNamed /\ Linux!ArmNamed /\ got' = [got EXCEPT !.cpu = Linux!Cleaned(got.cpu)]
    BY <1>7 DEF Linux!CleanUp, Linux!IInv
  <2>2. Linux!Raw \in Linux!Texts
    BY <1>0, RawText
  <2>3. got' \in Linux!Gathered /\ got'.cpu = Linux!Cleaned(Linux!Raw) /\ got'.name = got.name
    BY <1>0, <2>1, <2>2 DEF Linux!Gathered
  <2>4. Linux!TypeOK'
    BY <1>0, <1>t, <2>1, <2>3
  <2>5. Linux!ArmNamed'
    BY <1>h, <2>1, <2>3 DEF Linux!ArmNamed
  <2>6. Linux!PpcNamed'
    BY <1>h, <2>1, <2>3 DEF Linux!PpcNamed, Linux!KeysFound, Linux!HasLine, Linux!ValueOf, Linux!HasNewline, Linux!Fits
  <2>7. Linux!Cleaned(Linux!Raw)' = Linux!Cleaned(Linux!Raw)
    BY <1>k
  <2> QED BY <1>0, <1>h, <1>k, <2>1, <2>3, <2>4, <2>5, <2>6, <2>7 DEF Linux!IInv
<1> QED BY <1>1, <1>2, <1>3, <1>4, <1>5, <1>6, <1>7 DEF Linux!Next

\* The first line found is one with the key asked for, or an earlier one that is
\* mistaken for it.
LEMMA ValueAmong ==
    ASSUME host \in Linux!Hosts, NEW key, Linux!IsPrefix(key, key)
    PROVE  Linux!ValueOf(key) \in Linux!Values(key)
<1> DEFINE lines == Linux!LinesOf(key)
           mistaken == Linux!Mistaken(key)
           m == Linux!Min(LinesFor(key))
<1>1. /\ LinesFor(key) \in SUBSET Nat /\ lines \in SUBSET Nat
      /\ LinesFor(key) \subseteq DOMAIN host.text
  BY LinuxHost DEF LinesFor, Linux!LinesOf
<1>2. lines = {i \in LinesFor(key) : host.text[i].key = key}
  BY DEF LinesFor, Linux!LinesOf, Linux!Fits
<1>3. mistaken = {i \in LinesFor(key) : host.text[i].key # key /\ \A j \in lines : i < j}
  BY DEF LinesFor, Linux!Mistaken
<1>4. Linux!ValueOf(key) = IF LinesFor(key) = {} THEN Linux!Unknown ELSE host.text[m].value
  BY DEF Linux!ValueOf, LinesFor
<1>5. Linux!Values(key) = IF mistaken # {} THEN {host.text[i].value : i \in mistaken}
                          ELSE IF lines # {} THEN {host.text[Linux!Min(lines)].value} ELSE {Linux!Unknown}
  BY DEF Linux!Values
<1> HIDE DEF lines, mistaken
<1>6. CASE LinesFor(key) = {}
  BY <1>2, <1>3, <1>4, <1>5, <1>6
<1>7. CASE LinesFor(key) # {}
  <2>1. m \in LinesFor(key) /\ m \in Nat /\ \A i \in LinesFor(key) : m <= i
    BY <1>1, <1>7, LinuxMin
  <2> HIDE DEF m
  <2>2. CASE host.text[m].key = key
    <3>1. m \in lines /\ \A i \in lines : m <= i
      BY <1>2, <2>1, <2>2
    <3>2. Linux!Min(lines) = m
      BY <1>1, <3>1, LinuxLeast
    <3>3. mistaken = {}
      <4> SUFFICES ASSUME NEW i \in mistaken PROVE FALSE
        OBVIOUS
      <4>1. i \in LinesFor(key) /\ i < m /\ i \in Nat
        BY <1>1, <1>3, <3>1
      <4> QED BY <2>1, <4>1
    <3> QED BY <1>4, <1>5, <1>7, <3>1, <3>2, <3>3
  <2>3. CASE host.text[m].key # key
    <3>1. \A j \in lines : m < j
      <4> SUFFICES ASSUME NEW j \in lines PROVE m < j
        OBVIOUS
      <4>1. j \in LinesFor(key) /\ j # m /\ j \in Nat
        BY <1>1, <1>2, <2>3
      <4> QED BY <2>1, <4>1
    <3>2. m \in mistaken
      BY <1>3, <2>1, <2>3, <3>1
    <3> QED BY <1>4, <1>5, <1>7, <3>2
  <2> QED BY <2>2, <2>3
<1> QED BY <1>6, <1>7

\* The name found for a model of the device tree is one that agrees with it, and
\* its own if there is none other.
LEMMA ReadableAmong ==
    ASSUME host.compat # << >>
    PROVE  Linux!Readable(host.compat) \in Linux!RawNames
<1> DEFINE c == host.compat
           is == {i \in DOMAIN Linux!ArmNames : Linux!Agrees(c, Linux!ArmNames[i])}
<1>1. DOMAIN Linux!ArmNames = 1..3
  BY DEF Linux!ArmNames
<1>2. is \in SUBSET Nat /\ is \subseteq DOMAIN Linux!ArmNames
  BY <1>1
<1>3. Linux!Alike(c) = {Linux!ArmNames[i] : i \in is}
  BY DEF Linux!Alike, Linux!Range
<1>4. Linux!Readable(c) = IF is = {} THEN c ELSE Linux!ArmNames[Linux!Min(is)]
  BY DEF Linux!Readable
<1>5. is # {} => Linux!Min(is) \in is
  <2> HIDE DEF is
  <2> QED BY <1>2, LinuxMin
<1>6. ASSUME c \in Linux!Range(Linux!ArmNames) PROVE Linux!Readable(c) = c
  <2>1. \A a \in Linux!Range(Linux!ArmNames) : \A b \in Linux!Range(Linux!ArmNames) :
          Linux!IsPrefix(a, b) => a = b
    BY DEF Linux!Range, Linux!ArmNames, Linux!IsPrefix
  <2>2. \A i \in is : Linux!ArmNames[i] = c
    BY <1>6, <2>1 DEF Linux!Agrees, Linux!Range
  <2> HIDE DEF is
  <2> QED BY <1>4, <1>5, <2>2
<1> HIDE DEF is
<1>7. CASE is = {}
  BY <1>3, <1>4, <1>7 DEF Linux!RawNames
<1>8. CASE is # {}
  <2>1. Linux!Readable(c) \in Linux!Alike(c)
    BY <1>3, <1>4, <1>5, <1>8
  <2> QED BY <1>3, <1>6, <1>8, <2>1 DEF Linux!RawNames
<1> QED BY <1>7, <1>8

LEMMA LinuxTrue == Linux!IInv => Linux!LinuxNamed
<1> SUFFICES ASSUME Linux!IInv PROVE Linux!LinuxNamed
  OBVIOUS
<1>1. host \in Linux!Hosts /\ (host.arch # "arm" => host.compat = << >>)
  BY DEF Linux!IInv, Linux!TypeOK
<1>2. /\ \A a : Linux!IsPrefix(Linux!CpuKey(a), Linux!CpuKey(a))
      /\ \A k \in 1..5 : Linux!IsPrefix(Linux!ModelKeys[k], Linux!ModelKeys[k])
  BY DEF Linux!CpuKey, Linux!ModelKeys, Linux!IsPrefix
<1>3. ASSUME at = "returned", host.text # << >>
      PROVE  \E raw \in Linux!RawNames : Linux!Shortened(got.cpu, raw)
  <2> DEFINE raw == Linux!Raw
  <2>1. got.cpu = Linux!Cleaned(raw)
    BY <1>3 DEF Linux!IInv
  <2>2. PICK W : raw \in Seq(W)
    BY <1>1, RawText, LinuxTexts
  <2>3. raw \in Linux!RawNames
    <3>1. CASE host.compat = << >>
      BY <1>1, <1>2, <3>1, ValueAmong DEF Linux!Raw, Linux!RawNames
    <3>2. CASE host.compat # << >>
      BY <3>2, ReadableAmong DEF Linux!Raw
    <3> QED BY <3>1, <3>2
  <2> HIDE DEF raw
  <2>4. Linux!Shortened(got.cpu, raw)
    BY <2>1, <2>2, CleanedKeeps DEF Linux!Shortened
  <2> QED BY <2>3, <2>4
<1>4. ASSUME at = "returned", host.text # << >>, host.arch = "ppc" PROVE got.name \in Linux!MachineNames
  <2>1. got.name = IF Linux!KeysFound = {} THEN Linux!Unknown
                   ELSE Linux!ValueOf(Linux!ModelKeys[Linux!Min(Linux!KeysFound)])
    BY <1>4 DEF Linux!IInv, Linux!PpcNamed
  <2>2. CASE Linux!KeysFound = {}
    BY <2>1, <2>2 DEF Linux!MachineNames
  <2>3. CASE Linux!KeysFound # {}
    <3>1. Linux!KeysFound \in SUBSET Nat /\ Linux!KeysFound \subseteq 1..5
      BY LinuxKeys DEF Linux!KeysFound
    <3>2. Linux!Min(Linux!KeysFound) \in 1..5
      BY <2>3, <3>1, LinuxMin
    <3> QED BY <1>1, <1>2, <2>1, <2>3, <3>2, ValueAmong DEF Linux!MachineNames
  <2> QED BY <2>2, <2>3
<1>5. ASSUME at = "returned"
      PROVE  /\ host.text = << >> => got.cpu = << >>
             /\ host.arch = "arm" => (got.name = Linux!Unknown) = (host.model # "whole")
  BY <1>5 DEF Linux!IInv, Linux!ArmNamed
<1>6. at = "failed" => host.text = << >> \/ (host.arch = "x86" /\ ~ Linux!HasLine(<<"model", "name">>))
  BY DEF Linux!IInv
<1> QED BY <1>3, <1>4, <1>5, <1>6 DEF Linux!LinuxNamed

-----------------------------------------------------------------------------
(* The host *)

\* A step of the search of DeviceInfo leaves the parsers' state as it is.
LEMMA LinuxSame == UNCHANGED hvars /\ Linux!IInv => Linux!IInv'
<1> SUFFICES ASSUME UNCHANGED hvars, Linux!IInv PROVE Linux!IInv'
  OBVIOUS
<1>h. host' = host /\ at' = at /\ pos' = pos /\ got' = got
  BY DEF hvars
<1>1. Linux!Raw' = Linux!Raw /\ Linux!Gathered' = Linux!Gathered
  BY <1>h DEF Linux!Gathered, Linux!Texts, Linux!Raw, Linux!ValueOf, Linux!HasNewline, Linux!Fits,
              Linux!Readable, Linux!Agrees
<1>2. Linux!KeysFound' = Linux!KeysFound
  BY <1>h DEF Linux!KeysFound, Linux!HasLine, Linux!HasNewline, Linux!Fits
<1>3. Linux!TypeOK' = Linux!TypeOK
  BY <1>h, <1>1 DEF Linux!TypeOK
<1>4. Linux!PpcNamed' = Linux!PpcNamed /\ Linux!ArmNamed' = Linux!ArmNamed
  BY <1>h DEF Linux!PpcNamed, Linux!ArmNamed, Linux!KeysFound, Linux!HasLine, Linux!ValueOf,
              Linux!HasNewline, Linux!Fits
<1>5. Linux!Searching' = Linux!Searching
  BY <1>h, <1>1, <1>2 DEF Linux!Searching, Linux!HasNewline, Linux!Fits, Linux!Key
<1>6. Linux!Cleaned(Linux!Raw)' = Linux!Cleaned(Linux!Raw)
  BY <1>1
<1>7. Linux!HasLine(<<"model", "name">>)' <=> Linux!HasLine(<<"model", "name">>)
  BY <1>h DEF Linux!HasLine, Linux!HasNewline, Linux!Fits
<1> QED BY <1>h, <1>1, <1>3, <1>4, <1>5, <1>6, <1>7 DEF Linux!IInv

LEMMA DosSame == UNCHANGED hvars /\ Dos!IInv => Dos!IInv'
BY DEF hvars, Dos!IInv, Dos!Identified, Dos!Vendor

LEMMA OsxSame == UNCHANGED hvars /\ Osx!IInv => Osx!IInv'
<1> SUFFICES ASSUME UNCHANGED hvars, Osx!IInv PROVE Osx!IInv'
  OBVIOUS
<1>h. host' = host /\ at' = at /\ pos' = pos /\ got' = got
  BY DEF hvars
<1>1. Osx!TypeOK'
  BY <1>h, OsxFile DEF Osx!IInv, Osx!TypeOK
<1>2. Osx!Parsing'
  BY <1>h DEF Osx!IInv, Osx!Parsing, Osx!KeyAt, Osx!StringAt, Osx!Positions
<1>3. ASSUME Osx!Sound PROVE Osx!Copied'
  <2>1. \A k \in 1..2 : k < got'.parsed => got'.strings[k] = Osx!Says(k)
    BY <1>h, <1>3 DEF Osx!IInv, Osx!Copied
  <2> QED BY <1>h, <2>1, OsxFile DEF Osx!Copied
<1>4. Osx!CpuNamed'
  BY <1>h DEF Osx!IInv, Osx!CpuNamed, Osx!CpuSays
<1> QED BY <1>h, <1>1, <1>2, <1>3, <1>4, OsxFile DEF Osx!IInv

LEMMA DeviceKnownIInv == DeviceKnown => IInv
<1> SUFFICES ASSUME DeviceKnown PROVE IInv
  OBVIOUS
<1> USE DeviceInfoAssumption
<1>1. 1 \in 1..(NPaths + 2) /\ 1 \in 0..Unknown
  BY DEF Unknown
<1>2. "model" \in Contents /\ TRUE \in BOOLEAN
  BY DEF Contents
<1>3. files \in [1..NPaths -> Contents] /\ files[1] = "model"
  BY <1>2 DEF DeviceKnown
<1>4. sysVendor \in {"garbage", "model"} /\ hasVendor = TRUE /\ hasVendor \in BOOLEAN
  BY Zenon DEF DeviceKnown
<1>5. TypeOK
  BY <1>1, <1>2, <1>3, <1>4 DEF DeviceKnown, TypeOK
<1>6. Useful(model) /\ \A j \in 1..(model - 1) : ~ Useful(j)
  BY <1>3 DEF DeviceKnown, Useful
<1>7. FirstUseful
  BY <1>4, <1>6 DEF FirstUseful
<1> QED BY <1>5, <1>7 DEF DeviceKnown, IInv

LEMMA InitHInv == HInit => HInv
<1>1. CASE Init /\ host = [plat |-> "dmi"]
  BY <1>1, InitIInv DEF HInv
<1>2. CASE DeviceKnown /\ Linux!Init
  <2>1. host.plat = "linux"
    BY <1>2, LinuxHost DEF Linux!Init
  <2> QED BY <1>2, <2>1, DeviceKnownIInv, LinuxInit DEF HInv
<1>3. CASE DeviceKnown /\ Dos!Init
  <2>1. host.plat = "dos"
    BY <1>3 DEF Dos!Init, Dos!Hosts
  <2> QED BY <1>3, <2>1, DeviceKnownIInv, DosInit DEF HInv
<1>4. CASE DeviceKnown /\ Osx!Init
  <2>1. host.plat = "osx"
    BY <1>4, HostInfoAssumption DEF Osx!Init
  <2> QED BY <1>4, <2>1, DeviceKnownIInv, OsxInit DEF HInv
<1> QED BY <1>1, <1>2, <1>3, <1>4 DEF HInit

LEMMA StepHInv == HInv /\ [HNext]_<<vars, hvars>> => HInv'
<1> SUFFICES ASSUME HInv, [HNext]_<<vars, hvars>> PROVE HInv'
  OBVIOUS
<1>1. CASE [Next]_vars /\ UNCHANGED hvars
  <2>1. IInv'
    BY <1>1, StepIInv DEF HInv
  <2>2. host' = host
    BY <1>1 DEF hvars
  <2> QED BY <1>1, <2>1, <2>2, LinuxSame, DosSame, OsxSame DEF HInv
<1>2. CASE host.plat = "linux" /\ Linux!Next /\ UNCHANGED vars
  <2>1. IInv' /\ Linux!IInv'
    BY <1>2, StepIInv, LinuxStep DEF HInv
  <2>2. host' = host
    BY <1>2 DEF Linux!Next, Linux!Name, Linux!Open, Linux!NextLine, Linux!LineFound, Linux!NotFound,
                Linux!DeviceTree, Linux!CleanUp
  <2> QED BY <1>2, <2>1, <2>2 DEF HInv
<1>3. CASE host.plat = "dos" /\ Dos!Next /\ UNCHANGED vars
  <2>1. IInv' /\ Dos!IInv'
    BY <1>3, StepIInv, DosStep DEF HInv
  <2>2. host' = host
    BY <1>3 DEF Dos!Next, Dos!Install, Dos!Fault, Dos!Identify, Dos!Out
  <2> QED BY <1>3, <2>1, <2>2 DEF HInv
<1>4. CASE host.plat = "osx" /\ Osx!Next /\ UNCHANGED vars
  <2>1. IInv' /\ Osx!IInv'
    BY <1>4, StepIInv, OsxStep DEF HInv
  <2>2. host' = host
    BY <1>4 DEF Osx!Next, Osx!Open, Osx!Advance, Osx!Fallback, Osx!CopyString, Osx!NoEnd,
                Osx!CpuFails, Osx!ByFamily, Osx!BySubtype
  <2> QED BY <1>4, <2>1, <2>2 DEF HInv
<1>5. CASE HRest
  <2>1. UNCHANGED vars /\ UNCHANGED hvars
    BY <1>5 DEF HRest
  <2> QED BY <1>1, <2>1
<1> QED BY <1>1, <1>2, <1>3, <1>4, <1>5 DEF HNext

\* What every reachable state of a host satisfies.
THEOREM HInvariant == HSpec => []HInv
BY InitHInv, StepHInv, PTL DEF HSpec

\* Whatever the files of a host say, however many lines, tags and texts they
\* have and in whatever order, what is gathered from them is what they say.
THEOREM NamesTrueCorrect == HSpec => []NamesTrue
<1>1. HInv => NamesTrue
  <2> SUFFICES ASSUME HInv PROVE NamesTrue
    OBVIOUS
  <2>1. CASE host.plat = "linux"
    BY <2>1, LinuxTrue DEF HInv, NamesTrue
  <2>2. CASE host.plat = "dos"
    BY <2>2, DosTrue DEF HInv, NamesTrue
  <2>3. CASE host.plat = "osx"
    BY <2>3, OsxTrue DEF HInv, NamesTrue
  <2>4. CASE host.plat = "dmi"
    BY <2>4 DEF NamesTrue
  <2> QED BY <2>1, <2>2, <2>3, <2>4 DEF HInv
<1> QED BY <1>1, HInvariant, PTL

-----------------------------------------------------------------------------
(* FindsModel and GatherEnds.  Every step brings the function that runs     *)
(* nearer to its end: Effort counts the steps it may still take.  Induction *)
(* over it is not to be had below <>, so that a number has to be named:     *)
(* 8192 steps.                                                              *)

DmiEffort == IF pc = "vendor" THEN NPaths + 2 ELSE IF pc = "tryGetModel" THEN NPaths + 2 - idx ELSE 0

\* The turns left to cpuinfoFindLine: the rest of this search, and one through
\* the whole file for each key not asked for yet.
Turns(asked, p) == (5 - asked) * (Len(host.text) + 1) + (Len(host.text) - p)

LinuxEffort ==
    CASE at = "name" -> Turns(0, 0) + 5
      [] at = "open" -> Turns(0, 0) + 4
      [] at = "devicetree" -> Turns(0, 0) + 3
      [] at = "search" -> Turns(got.asked, pos) + 2
      [] at = "clean" -> 1
      [] OTHER -> 0

DosEffort == IF at = "enter" THEN 3 ELSE IF at = "cpuid" THEN 2 ELSE IF at = "out" THEN 1 ELSE 0

OsxEffort ==
    CASE at = "open" -> 9
      [] at = "key" -> 11 - 3 * got.parsed
      [] at = "string" -> 10 - 3 * got.parsed
      [] at = "end" -> 9 - 3 * got.parsed
      [] at = "cpu" -> 2
      [] at = "subtype" -> 1
      [] OTHER -> 0

Effort ==
    CASE host.plat = "dmi" -> DmiEffort
      [] host.plat = "linux" -> LinuxEffort
      [] host.plat = "dos" -> DosEffort
      [] host.plat = "osx" -> OsxEffort

\* Only one of the functions runs.
OneRuns == IF host.plat = "dmi" THEN at = "idle" ELSE pc = "done"

LEMMA TurnsArithmetic ==
    ASSUME NEW n \in Nat, NEW a \in 0..5, NEW p \in 0..n, NEW q \in 0..n
    PROVE  /\ (5 - a) * (n + 1) + (n - p) \in Nat
           /\ p < q => (5 - a) * (n + 1) + (n - q) < (5 - a) * (n + 1) + (n - p)
           /\ a < 5 => (5 - (a + 1)) * (n + 1) + (n - 0) < (5 - a) * (n + 1) + (n - p)
           /\ (5 - 0) * (n + 1) + (n - 0) = 6 * n + 5
<1>1. a \in {0, 1, 2, 3, 4, 5}
  OBVIOUS
<1>2. CASE a = 0
  BY <1>2
<1>3. CASE a = 1
  BY <1>3
<1>4. CASE a = 2
  BY <1>4
<1>5. CASE a = 3
  BY <1>5
<1>6. CASE a = 4
  BY <1>6
<1>7. CASE a = 5
  BY <1>7
<1> QED BY <1>1, <1>2, <1>3, <1>4, <1>5, <1>6, <1>7

LEMMA TurnsType ==
    ASSUME host \in Linux!Hosts, NEW a \in 0..5, NEW p \in 0..Len(host.text)
    PROVE  /\ Turns(a, p) \in Nat
           /\ \A q \in 0..Len(host.text) : p < q => Turns(a, q) < Turns(a, p)
           /\ a < 5 => Turns(a + 1, 0) < Turns(a, p)
           /\ Turns(0, 0) = 6 * Len(host.text) + 5
<1>1. Len(host.text) \in Nat /\ 0 \in 0..Len(host.text)
  BY LinuxHost
<1> DEFINE n == Len(host.text)
<1>2. n \in Nat /\ p \in 0..n /\ 0 \in 0..n
  BY <1>1
<1>3. \A b, c : Turns(b, c) = (5 - b) * (n + 1) + (n - c)
  BY DEF Turns
<1> HIDE DEF n
<1>4. \A q \in 0..n : p < q => Turns(a, q) < Turns(a, p)
  BY <1>2, <1>3, TurnsArithmetic
<1>5. Turns(a, p) \in Nat /\ Turns(0, 0) = 6 * n + 5 /\ (a < 5 => Turns(a + 1, 0) < Turns(a, p))
  BY <1>2, <1>3, TurnsArithmetic
<1> QED BY <1>4, <1>5 DEF n

LEMMA LinuxEffortFalls ==
    ASSUME Linux!IInv, Linux!Next
    PROVE  LinuxEffort' < LinuxEffort
<1>0. /\ host \in Linux!Hosts /\ got \in Linux!Gathered /\ pos \in 0..Len(host.text)
      /\ got.asked \in 0..5 /\ Len(host.text) \in Nat /\ 0 \in 0..Len(host.text) /\ 0 \in 0..5
  BY LinuxHost, LinuxKeys DEF Linux!IInv, Linux!TypeOK, Linux!Gathered
<1>h. host' = host
  BY DEF Linux!Next, Linux!Name, Linux!Open, Linux!NextLine, Linux!LineFound, Linux!NotFound,
         Linux!DeviceTree, Linux!CleanUp
<1>t. /\ Turns(0, 0) \in Nat /\ Turns(0, 0)' = Turns(0, 0) /\ Turns(got.asked, pos) \in Nat
      /\ Turns(got.asked, pos)' = Turns(got'.asked, pos')
  BY <1>0, <1>h, TurnsType DEF Turns
<1>1. CASE Linux!Name
  <2>1. at = "name" /\ at' = "open"
    BY <1>1 DEF Linux!Name
  <2>2. LinuxEffort = Turns(0, 0) + 5 /\ LinuxEffort' = Turns(0, 0) + 4
    BY <1>t, <2>1 DEF LinuxEffort
  <2> QED BY <1>t, <2>2
<1>2. CASE Linux!Open
  <2>1. at = "open" /\ at' \in {"failed", "returned", "devicetree", "search"} /\ got' = got /\ pos' = pos
        /\ pos = 0 /\ got.asked = 0
    BY <1>2 DEF Linux!Open, Linux!IInv
  <2>2. Turns(got.asked, pos)' = Turns(0, 0)
    BY <1>t, <2>1
  <2>3. LinuxEffort = Turns(0, 0) + 4
    BY <2>1 DEF LinuxEffort
  <2>4. LinuxEffort' \in {0, Turns(0, 0) + 3, Turns(0, 0) + 2}
    BY <1>t, <2>1, <2>2 DEF LinuxEffort
  <2> QED BY <1>t, <2>3, <2>4
<1>3. CASE Linux!DeviceTree
  <2>1. at = "devicetree" /\ pos' = pos /\ pos = 0 /\ got.asked = 0
        /\ (at' = "clean" \/ (at' = "search" /\ got' = got))
    BY <1>3 DEF Linux!DeviceTree, Linux!IInv
  <2>2. LinuxEffort = Turns(0, 0) + 3
    BY <2>1 DEF LinuxEffort
  <2>3. LinuxEffort' \in {1, Turns(0, 0) + 2}
    BY <1>t, <2>1 DEF LinuxEffort
  <2> QED BY <1>t, <2>2, <2>3
<1>4. CASE Linux!CleanUp
  BY <1>4 DEF Linux!CleanUp, LinuxEffort
<1>5. CASE Linux!NextLine \/ Linux!LineFound \/ Linux!NotFound
  <2>1. at = "search" /\ LinuxEffort = Turns(got.asked, pos) + 2 /\ Linux!Searching /\ host.text # << >>
    BY <1>5 DEF Linux!NextLine, Linux!LineFound, Linux!NotFound, LinuxEffort, Linux!IInv, Linux!Searching
  <2>2. ASSUME at' = "search", got'.asked = got.asked + 1, pos' = 0, got.asked < 5
        PROVE  LinuxEffort' < LinuxEffort
    <3>1. LinuxEffort' = Turns(got.asked + 1, 0) + 2
      BY <1>t, <2>2 DEF LinuxEffort
    <3>2. Turns(got.asked + 1, 0) < Turns(got.asked, pos)
      BY <1>0, <2>2, TurnsType
    <3>3. got.asked + 1 \in 0..5
      BY <1>0, <2>2
    <3>4. Turns(got.asked + 1, 0) \in Nat
      BY <1>0, <3>3, TurnsType
    <3> QED BY <1>t, <2>1, <3>1, <3>2, <3>4
  <2>3. ASSUME at' \in {"clean", "failed"} PROVE LinuxEffort' < LinuxEffort
    <3>1. LinuxEffort' \in {0, 1}
      BY <2>3 DEF LinuxEffort
    <3> QED BY <1>t, <2>1, <3>1
  <2>4. ASSUME NEW value, Linux!Found(value), pos' = 0 PROVE LinuxEffort' < LinuxEffort
    <3>1. CASE got.asked = 0 /\ host.arch = "ppc"
      <4>1. at' = "search" /\ got' = [got EXCEPT !.cpu = value, !.asked = 1]
        BY <2>4, <3>1 DEF Linux!Found
      <4>2. got'.asked = 1
        BY <1>0, <4>1 DEF Linux!Gathered
      <4> QED BY <2>2, <2>4, <3>1, <4>1, <4>2
    <3>2. CASE ~ (got.asked = 0 /\ host.arch = "ppc")
      <4>1. at' = "clean"
        BY <2>4, <3>2 DEF Linux!Found
      <4> QED BY <2>3, <4>1
    <3> QED BY <3>1, <3>2
  <2>5. CASE Linux!NextLine
    <3>1. at' = "search" /\ got' = got /\ pos' = Linux!Here /\ Linux!HasNewline(Linux!Here)
      BY <1>5, <2>1, <2>5 DEF Linux!NextLine
    <3>2. Len(Linux!Key) > 0
      BY <1>0, LinuxKeys DEF Linux!Key
    <3>3. pos' \in 0..Len(host.text) /\ pos < pos'
      BY <1>0, <2>1, <3>1, <3>2, LinuxHere DEF Linux!Searching
    <3>4. Turns(got.asked, pos') < Turns(got.asked, pos) /\ Turns(got.asked, pos') \in Nat
      BY <1>0, <3>3, TurnsType
    <3>5. LinuxEffort' = Turns(got.asked, pos') + 2
      BY <1>t, <3>1 DEF LinuxEffort
    <3> QED BY <1>t, <2>1, <3>4, <3>5
  <2>6. CASE Linux!LineFound
    BY <2>4, <2>6 DEF Linux!LineFound
  <2>7. CASE Linux!NotFound
    <3>1. CASE got.asked \in 1..(Len(Linux!ModelKeys) - 1)
      <4>1. got' = [got EXCEPT !.asked = @ + 1] /\ at' = "search" /\ pos' = 0
        BY <2>1, <2>7, <3>1 DEF Linux!NotFound
      <4>2. got'.asked = got.asked + 1
        BY <1>0, <4>1 DEF Linux!Gathered
      <4>3. got.asked < 5
        BY <3>1, LinuxKeys
      <4> QED BY <2>2, <4>1, <4>2, <4>3
    <3>2. CASE got.asked \notin 1..(Len(Linux!ModelKeys) - 1) /\ host.arch = "x86"
      BY <2>3, <2>7, <3>2 DEF Linux!NotFound
    <3>3. CASE got.asked \notin 1..(Len(Linux!ModelKeys) - 1) /\ host.arch # "x86"
      BY <2>4, <2>7, <3>3 DEF Linux!NotFound
    <3> QED BY <3>1, <3>2, <3>3
  <2> QED BY <1>5, <2>5, <2>6, <2>7
<1> QED BY <1>1, <1>2, <1>3, <1>4, <1>5 DEF Linux!Next

LEMMA OsxEffortFalls ==
    ASSUME Osx!IInv, Osx!Next
    PROVE  OsxEffort' < OsxEffort
<1>0. got \in Osx!Gathered /\ (at \in {"open", "key", "string", "end"} => got.parsed \in 1..2)
      /\ (at = "open" => got.parsed = 1)
  BY DEF Osx!IInv, Osx!TypeOK
<1>1. CASE Osx!Open
  BY <1>0, <1>1 DEF Osx!Open, OsxEffort
<1>2. CASE Osx!Advance
  <2>1. got' = got /\ got.parsed \in 1..2
        /\ ((at = "key" /\ at' = "string") \/ (at = "string" /\ at' = "end"))
    BY <1>0, <1>2 DEF Osx!Advance
  <2> QED BY <2>1 DEF OsxEffort
<1>3. ASSUME NEW strings, Osx!Parsed(strings), at \in {"key", "string", "end"}
      PROVE  OsxEffort' < OsxEffort
  <2>1. got' = [got EXCEPT !.strings = strings, !.parsed = @ + 1]
        /\ at' = (IF got.parsed = 1 THEN "key" ELSE "cpu")
    BY <1>3 DEF Osx!Parsed
  <2>2. got.parsed \in 1..2 /\ got'.parsed = got.parsed + 1
    BY <1>0, <1>3, <2>1 DEF Osx!Gathered
  <2>3. OsxEffort >= 9 - 3 * got.parsed
    BY <1>3, <2>2 DEF OsxEffort
  <2>4. CASE got.parsed = 1
    <3>1. at' = "key" /\ got'.parsed = 2
      BY <2>1, <2>2, <2>4
    <3>2. OsxEffort' = 5 /\ OsxEffort \in {6, 7, 8}
      BY <1>3, <2>4, <3>1 DEF OsxEffort
    <3> QED BY <3>2
  <2>5. CASE got.parsed = 2
    <3>1. at' = "cpu"
      BY <2>1, <2>5
    <3>2. OsxEffort' = 2 /\ OsxEffort \in {3, 4, 5}
      BY <1>3, <2>5, <3>1 DEF OsxEffort
    <3> QED BY <3>2
  <2> QED BY <2>2, <2>4, <2>5
<1>4. ASSUME at' = "astray", at = "end" PROVE OsxEffort' < OsxEffort
  <2>1. OsxEffort' = 0 /\ OsxEffort \in {3, 6}
    BY <1>0, <1>4 DEF OsxEffort
  <2> QED BY <2>1
<1>5. CASE Osx!Fallback
  BY <1>3, <1>5 DEF Osx!Fallback
<1>6. CASE Osx!CopyString
  BY <1>3, <1>4, <1>6 DEF Osx!CopyString
<1>7. CASE Osx!NoEnd
  BY <1>4, <1>7 DEF Osx!NoEnd
<1>8. CASE Osx!CpuFails \/ Osx!ByFamily \/ Osx!BySubtype
  BY <1>8 DEF Osx!CpuFails, Osx!ByFamily, Osx!BySubtype, OsxEffort
<1> QED BY <1>1, <1>2, <1>5, <1>6, <1>7, <1>8 DEF Osx!Next

LEMMA DosEffortFalls == Dos!Next => DosEffort' < DosEffort
BY DEF Dos!Next, Dos!Install, Dos!Fault, Dos!Identify, Dos!Out, DosEffort

LEMMA DmiEffortFalls ==
    ASSUME IInv, Next
    PROVE  DmiEffort' < DmiEffort
<1>1. NPaths \in Nat /\ idx \in Nat /\ (pc = "tryGetModel" => idx <= NPaths + 1)
      /\ (pc = "vendor" => idx = 1)
  BY DeviceInfoAssumption DEF IInv, TypeOK, Unknown
<1>2. CASE ReadVendor
  <2>1. pc = "vendor" /\ pc' = "tryGetModel" /\ idx' = idx
    BY <1>2 DEF ReadVendor
  <2> QED BY <1>1, <2>1 DEF DmiEffort
<1>3. CASE ReadModel
  <2>1. pc = "tryGetModel" /\ pc' = "done"
    BY <1>3 DEF ReadModel
  <2> QED BY <1>1, <2>1 DEF DmiEffort
<1>4. CASE TryNextPath
  <2>1. pc = "tryGetModel" /\ pc' \in {"astray", "tryGetModel"} /\ idx' = idx + 1
    BY <1>4 DEF TryNextPath, Following
  <2> QED BY <1>1, <2>1 DEF DmiEffort
<1> QED BY <1>2, <1>3, <1>4 DEF Next

EffortInv == HInv /\ OneRuns

LEMMA EffortType == EffortInv => Effort \in Nat /\ (HEnd <=> Effort = 0)
<1> SUFFICES ASSUME EffortInv PROVE Effort \in Nat /\ (HEnd <=> Effort = 0)
  OBVIOUS
<1>0. HInv /\ OneRuns
  BY DEF EffortInv
<1>1. CASE host.plat = "dmi"
  <2>1. IInv /\ at = "idle" /\ Effort = DmiEffort
    BY <1>0, <1>1 DEF HInv, OneRuns, Effort
  <2>2. NPaths \in Nat /\ idx \in Nat /\ (pc = "tryGetModel" => idx <= NPaths + 1)
        /\ pc \in {"vendor", "tryGetModel", "done", "astray"}
    BY <2>1, DeviceInfoAssumption DEF IInv, TypeOK, Unknown
  <2>3. DmiEffort \in Nat /\ (pc \in {"done", "astray"} <=> DmiEffort = 0)
    BY <2>2 DEF DmiEffort
  <2> QED BY <2>1, <2>3 DEF HEnd
<1>2. CASE host.plat = "linux"
  <2>1. Linux!IInv /\ pc = "done" /\ Effort = LinuxEffort
    BY <1>0, <1>2 DEF HInv, OneRuns, Effort
  <2>2. /\ host \in Linux!Hosts /\ got.asked \in 0..5 /\ pos \in 0..Len(host.text)
        /\ 0 \in 0..5 /\ 0 \in 0..Len(host.text)
        /\ at \in {"name", "open", "devicetree", "search", "clean", "returned", "failed"}
    BY <2>1, LinuxHost, LinuxKeys DEF Linux!IInv, Linux!TypeOK, Linux!Gathered
  <2>3. Turns(0, 0) \in Nat /\ Turns(got.asked, pos) \in Nat
    BY <2>2, TurnsType
  <2>4. LinuxEffort \in Nat /\ (at \in {"returned", "failed"} <=> LinuxEffort = 0)
    BY <2>2, <2>3 DEF LinuxEffort
  <2> QED BY <2>1, <2>2, <2>4 DEF HEnd
<1>3. CASE host.plat = "dos"
  <2>1. Dos!IInv /\ pc = "done" /\ Effort = DosEffort
    BY <1>0, <1>3 DEF HInv, OneRuns, Effort
  <2> QED BY <2>1 DEF Dos!IInv, DosEffort, HEnd
<1>4. CASE host.plat = "osx"
  <2>1. Osx!IInv /\ pc = "done" /\ Effort = OsxEffort
    BY <1>0, <1>4 DEF HInv, OneRuns, Effort
  <2>2. /\ at \in {"open", "key", "string", "end", "cpu", "subtype", "returned", "failed", "astray"}
        /\ at \in {"open", "key", "string", "end"} => got.parsed \in {1, 2}
    BY <2>1 DEF Osx!IInv, Osx!TypeOK
  <2>3. OsxEffort \in Nat /\ (at \in {"returned", "failed", "astray"} <=> OsxEffort = 0)
    BY <2>2 DEF OsxEffort
  <2> QED BY <2>1, <2>2, <2>3 DEF HEnd
<1> QED BY <1>0, <1>1, <1>2, <1>3, <1>4 DEF HInv

LEMMA EffortTypeNext == (EffortInv => Effort \in Nat /\ (HEnd <=> Effort = 0))'
BY EffortType, PTL

LEMMA HostStays ==
    ASSUME HInv, HNext
    PROVE  host' = host
<1>1. CASE host.plat = "linux" /\ Linux!Next
  BY <1>1 DEF Linux!Next, Linux!Name, Linux!Open, Linux!NextLine, Linux!LineFound, Linux!NotFound,
              Linux!DeviceTree, Linux!CleanUp
<1>2. CASE host.plat = "dos" /\ Dos!Next
  BY <1>2 DEF Dos!Next, Dos!Install, Dos!Fault, Dos!Identify, Dos!Out
<1>3. CASE host.plat = "osx" /\ Osx!Next
  BY <1>3 DEF Osx!Next, Osx!Open, Osx!Advance, Osx!Fallback, Osx!CopyString, Osx!NoEnd,
              Osx!CpuFails, Osx!ByFamily, Osx!BySubtype
<1>4. CASE UNCHANGED hvars
  BY <1>4 DEF hvars
<1> QED BY <1>1, <1>2, <1>3, <1>4 DEF HNext, HRest

LEMMA EffortInvStep == EffortInv /\ [HNext]_<<vars, hvars>> => EffortInv'
<1> SUFFICES ASSUME EffortInv, [HNext]_<<vars, hvars>> PROVE EffortInv'
  OBVIOUS
<1>1. HInv' /\ HInv /\ OneRuns
  BY StepHInv DEF EffortInv
<1>2. CASE UNCHANGED <<vars, hvars>>
  BY <1>1, <1>2 DEF EffortInv, OneRuns, vars, hvars
<1>3. CASE HNext
  <2>1. host' = host
    BY <1>1, <1>3, HostStays
  <2>2. CASE Next /\ UNCHANGED hvars
    <3>1. pc # "done"
      BY <2>2 DEF Next, ReadVendor, ReadModel, TryNextPath
    <3> QED BY <1>1, <2>1, <2>2, <3>1 DEF EffortInv, OneRuns, hvars
  <2>3. CASE host.plat \in {"linux", "dos", "osx"} /\ UNCHANGED vars
    BY <1>1, <2>1, <2>3 DEF EffortInv, OneRuns, vars
  <2>4. CASE HRest
    BY <1>2, <2>4 DEF HRest
  <2> QED BY <1>3, <2>2, <2>3, <2>4 DEF HNext
<1> QED BY <1>2, <1>3

LEMMA EffortInvInit == HInit => EffortInv
<1> SUFFICES ASSUME HInit PROVE OneRuns
  BY InitHInv DEF EffortInv
<1>1. CASE Init /\ host = [plat |-> "dmi"] /\ at = "idle"
  BY <1>1 DEF OneRuns
<1>2. CASE DeviceKnown /\ (Linux!Init \/ Dos!Init \/ Osx!Init)
  <2>1. CASE Linux!Init
    BY <1>2, <2>1, LinuxHost DEF Linux!Init, OneRuns, DeviceKnown
  <2>2. CASE Dos!Init
    BY <1>2, <2>2 DEF Dos!Init, Dos!Hosts, OneRuns, DeviceKnown
  <2>3. CASE Osx!Init
    BY <1>2, <2>3, HostInfoAssumption DEF Osx!Init, OneRuns, DeviceKnown
  <2> QED BY <1>2, <2>1, <2>2, <2>3
<1> QED BY <1>1, <1>2 DEF HInit

LEMMA EffortInvariant == HSpec => []EffortInv
BY EffortInvInit, EffortInvStep, PTL DEF HSpec

LEMMA EffortFalls ==
    ASSUME EffortInv, EffortInv', HNext, <<vars, hvars>>' # <<vars, hvars>>
    PROVE  Effort' < Effort
<1>1. HInv /\ OneRuns /\ host' = host
  BY HostStays DEF EffortInv
<1>2. CASE Next /\ UNCHANGED hvars
  <2>1. host.plat = "dmi" /\ IInv
    BY <1>1, <1>2 DEF Next, ReadVendor, ReadModel, TryNextPath, OneRuns, HInv
  <2>2. Effort = DmiEffort /\ Effort' = DmiEffort'
    BY <1>1, <2>1 DEF Effort
  <2> QED BY <1>2, <2>1, <2>2, DmiEffortFalls
<1>3. CASE host.plat = "linux" /\ Linux!Next
  <2>1. Effort = LinuxEffort /\ Effort' = LinuxEffort' /\ Linux!IInv
    BY <1>1, <1>3 DEF Effort, HInv
  <2> QED BY <1>3, <2>1, LinuxEffortFalls
<1>4. CASE host.plat = "dos" /\ Dos!Next
  <2>1. Effort = DosEffort /\ Effort' = DosEffort'
    BY <1>1, <1>4 DEF Effort
  <2> QED BY <1>4, <2>1, DosEffortFalls
<1>5. CASE host.plat = "osx" /\ Osx!Next
  <2>1. Effort = OsxEffort /\ Effort' = OsxEffort' /\ Osx!IInv
    BY <1>1, <1>5 DEF Effort, HInv
  <2> QED BY <1>5, <2>1, OsxEffortFalls
<1>6. ~ HRest
  BY DEF HRest
<1> QED BY <1>2, <1>3, <1>4, <1>5, <1>6 DEF HNext

\* The effort is at some time at most i.
Reach(i) == <>(Effort <= i)

\* One step nearer to the end.
LEMMA Descent ==
    ASSUME NEW i \in Nat
    PROVE  HLiveSpec => (Reach(i + 1) => Reach(i))
<1>1. EffortInv /\ EffortInv' /\ Effort <= i + 1 /\ <<HNext>>_<<vars, hvars>> => (Effort <= i)'
  <2> SUFFICES ASSUME EffortInv, EffortInv', Effort <= i + 1, HNext, <<vars, hvars>>' # <<vars, hvars>>
               PROVE  Effort' <= i
    OBVIOUS
  <2>1. Effort' < Effort /\ Effort \in Nat /\ Effort' \in Nat
    BY EffortFalls, EffortType, EffortTypeNext
  <2> QED BY <2>1
<1>2. EffortInv /\ EffortInv' /\ Effort <= i + 1 /\ [HNext]_<<vars, hvars>> => (Effort <= i + 1)'
  <2> SUFFICES ASSUME EffortInv, EffortInv', Effort <= i + 1, [HNext]_<<vars, hvars>>
               PROVE  Effort' <= i + 1
    OBVIOUS
  <2>1. CASE UNCHANGED <<vars, hvars>>
    <3>1. Effort' = Effort
      BY <2>1 DEF vars, hvars, Effort, DmiEffort, LinuxEffort, DosEffort, OsxEffort, Turns
    <3> QED BY <3>1
  <2>2. CASE <<vars, hvars>>' # <<vars, hvars>>
    <3>1. Effort' < Effort /\ Effort \in Nat /\ Effort' \in Nat
      BY <2>2, EffortFalls, EffortType, EffortTypeNext
    <3> QED BY <3>1
  <2> QED BY <2>1, <2>2
<1>3. EffortInv /\ HEnd => Effort <= i
  BY EffortType
<1> QED BY <1>1, <1>2, <1>3, EffortInvariant, PTL DEF HSpec, HLiveSpec, Reach

LEMMA Descent4 ==
    ASSUME NEW i \in Nat
    PROVE  HLiveSpec => (Reach(i + 4) => Reach(i))
<1>1. /\ i + 1 \in Nat /\ i + 2 \in Nat /\ i + 3 \in Nat
      /\ (i + 1) + 1 = i + 2 /\ (i + 2) + 1 = i + 3 /\ (i + 3) + 1 = i + 4
  OBVIOUS
<1> QED BY <1>1, Descent

LEMMA Descent16 ==
    ASSUME NEW i \in Nat
    PROVE  HLiveSpec => (Reach(i + 16) => Reach(i))
<1>1. /\ i + 4 \in Nat /\ i + 8 \in Nat /\ i + 12 \in Nat
      /\ (i + 4) + 4 = i + 8 /\ (i + 8) + 4 = i + 12 /\ (i + 12) + 4 = i + 16
  OBVIOUS
<1> QED BY <1>1, Descent4

LEMMA Descent64 ==
    ASSUME NEW i \in Nat
    PROVE  HLiveSpec => (Reach(i + 64) => Reach(i))
<1>1. /\ i + 16 \in Nat /\ i + 32 \in Nat /\ i + 48 \in Nat
      /\ (i + 16) + 16 = i + 32 /\ (i + 32) + 16 = i + 48 /\ (i + 48) + 16 = i + 64
  OBVIOUS
<1> QED BY <1>1, Descent16

LEMMA Descent256 ==
    ASSUME NEW i \in Nat
    PROVE  HLiveSpec => (Reach(i + 256) => Reach(i))
<1>1. /\ i + 64 \in Nat /\ i + 128 \in Nat /\ i + 192 \in Nat
      /\ (i + 64) + 64 = i + 128 /\ (i + 128) + 64 = i + 192 /\ (i + 192) + 64 = i + 256
  OBVIOUS
<1> QED BY <1>1, Descent64

LEMMA Descent1024 ==
    ASSUME NEW i \in Nat
    PROVE  HLiveSpec => (Reach(i + 1024) => Reach(i))
<1>1. /\ i + 256 \in Nat /\ i + 512 \in Nat /\ i + 768 \in Nat
      /\ (i + 256) + 256 = i + 512 /\ (i + 512) + 256 = i + 768 /\ (i + 768) + 256 = i + 1024
  OBVIOUS
<1> QED BY <1>1, Descent256

LEMMA Descent2048 ==
    ASSUME NEW i \in Nat
    PROVE  HLiveSpec => (Reach(i + 2048) => Reach(i))
<1>1. /\ i + 1024 \in Nat
      /\ (i + 1024) + 1024 = i + 2048
  OBVIOUS
<1> QED BY <1>1, Descent1024

LEMMA Descent4096 ==
    ASSUME NEW i \in Nat
    PROVE  HLiveSpec => (Reach(i + 4096) => Reach(i))
<1>1. /\ i + 2048 \in Nat
      /\ (i + 2048) + 2048 = i + 4096
  OBVIOUS
<1> QED BY <1>1, Descent2048

LEMMA Descent8192 ==
    ASSUME NEW i \in Nat
    PROVE  HLiveSpec => (Reach(i + 8192) => Reach(i))
<1>1. /\ i + 4096 \in Nat
      /\ (i + 4096) + 4096 = i + 8192
  OBVIOUS
<1> QED BY <1>1, Descent4096

LEMMA ToTheEnd == HLiveSpec => (Reach(8192) => <>HEnd)
<1>1. 0 \in Nat /\ 0 + 8192 = 8192
  OBVIOUS
<1>2. HLiveSpec => (Reach(8192) => Reach(0))
  BY <1>1, Descent8192
<1>3. EffortInv /\ Effort <= 0 => HEnd
  BY EffortType
<1> QED BY <1>2, <1>3, EffortInvariant, PTL DEF HLiveSpec, Reach

\* Neither a search that went on to the end of the paths nor one that left them
\* had a model to find.
NoneMissed == pc = "astray" => \A i \in 1..NPaths : ~ Useful(i)

LEMMA NoneMissedStep == HInv /\ NoneMissed /\ [HNext]_<<vars, hvars>> => NoneMissed'
<1> SUFFICES ASSUME HInv, NoneMissed, [HNext]_<<vars, hvars>> PROVE NoneMissed'
  OBVIOUS
<1>1. CASE UNCHANGED vars
  BY <1>1 DEF vars, NoneMissed, Useful
<1>2. CASE Next
  <2>1. files' = files
    BY <1>2 DEF Next, ReadVendor, ReadModel, TryNextPath
  <2>2. CASE ReadVendor \/ ReadModel
    BY <2>2 DEF ReadVendor, ReadModel, NoneMissed
  <2>3. CASE TryNextPath
    <3> SUFFICES ASSUME pc' = "astray" PROVE \A i \in 1..NPaths : ~ Useful(i)
      BY <2>1 DEF NoneMissed, Useful
    <3>1. NPaths \in Nat /\ idx \in Nat /\ idx + 1 > NPaths + 1 /\ Searched
      BY <2>3, DeviceInfoAssumption DEF TryNextPath, Following, HInv, IInv, TypeOK
    <3> QED BY <3>1 DEF Searched
  <2> QED BY <1>2, <2>2, <2>3 DEF Next
<1> QED BY <1>1, <1>2 DEF HNext, HRest

LEMMA NoneMissedInvariant == HSpec => []NoneMissed
<1>1. HInit => NoneMissed
  BY DEF HInit, Init, DeviceKnown, NoneMissed
<1> QED BY <1>1, NoneMissedStep, HInvariant, PTL DEF HSpec

\* With up to 8000 paths: if any of the files names a model, the search for it
\* ends with one.
THEOREM FindsModelCorrect == NPaths <= 8000 => (HLiveSpec => FindsModel)
<1> SUFFICES ASSUME NPaths <= 8000 PROVE HLiveSpec => FindsModel
  OBVIOUS
<1>1. HInit => pc = "done" \/ Effort <= 8192
  <2> SUFFICES ASSUME HInit, pc # "done" PROVE Effort <= 8192
    OBVIOUS
  <2>1. pc = "vendor" /\ host = [plat |-> "dmi"]
    BY DEF HInit, Init, DeviceKnown
  <2>2. Effort = NPaths + 2 /\ NPaths \in Nat
    BY <2>1, DeviceInfoAssumption DEF Effort, DmiEffort
  <2> QED BY <2>2
<1>2. HLiveSpec => (Effort <= 8192 => <>HEnd)
  BY ToTheEnd, PTL DEF Reach
<1>3. (\E i \in 1..NPaths : Useful(i)) /\ [HNext]_<<vars, hvars>> => (\E i \in 1..NPaths : Useful(i))'
  <2>1. [HNext]_<<vars, hvars>> => files' = files
    BY DEF HNext, HRest, Next, ReadVendor, ReadModel, TryNextPath, vars
  <2> QED BY <2>1 DEF Useful
<1>4. HEnd /\ NoneMissed /\ (\E i \in 1..NPaths : Useful(i)) => pc = "done"
  BY DEF HEnd, NoneMissed
<1> QED BY <1>1, <1>2, <1>3, <1>4, NoneMissedInvariant, PTL DEF HLiveSpec, HSpec, FindsModel

LEMMA DosAtFirst == Dos!Init => host.plat = "dos" /\ at = "enter"
<1>1. Dos!Init => at = "enter"
  BY Zenon DEF Dos!Init
<1>2. Dos!Init => host.plat = "dos"
  BY Zenon DEF Dos!Init, Dos!Hosts
<1> QED BY <1>1, <1>2

LEMMA OsxAtFirst == Osx!Init => host.plat = "osx" /\ at = "open"
<1>1. Osx!Init => host \in Macs /\ at = "open"
  BY Zenon DEF Osx!Init
<1>2. host \in Macs => host.plat = "osx"
  <2>1. host \in Macs => host \in [plat : {"osx"}, file : Seq(STRING), cpu : Osx!Cpus]
    BY HostInfoAssumption
  <2> QED BY <2>1
<1> QED BY <1>1, <1>2

\* With a /proc/cpuinfo of up to 1360 lines, and any text on the other platforms:
\* whatever the lines say, the loops that look for them come to their end.
THEOREM GatherEndsCorrect == MaxLines <= 1360 => (HLiveSpec => GatherEnds)
<1> SUFFICES ASSUME MaxLines <= 1360 PROVE HLiveSpec => GatherEnds
  OBVIOUS
<1>1. HInit => at = "idle" \/ Effort <= 8192
  <2> SUFFICES ASSUME HInit, at # "idle" PROVE Effort <= 8192
    OBVIOUS
  <2>1. CASE Linux!Init
    <3>1. host \in Linux!Hosts /\ at \in {"name", "open"}
      BY <2>1 DEF Linux!Init
    <3>2. Len(host.text) \in Nat /\ Len(host.text) <= MaxLines /\ MaxLines \in Nat
      BY <3>1, LinuxHost, HostInfoAssumption
    <3>3. 0 \in 0..5 /\ 0 \in 0..Len(host.text)
      BY <3>2
    <3>4. Turns(0, 0) = 6 * Len(host.text) + 5
      BY <3>1, <3>3, TurnsType
    <3>5. host.plat = "linux"
      BY <3>1, LinuxHost
    <3>6. Effort \in {Turns(0, 0) + 5, Turns(0, 0) + 4}
      BY <3>1, <3>5 DEF Effort, LinuxEffort
    <3> QED BY <3>2, <3>4, <3>6
  <2>2. CASE Dos!Init
    <3>1. host.plat = "dos" /\ at = "enter"
      BY <2>2, DosAtFirst
    <3>2. Effort = 3
      BY <3>1 DEF Effort, DosEffort
    <3> QED BY <3>2
  <2>3. CASE Osx!Init
    <3>1. host.plat = "osx" /\ at = "open"
      BY <2>3, OsxAtFirst
    <3>2. Effort = 9
      BY <3>1 DEF Effort, OsxEffort
    <3> QED BY <3>2
  <2> QED BY <2>1, <2>2, <2>3 DEF HInit
<1>2. HLiveSpec => (Effort <= 8192 => <>HEnd)
  BY ToTheEnd, PTL DEF Reach
<1>3. HEnd => at \in {"idle", "returned", "failed", "astray"}
  BY DEF HEnd
<1>4. at = "idle" => at \in {"idle", "returned", "failed", "astray"}
  OBVIOUS
<1> QED BY <1>1, <1>2, <1>3, <1>4, PTL DEF HLiveSpec, HSpec, GatherEnds
=============================================================================
