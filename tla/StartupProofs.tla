---------------------------- MODULE StartupProofs ----------------------------
(***************************************************************************)
(* Proofs about Startup, for any of the platforms and graphics builds it   *)
(* is given and for any set of calls that may fail.                        *)
(*                                                                         *)
(* The inductive invariant IInv says, for each place in the lists of       *)
(* calls, what the calls before it have set up and what they left open.    *)
(***************************************************************************)
EXTENDS Startup, SequenceTheorems, TLAPS

-----------------------------------------------------------------------------
(* Lists of calls *)

LEMMA FromNext ==
    ASSUME NEW S, NEW s \in Seq(S), NEW k \in 1..Len(s)
    PROVE  /\ From(s, k) \in Seq(S) /\ From(s, k) # << >>
           /\ Head(From(s, k)) = s[k]
           /\ Tail(From(s, k)) = From(s, k + 1)
<1>1. Len(s) \in Nat
  BY LenProperties
<1>2. /\ From(s, k) \in Seq(S)
      /\ Len(From(s, k)) = Len(s) - k + 1
      /\ \A i \in 1..(Len(s) - k + 1) : From(s, k)[i] = s[k + i - 1]
  BY <1>1, SubSeqProperties DEF From
<1>3. From(s, k) # << >> /\ Head(From(s, k)) = s[k]
  BY <1>1, <1>2, HeadTailProperties, LenProperties
<1>4. /\ From(s, k + 1) \in Seq(S)
      /\ Len(From(s, k + 1)) = Len(s) - k
      /\ \A i \in 1..(Len(s) - k) : From(s, k + 1)[i] = s[k + i]
  <2>1. /\ From(s, k + 1) \in Seq(S)
        /\ Len(From(s, k + 1)) = IF k + 1 <= Len(s) THEN Len(s) - (k + 1) + 1 ELSE 0
        /\ \A i \in 1..(Len(s) - (k + 1) + 1) : From(s, k + 1)[i] = s[k + 1 + i - 1]
    BY <1>1, SubSeqProperties DEF From
  <2> QED BY <1>1, <2>1
<1>5. /\ Tail(From(s, k)) \in Seq(S)
      /\ Len(Tail(From(s, k))) = Len(s) - k
      /\ \A i \in 1..(Len(s) - k) : Tail(From(s, k))[i] = s[k + i]
  <2>1. /\ Tail(From(s, k)) \in Seq(S)
        /\ Len(Tail(From(s, k))) = Len(From(s, k)) - 1
        /\ \A i \in 1..Len(Tail(From(s, k))) : Tail(From(s, k))[i] = From(s, k)[i + 1]
    BY <1>2, <1>3, HeadTailProperties
  <2> QED BY <1>1, <1>2, <2>1
<1>6. Tail(From(s, k)) = From(s, k + 1)
  <2>1. Len(Tail(From(s, k))) = Len(From(s, k + 1))
    BY <1>4, <1>5
  <2>2. ASSUME NEW i \in 1..Len(Tail(From(s, k))) PROVE Tail(From(s, k))[i] = From(s, k + 1)[i]
    BY <1>4, <1>5, <2>2
  <2> QED BY <1>4, <1>5, <2>1, <2>2, SeqEqual
<1> QED BY <1>2, <1>3, <1>6

LEMMA FromEnds ==
    ASSUME NEW S, NEW s \in Seq(S)
    PROVE  From(s, 1) = s /\ From(s, Len(s) + 1) = << >>
BY DEF From

\* The last call.
LEMMA FromLast ==
    ASSUME NEW s \in Seq(Steps), NEW n \in Nat \ {0}, Len(s) = n
    PROVE  From(s, n) = <<s[n]>>
<1>1. s[n] \in Steps
  BY LenProperties
<1>2. From(s, n) \in Seq(Steps) /\ Len(From(s, n)) = 1 /\ From(s, n)[1] = s[n]
  <2>1. \A i \in n..n : s[i] \in Steps
    BY <1>1
  <2> QED BY <2>1, SubSeqProperties DEF From
<1>3. <<s[n]>> \in Seq(Steps) /\ Len(<<s[n]>>) = 1 /\ <<s[n]>>[1] = s[n]
  BY <1>1
<1> QED BY <1>2, <1>3, SeqEqual

\* What is left is empty only at the end.
LEMMA FromEmpty ==
    ASSUME NEW S, NEW s \in Seq(S), NEW k \in 1..(Len(s) + 1), From(s, k) = << >>
    PROVE  k = Len(s) + 1
BY FromNext, LenProperties

-----------------------------------------------------------------------------
(* The calls of PLAT_Init *)

USE StartupAssumption

LEMMA EachCalls ==
    /\ CallsOf("linux") = LinuxCalls /\ CallsOf("android") = AndroidCalls
    /\ CallsOf("osx") = OsxCalls /\ CallsOf("nt4") = Nt4Calls
    /\ CallsOf("dos") = DosCalls /\ CallsOf("switch") = SwitchCalls
BY DEF CallsOf

LEMMA CallsType ==
    ASSUME NEW p \in Platforms
    PROVE  /\ CallsOf(p) \in Seq(Steps)
           /\ Len(CallsOf(p)) \in Nat
           /\ p \in Linux => Len(CallsOf(p)) = 8
<1>1. /\ "STATE_Init" \in Steps /\ "set_exit" \in Steps /\ "strings" \in Steps /\ "model" \in Steps
      /\ "memory" \in Steps /\ "net" \in Steps /\ "uuid" \in Steps /\ "rand" \in Steps
      /\ "serial" \in Steps /\ "gfx" \in Steps
      /\ "name" \in Steps /\ "os" \in Steps /\ "cpu" \in Steps /\ "gpu" \in Steps
  BY DEF Steps, Strings
<1>2. /\ LinuxCalls \in Seq(Steps) /\ AndroidCalls \in Seq(Steps)
      /\ OsxCalls \in Seq(Steps) /\ Nt4Calls \in Seq(Steps)
      /\ DosCalls \in Seq(Steps) /\ SwitchCalls \in Seq(Steps)
  BY <1>1 DEF LinuxCalls, AndroidCalls, OsxCalls, Nt4Calls, DosCalls, SwitchCalls
<1>3. Len(LinuxCalls) = 8 /\ Len(AndroidCalls) = 8
  BY DEF LinuxCalls, AndroidCalls
<1>4. CallsOf(p) \in Seq(Steps)
  BY <1>2, EachCalls
<1> QED BY <1>3, <1>4, EachCalls, LenProperties DEF Linux

\* STATE_Init is called before the exit callback is set, and nothing that may
\* end the program before that.
LEMMA CallbackOrder ==
    ASSUME NEW p \in Platforms, NEW k \in 1..Len(CallsOf(p))
    PROVE  /\ CallsOf(p)[k] = "STATE_Init" => \A i \in 1..(k - 1) : CallsOf(p)[i] # "set_exit"
           /\ CallsOf(p)[k] \in Fatal(p) => \E i \in 1..(k - 1) : CallsOf(p)[i] = "set_exit"
<1>1. CASE p = "nt4"
  <2>1. CallsOf(p) = Nt4Calls /\ Fatal(p) = {"strings", "net"} /\ k \in 1..5
    BY <1>1, EachCalls DEF Fatal, Nt4Calls
  <2>2. Nt4Calls[1] = "set_exit" /\ \A i \in 2..5 : Nt4Calls[i] \notin {"set_exit", "STATE_Init"}
    BY DEF Nt4Calls
  <2>3. CallsOf(p)[k] # "STATE_Init"
    BY <2>1, <2>2
  <2>4. CallsOf(p)[k] \in Fatal(p) => 1 \in 1..(k - 1)
    BY <2>1, <2>2
  <2> QED BY <2>1, <2>2, <2>3, <2>4
<1>2. CASE p # "nt4"
  <2>1. /\ Len(CallsOf(p)) \in Nat
        /\ \A i \in 1..Len(CallsOf(p)) :
              (CallsOf(p)[i] = "STATE_Init" <=> i = 1) /\ (CallsOf(p)[i] = "set_exit" <=> i = 2)
    <3>1. CASE p = "linux"
      BY <3>1, EachCalls DEF LinuxCalls
    <3>2. CASE p = "android"
      BY <3>2, EachCalls DEF AndroidCalls
    <3>3. CASE p = "osx"
      BY <3>3, EachCalls DEF OsxCalls
    <3>4. CASE p = "dos"
      BY <3>4, EachCalls DEF DosCalls
    <3>5. CASE p = "switch"
      BY <3>5, EachCalls DEF SwitchCalls
    <3> QED BY <1>2, <3>1, <3>2, <3>3, <3>4, <3>5
  <2>2. Fatal(p) \cap {"STATE_Init", "set_exit"} = {}
    BY <1>2 DEF Fatal
  <2> QED BY <2>1, <2>2
<1> QED BY <1>1, <1>2

\* All of them together set the callback, and all strings but the one that
\* Linux' graphics set.
LEMMA CallsComplete ==
    ASSUME NEW p \in Platforms
    PROVE  /\ \E i \in 1..Len(CallsOf(p)) : CallsOf(p)[i] = "set_exit"
           /\ \A s \in Strings \ StaticInfo(p) :
                 \/ p \in Linux /\ s = "gpu"
                 \/ \E i \in 1..Len(CallsOf(p)) : s \in Fills(CallsOf(p)[i])
<1>1. /\ \A s \in Strings : Fills(s) = {s}
      /\ Fills("strings") = {"os", "name"} /\ Fills("model") = {"name", "cpu", "gpu"}
  BY DEF Fills, Strings
<1>2. Strings \ StaticInfo(p) \subseteq IF p = "dos" THEN {} ELSE {"name", "os", "cpu", "gpu"}
  BY DEF StaticInfo, Strings
<1>3. CASE p \in Linux
  <2>1. Len(CallsOf(p)) = 8 /\ CallsOf(p)[2] = "set_exit" /\ CallsOf(p)[3] = "name"
        /\ CallsOf(p)[4] = "os" /\ CallsOf(p)[6] = "cpu"
    BY <1>3, EachCalls DEF Linux, LinuxCalls, AndroidCalls
  <2> QED BY <1>1, <1>2, <1>3, <2>1 DEF Strings
<1>4. CASE p = "osx"
  <2>1. Len(CallsOf(p)) = 8 /\ CallsOf(p)[2] = "set_exit" /\ CallsOf(p)[3] = "name"
        /\ CallsOf(p)[5] = "os" /\ CallsOf(p)[6] = "cpu" /\ CallsOf(p)[7] = "gpu"
    BY <1>4, EachCalls DEF OsxCalls
  <2> QED BY <1>1, <1>2, <2>1 DEF Strings
<1>5. CASE p = "nt4"
  <2>1. Len(CallsOf(p)) = 5 /\ CallsOf(p)[1] = "set_exit" /\ CallsOf(p)[2] = "cpu"
        /\ CallsOf(p)[3] = "strings" /\ CallsOf(p)[4] = "gpu"
    BY <1>5, EachCalls DEF Nt4Calls
  <2> QED BY <1>1, <1>2, <2>1 DEF Strings
<1>6. CASE p = "dos"
  BY <1>2, <1>6, EachCalls DEF DosCalls
<1>7. CASE p = "switch"
  <2>1. Len(CallsOf(p)) = 6 /\ CallsOf(p)[2] = "set_exit" /\ CallsOf(p)[3] = "os"
        /\ CallsOf(p)[4] = "model"
    BY <1>7, EachCalls DEF SwitchCalls
  <2> QED BY <1>1, <1>2, <2>1 DEF Strings
<1> QED BY <1>3, <1>4, <1>5, <1>6, <1>7 DEF Linux

LEMMA LinuxOrder ==
    ASSUME NEW p \in Platforms, NEW k \in 1..Len(CallsOf(p))
    PROVE  /\ CallsOf(p)[k] \notin {"XOpenDisplay", "glXChooseVisual", "glXCreateContext"}
           /\ CallsOf(p)[k] = "gfx" <=> p \in Linux /\ k = 7
           /\ p \in Linux /\ k = 8 => CallsOf(p)[k] = "net"
           /\ p \in Linux /\ k <= 7 => "gpu" \notin Fills(CallsOf(p)[k])
<1>1. CASE p \in Linux
  <2>1. k \in 1..8
    BY <1>1, CallsType
  <2>2. /\ CallsOf(p)[k] \in {"STATE_Init", "set_exit", "name", "os", "uuid", "rand", "cpu", "gfx", "net"}
        /\ CallsOf(p)[k] = "gfx" <=> k = 7
        /\ k = 8 => CallsOf(p)[k] = "net"
    BY <1>1, <2>1, EachCalls DEF Linux, LinuxCalls, AndroidCalls
  <2>3. "gpu" \notin Fills(CallsOf(p)[k])
    BY <2>2 DEF Fills, Strings
  <2> QED BY <1>1, <2>2, <2>3
<1>2. CASE p = "osx"
  BY <1>2, EachCalls DEF Linux, OsxCalls
<1>3. CASE p \in {"nt4", "dos"}
  BY <1>3, EachCalls DEF Linux, Nt4Calls, DosCalls
<1>4. CASE p = "switch"
  BY <1>4, EachCalls DEF Linux, SwitchCalls
<1> QED BY <1>1, <1>2, <1>3, <1>4 DEF Linux

\* The lists of the X server and of the way out.
LEMMA ThreeAndOne ==
    ASSUME NEW S, NEW s \in Seq(S), NEW t \in Seq(S), Len(s) = 3, Len(t) = 1
    PROVE  /\ s \o t \in Seq(S) /\ Len(s \o t) = 4
           /\ \A i \in 1..4 : (s \o t)[i] = IF i <= 3 THEN s[i] ELSE t[i - 3]
<1>1. /\ s \o t \in Seq(S)
      /\ Len(s \o t) = Len(s) + Len(t)
      /\ \A i \in 1..(Len(s) + Len(t)) :
            (s \o t)[i] = IF i <= Len(s) THEN s[i] ELSE t[i - Len(s)]
  BY ConcatProperties
<1>2. Len(s) + Len(t) = 4
  OBVIOUS
<1>3. \A i \in 1..4 : (s \o t)[i] = IF i <= 3 THEN s[i] ELSE t[i - 3]
  BY <1>1, <1>2
<1> QED BY <1>1, <1>2, <1>3

LEMMA OtherLists ==
    /\ GlxPlan = <<"XOpenDisplay", "glXChooseVisual", "glXCreateContext", "net">>
    /\ GlxPlan \in Seq(Steps) /\ Len(GlxPlan) = 4
    /\ ExitCalls \in Seq(Steps) /\ Len(ExitCalls) = 4
    /\ <<"net">> \in Seq(Steps) /\ << >> \in Seq(Steps) /\ <<"net">> # << >>
    /\ Head(<<"net">>) = "net" /\ Tail(<<"net">>) = << >>
<1>1. /\ "XOpenDisplay" \in Steps /\ "glXChooseVisual" \in Steps /\ "glXCreateContext" \in Steps
      /\ "net" \in Steps /\ "snd" \in Steps /\ "gfx" \in Steps /\ "plat" \in Steps /\ "exit" \in Steps
  BY DEF Steps
<1> DEFINE plan == <<"XOpenDisplay", "glXChooseVisual", "glXCreateContext", "net">>
<1>2. GlxCalls \in Seq(Steps) /\ Len(GlxCalls) = 3 /\ <<"net">> \in Seq(Steps) /\ Len(<<"net">>) = 1
  BY <1>1 DEF GlxCalls
<1>3. plan \in Seq(Steps) /\ Len(plan) = 4
  BY <1>1
<1>4. /\ GlxPlan \in Seq(Steps) /\ Len(GlxPlan) = 4
      /\ \A i \in 1..4 : GlxPlan[i] = IF i <= 3 THEN GlxCalls[i] ELSE <<"net">>[i - 3]
  BY <1>2, ThreeAndOne DEF GlxPlan
<1>5. \A i \in 1..4 : GlxPlan[i] = plan[i]
  BY <1>4 DEF GlxCalls
<1>6. GlxPlan = plan
  BY <1>3, <1>4, <1>5, SeqEqual
<1>7. ExitCalls \in Seq(Steps) /\ Len(ExitCalls) = 4
  BY <1>1 DEF ExitCalls
<1> QED BY <1>2, <1>4, <1>6, <1>7

LEMMA ListsNext ==
    ASSUME NEW s \in {GlxPlan, ExitCalls}, NEW k \in 1..4
    PROVE  From(s, k) # << >> /\ Head(From(s, k)) = s[k] /\ Tail(From(s, k)) = From(s, k + 1)
<1>1. s \in Seq(Steps) /\ k \in 1..Len(s)
  BY OtherLists
<1> QED BY <1>1, FromNext

-----------------------------------------------------------------------------
(* PLAT_Init, call by call *)

\* What is being called.
LEMMA AtCall ==
    ASSUME IInv, pc = "PLAT_Init", todo # << >>
    PROVE  \/ /\ Head(todo) \notin {"XOpenDisplay", "glXChooseVisual", "glXCreateContext"}
              /\ \E k \in 1..Len(CallsOf(plat)) :
                    /\ Gathering(k)
                    /\ Head(todo) = CallsOf(plat)[k]
                    /\ Tail(todo) = From(CallsOf(plat), k + 1)
           \/ /\ plat \in Linux
              /\ \E j \in 1..3 : TryingXorg(j) /\ Head(todo) = GlxCalls[j]
           \/ /\ plat \in Linux
              /\ todo = <<"net">> /\ "exit" \in cb /\ (missed = {} => Strings \subseteq info) /\ Settled
<1>1. /\ plat \in Platforms /\ InPlatInit
      /\ CallsOf(plat) \in Seq(Steps) /\ Len(CallsOf(plat)) \in Nat
  BY CallsType DEF IInv, TypeOK
<1>2. ASSUME NEW k \in 1..(Len(CallsOf(plat)) + 1), Gathering(k)
      PROVE  /\ k \in 1..Len(CallsOf(plat))
             /\ Head(todo) = CallsOf(plat)[k]
             /\ Tail(todo) = From(CallsOf(plat), k + 1)
             /\ Head(todo) \notin {"XOpenDisplay", "glXChooseVisual", "glXCreateContext"}
  <2>1. todo = From(CallsOf(plat), k)
    BY <1>2 DEF Gathering
  <2>2. k \in 1..Len(CallsOf(plat))
    BY <1>1, <2>1, FromEnds
  <2> QED BY <1>1, <2>1, <2>2, FromNext, LinuxOrder
<1>3. ASSUME NEW j \in 1..3, TryingXorg(j) PROVE Head(todo) = GlxCalls[j]
  <2>1. Head(todo) = GlxPlan[j]
    BY <1>3, ListsNext DEF TryingXorg
  <2> QED BY <2>1, OtherLists DEF GlxCalls
<1> QED BY <1>1, <1>2, <1>3 DEF InPlatInit

LEMMA NextCall ==
    ASSUME NEW k \in 1..Len(CallsOf(plat)), Gathering(k), TypeOK, TypeOK',
           plat' = plat, cap' = cap, open' = open,
           Tail(todo) = From(CallsOf(plat), k + 1), todo' = Tail(todo),
           CallsOf(plat)[k] # "gfx",
           info \subseteq info', info' \subseteq info \cup Fills(CallsOf(plat)[k]),
           missed' = {} => missed = {} /\ Fills(CallsOf(plat)[k]) \subseteq info',
           "gfx" \notin cb',
           CallsOf(plat)[k] = "set_exit" => "exit" \in cb',
           "exit" \in cb => "exit" \in cb' \/ CallsOf(plat)[k] = "STATE_Init"
    PROVE  \E i \in 1..(Len(CallsOf(plat)) + 1) : Gathering(i)'
<1>1. plat \in Platforms /\ Len(CallsOf(plat)) \in Nat
  BY CallsType DEF TypeOK
<1>2. \A i \in 1..k :
         /\ CallsOf(plat)[i] = "set_exit" => "exit" \in cb'
         /\ missed' = {} => Fills(CallsOf(plat)[i]) \subseteq info'
  <2>1. \A i \in 1..(k - 1) :
           /\ CallsOf(plat)[i] = "set_exit" => "exit" \in cb
           /\ missed = {} => Fills(CallsOf(plat)[i]) \subseteq info
    BY DEF Gathering
  <2>2. CallsOf(plat)[k] = "STATE_Init" => \A i \in 1..(k - 1) : CallsOf(plat)[i] # "set_exit"
    BY <1>1, CallbackOrder
  <2>3. \A i \in 1..k : i \in 1..(k - 1) \/ i = k
    OBVIOUS
  <2> QED BY <2>1, <2>2, <2>3
<1>3. plat \in Linux => k + 1 <= 7 /\ "gpu" \notin info' /\ cap' = AllCap
  BY <1>1, LinuxOrder DEF Gathering
<1>4. StaticInfo(plat) \subseteq info' /\ Untouched'
  BY DEF Gathering, Untouched
<1>5. (k + 1) - 1 = k /\ k + 1 \in 1..(Len(CallsOf(plat)) + 1)
  BY <1>1
<1>6. Gathering(k + 1)'
  BY <1>2, <1>3, <1>4, <1>5 DEF Gathering
<1> QED BY <1>5, <1>6

\* When PLAT_Init has called everything but the graphics, it has set the
\* callback and all strings.
LEMMA AllCalled ==
    ASSUME TypeOK, NEW k \in 1..(Len(CallsOf(plat)) + 1), Gathering(k),
           IF plat \in Linux THEN k = 7 ELSE k = Len(CallsOf(plat)) + 1
    PROVE  /\ "exit" \in cb
           /\ missed = {} => (IF plat \in Linux THEN Strings \ {"gpu"} ELSE Strings) \subseteq info
<1>1. plat \in Platforms /\ Len(CallsOf(plat)) \in Nat /\ (plat \in Linux => Len(CallsOf(plat)) = 8)
  BY CallsType DEF TypeOK
<1>2. \A i \in 1..Len(CallsOf(plat)) :
         CallsOf(plat)[i] = "set_exit" \/ Fills(CallsOf(plat)[i]) # {} => i \in 1..(k - 1)
  <2>1. Fills("gfx") = {} /\ Fills("net") = {}
    BY DEF Fills, Strings
  <2> QED BY <1>1, <2>1, LinuxOrder
<1>3. \A i \in 1..(k - 1) :
         /\ CallsOf(plat)[i] = "set_exit" => "exit" \in cb
         /\ missed = {} => Fills(CallsOf(plat)[i]) \subseteq info
  BY DEF Gathering
<1>4. StaticInfo(plat) \subseteq info
  BY DEF Gathering
<1>5. "exit" \in cb
  BY <1>1, <1>2, <1>3, CallsComplete
<1>6. ASSUME missed = {}, NEW s \in Strings, ~ (plat \in Linux /\ s = "gpu") PROVE s \in info
  BY <1>1, <1>2, <1>3, <1>4, <1>6, CallsComplete
<1> QED BY <1>5, <1>6

-----------------------------------------------------------------------------
(* Every step *)

LEMMA TodoType ==
    ASSUME IInv, todo # << >>
    PROVE  Tail(todo) \in Seq(Steps) /\ Head(todo) \in Steps
BY HeadTailProperties DEF IInv, TypeOK

LEMMA TypeStep == IInv /\ [Next]_vars => TypeOK'
<1> SUFFICES ASSUME IInv, [Next]_vars PROVE TypeOK'
  OBVIOUS
<1>1. TypeOK
  BY DEF IInv
<1>2. todo # << >> => Tail(todo) \in Seq(Steps)
  BY TodoType
<1>3. ASSUME UNCHANGED config, todo' = Tail(todo) \/ todo' = ExitCalls \/ todo' = <<"net">>, todo # << >>
      PROVE  plat' \in Platforms /\ glx' \in GlxBuilds /\ xorg' \in BOOLEAN /\ todo' \in Seq(Steps)
  BY <1>1, <1>2, <1>3, OtherLists DEF TypeOK, config
<1>4. CASE StateInit \/ SetExit
  BY <1>1, <1>3, <1>4 DEF StateInit, SetExit, Calling, TypeOK
<1>5. CASE Gather \/ GatherMisses
  <2>1. info' \subseteq Strings
    BY <1>1, <1>5 DEF Gather, GatherMisses, TypeOK, Fills, Strings
  <2>2. missed' \subseteq Unnoticed
    BY <1>1, <1>5 DEF Gather, GatherMisses, Calling, TypeOK
  <2> QED BY <1>1, <1>3, <1>5, <2>1, <2>2 DEF Gather, GatherMisses, Calling, TypeOK
<1>6. CASE CallCrashes
  BY <1>1, <1>6 DEF CallCrashes, Calling, TypeOK, config
<1>7. CASE CallFails
  BY <1>1, <1>3, <1>7 DEF CallFails, Calling, TypeOK
<1>8. CASE NoXorg \/ GlxFails
  <2>1. info' \subseteq Strings /\ cap' \subseteq {"HOST", "DISP", "GFX_ACCEL"}
        /\ todo # << >> /\ todo' = <<"net">>
    BY <1>1, <1>8 DEF NoXorg, GlxFails, Headless, Calling, TypeOK, Strings
  <2>2. open' \subseteq {"display", "window", "context"}
    BY <1>1, <1>8 DEF NoXorg, GlxFails, TypeOK
  <2> QED BY <1>1, <1>3, <1>8, <2>1, <2>2 DEF NoXorg, GlxFails, TypeOK
<1>9. CASE TryXorg
  <2>1. GlxCalls \in Seq(Steps)
    BY DEF GlxCalls, Steps
  <2>2. todo' \in Seq(Steps)
    BY <1>2, <1>9, <2>1, ConcatProperties DEF TryXorg, Calling
  <2> QED BY <1>1, <1>9, <2>2 DEF TryXorg, TypeOK, config
<1>10. CASE OpenDisplay \/ ChooseVisual
  BY <1>1, <1>3, <1>10 DEF OpenDisplay, ChooseVisual, Calling, TypeOK
<1>11. CASE CreateContext
  BY <1>1, <1>3, <1>11 DEF CreateContext, Calling, TypeOK, Strings
<1>12. CASE NodeInit
  BY <1>1, <1>12 DEF NodeInit, TypeOK, config
<1>13. CASE NodeInitFails
  BY <1>1, <1>13, OtherLists DEF NodeInitFails, TypeOK, config
<1>14. CASE CallBack
  <2>1. todo # << >>
    <3>1. \E k \in 1..4 : todo = From(ExitCalls, k)
      BY <1>14 DEF CallBack, IInv, Exiting
    <3> QED BY <3>1, ListsNext
  <2> QED BY <1>1, <1>3, <1>14, <2>1 DEF CallBack, TypeOK
<1>15. CASE Rest \/ UNCHANGED vars
  BY <1>1, <1>15 DEF Rest, vars, TypeOK
<1> QED
  BY <1>4, <1>5, <1>6, <1>7, <1>8, <1>9, <1>10, <1>11, <1>12, <1>13, <1>14, <1>15 DEF Next

\* What PLAT_Init has set up when it stops being called, whichever way.
LEMMA Ready ==
    ASSUME IInv, pc = "PLAT_Init", todo = << >>
    PROVE  "exit" \in cb /\ (missed = {} => Strings \subseteq info) /\ InLoop
<1>1. /\ TypeOK /\ InPlatInit /\ plat \in Platforms
      /\ CallsOf(plat) \in Seq(Steps) /\ Len(CallsOf(plat)) \in Nat
      /\ plat \in Linux => Len(CallsOf(plat)) = 8
  BY CallsType DEF IInv, TypeOK
<1>2. ASSUME NEW k \in 1..(Len(CallsOf(plat)) + 1), Gathering(k)
      PROVE  "exit" \in cb /\ (missed = {} => Strings \subseteq info) /\ InLoop
  <2>1. k = Len(CallsOf(plat)) + 1
    BY <1>1, <1>2, FromEmpty DEF Gathering
  <2>2. plat \notin Linux
    BY <1>1, <1>2, <2>1 DEF Gathering
  <2> QED BY <1>1, <1>2, <2>1, <2>2, AllCalled DEF Gathering, InLoop
<1>3. ~ \E j \in 1..3 : TryingXorg(j)
  BY ListsNext DEF TryingXorg
<1> QED BY <1>1, <1>2, <1>3 DEF InPlatInit, InLoop

\* A call that only fills in data, or sets the callback.
LEMMA PlainCall ==
    ASSUME IInv, TypeOK', StateInit \/ SetExit \/ Gather \/ GatherMisses
    PROVE  IInv'
<1>1. /\ TypeOK /\ pc = "PLAT_Init" /\ pc' = pc /\ todo # << >> /\ todo' = Tail(todo)
      /\ plat' = plat /\ cap' = cap /\ open' = open
  BY DEF IInv, StateInit, SetExit, Gather, GatherMisses, Calling, config
<1>2. /\ info \subseteq info' /\ info' \subseteq info \cup Fills(Head(todo))
      /\ missed' = {} => missed = {} /\ Fills(Head(todo)) \subseteq info'
      /\ Head(todo) \notin {"gfx", "XOpenDisplay", "glXChooseVisual", "glXCreateContext"}
      /\ "gfx" \in cb' => "gfx" \in cb
      /\ Head(todo) = "net" => cb' = cb
      /\ Head(todo) = "set_exit" => "exit" \in cb'
      /\ "exit" \in cb => "exit" \in cb' \/ Head(todo) = "STATE_Init"
  <2>1. CASE StateInit \/ SetExit
    BY <2>1 DEF StateInit, SetExit, Calling, Fills, Strings
  <2>2. CASE Gather
    BY <2>2 DEF Gather, Calling, Strings
  <2>3. CASE GatherMisses
    <3>1. /\ Head(todo) \in Passed(plat) /\ cb' = cb /\ Head(todo) \in missed'
          /\ info' \in {info, info \cup Fills(Head(todo))}
      BY <2>3 DEF GatherMisses, Calling
    <3>2. Passed(plat) \subseteq {"name", "cpu", "strings"}
      BY <1>1 DEF Passed, TypeOK
    <3> QED BY <3>1, <3>2
  <2> QED BY <2>1, <2>2, <2>3
<1>4. ASSUME NEW k \in 1..Len(CallsOf(plat)), Gathering(k),
             Head(todo) = CallsOf(plat)[k], Tail(todo) = From(CallsOf(plat), k + 1)
      PROVE  \E i \in 1..(Len(CallsOf(plat)) + 1) : Gathering(i)'
  <2>1. "gfx" \notin cb'
    BY <1>2, <1>4 DEF Gathering, Untouched
  <2> QED BY <1>1, <1>2, <1>4, <2>1, NextCall
<1>5. ASSUME plat \in Linux, todo = <<"net">>, "exit" \in cb, missed = {} => Strings \subseteq info, Settled
      PROVE  todo' = << >> /\ "exit" \in cb' /\ (missed' = {} => Strings \subseteq info') /\ Settled'
  <2>1. Head(todo) = "net" /\ todo' = << >>
    BY <1>1, <1>5, OtherLists
  <2>2. cb' = cb
    BY <1>2, <2>1
  <2> QED BY <1>1, <1>2, <1>5, <2>1, <2>2 DEF Settled, Untouched
<1>6. ~ \E j \in 1..3 : Head(todo) = GlxCalls[j]
  BY <1>2 DEF GlxCalls
<1>7. InPlatInit'
  BY <1>1, <1>4, <1>5, <1>6, AtCall DEF InPlatInit
<1> QED BY <1>1, <1>7 DEF IInv, NeverStuck

\* A call dies of a failure it does not look at.
LEMMA CallCrashesStep ==
    ASSUME IInv, TypeOK', CallCrashes
    PROVE  IInv'
<1>1. /\ TypeOK /\ pc = "PLAT_Init" /\ pc' = "crashed" /\ todo # << >>
      /\ Head(todo) \in Dies(plat) /\ cb' = cb /\ info' = info /\ missed' # {}
      /\ Head(todo) # "glXCreateContext" => open' = open
  BY DEF IInv, CallCrashes, Calling
<1>2. Head(todo) # "net"
  BY <1>1 DEF Dies, TypeOK
<1>3. CleansUp'
  <2>1. ASSUME NEW k \in 1..Len(CallsOf(plat)), Gathering(k), Head(todo) # "glXCreateContext" PROVE open' = {}
    BY <1>1, <2>1 DEF Gathering, Untouched
  <2>2. ASSUME NEW j \in 1..3, TryingXorg(j) PROVE "gpu" \notin info'
    BY <1>1, <2>2 DEF TryingXorg
  <2>3. todo # <<"net">>
    BY <1>2, OtherLists
  <2> QED BY <1>1, <2>1, <2>2, <2>3, AtCall DEF CleansUp
<1> QED BY <1>1, <1>3 DEF IInv, NeverStuck

LEMMA CallFailsStep ==
    ASSUME IInv, TypeOK', CallFails
    PROVE  IInv'
<1>1. /\ TypeOK /\ pc = "PLAT_Init" /\ pc' = "exiting" /\ todo # << >> /\ todo' = ExitCalls
      /\ Head(todo) \in Fatal(plat) /\ plat \in Platforms
      /\ cb' = cb /\ open' = open
  BY DEF IInv, TypeOK, CallFails, Calling
<1>2. Fatal(plat) \cap {"XOpenDisplay", "glXChooseVisual", "glXCreateContext"} = {}
  BY <1>1 DEF Fatal
<1>3. ~ \E j \in 1..3 : Head(todo) = GlxCalls[j]
  BY <1>1, <1>2 DEF GlxCalls
<1>4. "exit" \in cb /\ (open = {} \/ "gfx" \in cb)
  <2>1. ASSUME NEW k \in 1..Len(CallsOf(plat)), Gathering(k), Head(todo) = CallsOf(plat)[k]
        PROVE  "exit" \in cb /\ open = {}
    BY <1>1, <2>1, CallbackOrder DEF Gathering, Untouched
  <2> QED BY <1>1, <1>3, <2>1, AtCall DEF Settled, Untouched
<1>5. todo' = From(ExitCalls, 1)
  BY <1>1, OtherLists, FromEnds
<1>6. Exiting(1)'
  BY <1>1, <1>4, <1>5 DEF Exiting
<1> QED BY <1>1, <1>6 DEF IInv, NeverStuck

\* LINUX_GfxInit: everything else but the network is there.
LEMMA GfxCall ==
    ASSUME IInv, Calling("gfx")
    PROVE  /\ plat \in Linux /\ "exit" \in cb /\ (missed = {} => Strings \ {"gpu"} \subseteq info)
           /\ "gpu" \notin info
           /\ Untouched /\ cap = AllCap /\ Tail(todo) = <<"net">>
<1>1. /\ TypeOK /\ pc = "PLAT_Init" /\ todo # << >> /\ Head(todo) = "gfx" /\ plat \in Platforms
  BY DEF IInv, TypeOK, Calling
<1>2. /\ ~ \E j \in 1..3 : Head(todo) = GlxCalls[j]
      /\ todo # <<"net">>
  BY <1>1, OtherLists DEF GlxCalls
<1>3. PICK k \in 1..Len(CallsOf(plat)) :
           Gathering(k) /\ CallsOf(plat)[k] = "gfx" /\ Tail(todo) = From(CallsOf(plat), k + 1)
  BY <1>1, <1>2, AtCall
<1>4. /\ plat \in Linux /\ k = 7 /\ Len(CallsOf(plat)) = 8 /\ CallsOf(plat) \in Seq(Steps)
      /\ k \in 1..(Len(CallsOf(plat)) + 1)
  BY <1>1, <1>3, LinuxOrder, CallsType
<1>5. From(CallsOf(plat), 8) = <<"net">>
  <2>1. CallsOf(plat)[8] = "net"
    BY <1>1, <1>4, LinuxOrder
  <2>2. ASSUME NEW s \in Seq(Steps), Len(s) = 8, s[8] = "net" PROVE From(s, 8) = <<"net">>
    <3>1. 8 \in Nat \ {0}
      OBVIOUS
    <3>2. From(s, 8) = <<s[8]>>
      BY ONLY <2>2, <3>1, FromLast
    <3> QED BY <2>2, <3>2
  <2> QED BY <1>4, <2>1, <2>2
<1>6. Tail(todo) = <<"net">>
  <2>1. k + 1 = 8
    BY <1>4
  <2> QED BY <1>3, <1>5, <2>1
<1>7. "exit" \in cb /\ (missed = {} => Strings \ {"gpu"} \subseteq info)
  BY <1>1, <1>3, <1>4, AllCalled
<1>8. "gpu" \notin info /\ cap = AllCap /\ Untouched
  BY <1>3, <1>4 DEF Gathering
<1> QED BY <1>4, <1>6, <1>7, <1>8

\* No X server: Linux goes on without graphics.
LEMMA HeadlessStep ==
    ASSUME IInv, TypeOK', plat \in Linux, plat' = plat, pc = "PLAT_Init", pc' = pc, cb' = cb,
           "exit" \in cb, "gfx" \notin cb, missed' = missed, missed = {} => Strings \ {"gpu"} \subseteq info,
           Headless, open' = {}
    PROVE  IInv'
<1>1. cap' = {}
  BY DEF IInv, TypeOK, Headless, HeadlessLoses
<1>2. (missed' = {} => Strings \subseteq info') /\ todo' = <<"net">>
  BY DEF Headless
<1>3. Settled'
  BY <1>1 DEF Settled, Untouched
<1>4. InPlatInit'
  BY <1>2, <1>3 DEF InPlatInit
<1> QED BY <1>4 DEF IInv, NeverStuck

LEMMA NoXorgStep ==
    ASSUME IInv, TypeOK', NoXorg
    PROVE  IInv'
<1>1. /\ Calling("gfx") /\ Headless /\ plat' = plat /\ pc = "PLAT_Init" /\ pc' = pc
      /\ cb' = cb /\ open' = open /\ missed' = missed
  BY DEF NoXorg, Calling, config
<1> QED BY <1>1, GfxCall, HeadlessStep DEF Untouched

LEMMA TryXorgStep ==
    ASSUME IInv, TypeOK', TryXorg
    PROVE  IInv'
<1>1. /\ Calling("gfx") /\ UNCHANGED <<plat, pc, cb, info, cap, missed, open>> /\ pc = "PLAT_Init"
      /\ todo' = GlxCalls \o Tail(todo)
  BY DEF TryXorg, Calling, config
<1>2. todo' = From(GlxPlan, 1)
  BY <1>1, GfxCall, OtherLists, FromEnds DEF GlxPlan
<1>3. TryingXorg(1)'
  BY <1>1, <1>2, GfxCall DEF TryingXorg, Untouched, OpenBefore
<1>4. InPlatInit'
  BY <1>1, <1>3, GfxCall DEF InPlatInit
<1> QED BY <1>1, <1>4 DEF IInv, NeverStuck

\* One call of LINUX_GfxInitXorgGLX.
LEMMA XorgCall ==
    ASSUME IInv, NEW i \in 1..3, Calling(GlxCalls[i])
    PROVE  TryingXorg(i) /\ plat \in Linux /\ Tail(todo) = From(GlxPlan, i + 1)
<1>1. /\ TypeOK /\ pc = "PLAT_Init" /\ todo # << >> /\ Head(todo) = GlxCalls[i]
  BY DEF IInv, Calling
<1>2. GlxCalls[i] \in {"XOpenDisplay", "glXChooseVisual", "glXCreateContext"} /\ GlxCalls[i] # "net"
  BY DEF GlxCalls
<1>3. PICK j \in 1..3 : plat \in Linux /\ TryingXorg(j) /\ Head(todo) = GlxCalls[j]
  BY <1>1, <1>2, AtCall, OtherLists
<1>4. i = j
  BY <1>1, <1>3 DEF GlxCalls
<1>5. TryingXorg(i) /\ i \in 1..4
  BY <1>3, <1>4
<1>6. Tail(todo) = From(GlxPlan, i + 1)
  BY <1>5, ListsNext DEF TryingXorg
<1> QED BY <1>3, <1>5, <1>6

LEMMA OpenDisplayStep ==
    ASSUME IInv, TypeOK', OpenDisplay \/ ChooseVisual
    PROVE  IInv'
<1>1. PICK i \in 1..2 :
           /\ Calling(GlxCalls[i]) /\ i \in 1..3
           /\ open' = OpenBefore(i + 1)
  <2>1. CASE OpenDisplay
    BY <2>1 DEF OpenDisplay, GlxCalls, OpenBefore
  <2>2. CASE ChooseVisual
    <3>1. Calling(GlxCalls[2]) /\ open' = open \cup {"window"}
      BY <2>2 DEF ChooseVisual, GlxCalls
    <3>2. open = {"display"}
      BY <3>1, XorgCall DEF TryingXorg, OpenBefore
    <3> QED BY <3>1, <3>2 DEF OpenBefore
  <2> QED BY <2>1, <2>2
<1>2. /\ UNCHANGED <<plat, pc, cb, info, cap, missed>> /\ todo' = Tail(todo) /\ pc = "PLAT_Init"
  BY DEF OpenDisplay, ChooseVisual, Calling, config
<1>3. TryingXorg(i) /\ plat \in Linux /\ Tail(todo) = From(GlxPlan, i + 1)
  BY <1>1, XorgCall
<1>4. TryingXorg(i + 1)'
  BY <1>1, <1>2, <1>3 DEF TryingXorg
<1>5. i + 1 \in 1..3
  OBVIOUS
<1>6. InPlatInit'
  BY <1>2, <1>3, <1>4, <1>5 DEF InPlatInit
<1> QED BY <1>2, <1>6 DEF IInv, NeverStuck

LEMMA CreateContextStep ==
    ASSUME IInv, TypeOK', CreateContext
    PROVE  IInv'
<1>1. /\ Calling(GlxCalls[3]) /\ plat' = plat /\ pc' = pc /\ pc = "PLAT_Init"
      /\ open' = open \cup {"context"} /\ info' = info \cup {"gpu"} /\ cap' = cap \cup {"GFX_ACCEL"}
      /\ cb' = cb \cup {"gfx"} /\ todo' = Tail(todo) /\ missed' = missed
  BY DEF CreateContext, Calling, config, GlxCalls
<1>2. TryingXorg(3) /\ plat \in Linux /\ Tail(todo) = From(GlxPlan, 4)
  BY <1>1, XorgCall
<1>3. From(GlxPlan, 4) = <<"net">>
  <2>1. GlxPlan \in Seq(Steps) /\ Len(GlxPlan) = 4 /\ GlxPlan[4] = "net"
    BY OtherLists
  <2> QED BY <2>1, FromLast
<1>4. Settled'
  BY <1>1, <1>2 DEF TryingXorg, Settled, OpenBefore, AllOpen, AllCap
<1>5. (missed' = {} => Strings \subseteq info') /\ "exit" \in cb'
  BY <1>1, <1>2 DEF TryingXorg
<1>6. InPlatInit'
  BY <1>1, <1>2, <1>3, <1>4, <1>5 DEF InPlatInit
<1> QED BY <1>1, <1>6 DEF IInv, NeverStuck

LEMMA GlxFailsStep ==
    ASSUME IInv, TypeOK', GlxFails
    PROVE  IInv'
<1>1. PICK i \in 1..3 : Calling(GlxCalls[i])
  BY DEF GlxFails
<1>2. /\ Headless /\ plat' = plat /\ pc = "PLAT_Init" /\ pc' = pc /\ cb' = cb /\ missed' = missed
      /\ open' = open \ Closes(GlxCalls[i])
  BY <1>1 DEF GlxFails, Calling, config
<1>3. TryingXorg(i) /\ plat \in Linux
  BY <1>1, XorgCall
<1>4. open' = {}
  <2>1. Closes(GlxCalls[i]) = IF i = 1 THEN {} ELSE IF i = 2 THEN {"display"} ELSE {"window", "display"}
    BY DEF Closes, GlxCalls
  <2> QED BY <1>2, <1>3, <2>1 DEF TryingXorg, OpenBefore
<1> QED BY <1>2, <1>3, <1>4, HeadlessStep DEF TryingXorg

-----------------------------------------------------------------------------
(* main *)

LEMMA NodeInitStep ==
    ASSUME IInv, TypeOK', NodeInit \/ NodeInitFails
    PROVE  IInv'
<1>1. /\ pc = "PLAT_Init" /\ todo = << >> /\ UNCHANGED <<plat, cb, info, cap, missed, open>>
      /\ "exit" \in cb /\ (missed = {} => Strings \subseteq info) /\ InLoop
  BY Ready DEF NodeInit, NodeInitFails, config
<1>2. CASE NodeInit
  <2>1. pc' \in {"loop", "crashed"} /\ (pc' = "crashed" => missed' # {})
    BY <1>1, <1>2 DEF NodeInit
  <2>2. InLoop'
    BY <1>1 DEF InLoop, Settled, Untouched
  <2>3. pc' = "crashed" => CleansUp'
    BY <1>1 DEF InLoop, Settled, Untouched, CleansUp
  <2> QED BY <2>1, <2>2, <2>3 DEF IInv, NeverStuck
<1>3. CASE NodeInitFails
  <2>1. pc' = "exiting" /\ todo' = ExitCalls
    BY <1>3 DEF NodeInitFails
  <2>2. todo' = From(ExitCalls, 1)
    BY <2>1, OtherLists, FromEnds
  <2>3. open = {} \/ "gfx" \in cb
    BY <1>1 DEF InLoop, Settled, Untouched
  <2>4. Exiting(1)'
    BY <1>1, <2>2, <2>3 DEF Exiting
  <2> QED BY <2>1, <2>4 DEF IInv, NeverStuck
<1> QED BY <1>2, <1>3

LEMMA CallBackStep ==
    ASSUME IInv, TypeOK', CallBack
    PROVE  IInv'
<1>1. PICK k \in 1..4 : Exiting(k)
  BY DEF IInv, CallBack
<1>2. /\ Head(todo) = ExitCalls[k] /\ todo' = From(ExitCalls, k + 1) /\ cb' = cb
      /\ ExitCalls[k] = "gfx" <=> k = 2
      /\ ExitCalls[k] = "exit" <=> k = 4
  <2>1. Head(todo) = ExitCalls[k] /\ Tail(todo) = From(ExitCalls, k + 1)
    BY <1>1, ListsNext DEF Exiting
  <2> QED BY <2>1 DEF CallBack, ExitCalls
<1>3. open' = {} \/ ("gfx" \in cb' /\ k + 1 <= 2)
  BY <1>1, <1>2 DEF Exiting, CallBack
<1>4. CASE k < 4
  <2>1. pc' = "exiting"
    BY <1>2, <1>4 DEF CallBack
  <2>2. Exiting(k + 1)' /\ k + 1 \in 1..4
    BY <1>1, <1>2, <1>3, <1>4 DEF Exiting
  <2> QED BY <2>1, <2>2 DEF IInv, NeverStuck
<1>5. CASE k = 4
  <2>1. pc' = "gone"
    BY <1>1, <1>2, <1>5 DEF CallBack, Exiting
  <2> QED BY <1>3, <1>5, <2>1 DEF IInv, NeverStuck
<1> QED BY <1>4, <1>5

-----------------------------------------------------------------------------
(* The theorems *)

LEMMA InvInit == Init => IInv
<1> SUFFICES ASSUME Init PROVE IInv
  OBVIOUS
<1>1. plat \in Platforms /\ CallsOf(plat) \in Seq(Steps) /\ Len(CallsOf(plat)) \in Nat
  BY CallsType DEF Init
<1>2. TypeOK
  <2>1. info \subseteq Strings
    BY <1>1 DEF Init, StaticInfo, Strings
  <2>2. cap \subseteq {"HOST", "DISP", "GFX_ACCEL"}
    BY <1>1 DEF Init, StaticCap
  <2> QED BY <1>1, <2>1, <2>2 DEF Init, TypeOK
<1>3. Gathering(1)
  <2>1. todo = From(CallsOf(plat), 1)
    BY <1>1, FromEnds DEF Init
  <2>2. plat \in Linux => cap = AllCap /\ "gpu" \notin info
    BY <1>1 DEF Init, Linux, StaticCap, StaticInfo, AllCap
  <2> QED BY <1>1, <2>1, <2>2 DEF Init, Gathering, Untouched
<1>4. InPlatInit
  BY <1>1, <1>3 DEF InPlatInit
<1> QED BY <1>2, <1>4 DEF Init, IInv, NeverStuck

LEMMA InvStutter == IInv /\ UNCHANGED vars => IInv'
<1> SUFFICES ASSUME IInv, UNCHANGED vars PROVE IInv'
  OBVIOUS
<1>1. UNCHANGED <<plat, glx, xorg, pc, todo, cb, info, cap, missed, open>>
  BY DEF vars
<1> QED BY <1>1 DEF IInv, TypeOK, InPlatInit, Gathering, TryingXorg, Settled, InLoop, Exiting, Untouched,
                    CleansUp, NeverStuck

LEMMA InvStep == IInv /\ [Next]_vars => IInv'
<1> SUFFICES ASSUME IInv, [Next]_vars PROVE IInv'
  OBVIOUS
<1>1. TypeOK'
  BY TypeStep
<1>2. CASE StateInit \/ SetExit \/ Gather \/ GatherMisses
  BY <1>1, <1>2, PlainCall
<1>3. CASE CallFails \/ CallCrashes
  BY <1>1, <1>3, CallFailsStep, CallCrashesStep
<1>4. CASE NoXorg
  BY <1>1, <1>4, NoXorgStep
<1>5. CASE TryXorg
  BY <1>1, <1>5, TryXorgStep
<1>6. CASE OpenDisplay \/ ChooseVisual
  BY <1>1, <1>6, OpenDisplayStep
<1>7. CASE CreateContext
  BY <1>1, <1>7, CreateContextStep
<1>8. CASE GlxFails
  BY <1>1, <1>8, GlxFailsStep
<1>9. CASE NodeInit \/ NodeInitFails
  BY <1>1, <1>9, NodeInitStep
<1>10. CASE CallBack
  BY <1>1, <1>10, CallBackStep
<1>11. CASE Rest \/ UNCHANGED vars
  BY <1>11, InvStutter DEF Rest
<1> QED BY <1>2, <1>3, <1>4, <1>5, <1>6, <1>7, <1>8, <1>9, <1>10, <1>11 DEF Next

\* What main() and the calls below it rely on, at every step.
THEOREM Invariant == Spec => []IInv
BY InvInit, InvStep, PTL DEF Spec

\* Every variable keeps its type, on any of the platforms and whichever calls
\* may fail.
THEOREM TypeCorrect == Spec => []TypeOK
<1>1. IInv => TypeOK
  BY DEF IInv
<1> QED BY <1>1, Invariant, PTL

\* Neither a back end that gave up nor a program that ends leaves anything of
\* the X connection open, whichever calls fail (LINUX_GfxInitXorgGLX, the
\* graphics callback of APP_CleanupAndExit).
THEOREM CleansUpCorrect == Spec => []CleansUp
<1>1. IInv => CleansUp
  <2> SUFFICES ASSUME IInv PROVE CleansUp
    OBVIOUS
  <2>1. pc = "gone" => open = {}
    BY DEF IInv
  <2>2. ASSUME "gfx" \notin cb, "gpu" \in info PROVE open = {}
    <3>1. pc \in {"PLAT_Init", "loop", "exiting", "gone", "crashed"}
      BY DEF IInv, TypeOK, NeverStuck
    <3>2. pc = "PLAT_Init" => open = {}
      BY <2>2 DEF IInv, InPlatInit, Gathering, TryingXorg, Settled, Untouched
    <3>3. pc = "loop" \/ pc = "exiting" => open = {}
      BY <2>2 DEF IInv, InLoop, Settled, Untouched, Exiting
    <3>4. pc = "crashed" => open = {}
      BY <2>2 DEF IInv, CleansUp
    <3> QED BY <2>1, <3>1, <3>2, <3>3, <3>4
  <2> QED BY <2>1, <2>2 DEF CleansUp
<1> QED BY <1>1, Invariant, PTL

\* A Linux device claims to host and to display exactly if it has a working
\* connection to the X server (LINUX_GfxInit).
THEOREM CapTrueCorrect == Spec => []CapTrue
<1>1. IInv => CapTrue
  BY DEF IInv, CapTrue, InLoop, Settled, Untouched, Linux, AllOpen, AllCap
<1> QED BY <1>1, Invariant, PTL

\* The safety half of Settles: APP_CleanupAndExit always has the callback it
\* needs to leave, and nothing but a failure that no code looks at leaves a call
\* or NODE_Init a string that is not there.
THEOREM NeverHangs == Spec => []NeverStuck
<1>1. IInv => NeverStuck
  BY DEF IInv
<1> QED BY <1>1, Invariant, PTL

-----------------------------------------------------------------------------
(* Settles.  Every step brings the program nearer to an end: Rank counts    *)
(* the calls it may still make.  Induction over the rank is not to be had   *)
(* below <>, but the rank of any program here is at most 16.                *)

\* LINUX_GfxInit is still to come; it is the last call but one.
GfxAhead == Len(todo) >= 2 /\ todo[Len(todo) - 1] = "gfx"

Rank ==
    IF pc = "PLAT_Init" THEN 5 + Len(todo) + (IF GfxAhead THEN 3 ELSE 0)
    ELSE IF pc = "exiting" THEN Len(todo)
    ELSE 0

Reach(i) == <>(Rank <= i)

LEMMA RankType == IInv => Rank \in Nat /\ (Rank = 0 => AtEnd)
<1> SUFFICES ASSUME IInv PROVE Rank \in Nat /\ (Rank = 0 => AtEnd)
  OBVIOUS
<1>1. TypeOK /\ Len(todo) \in Nat
  BY LenProperties DEF IInv, TypeOK
<1>2. pc = "exiting" => Len(todo) # 0
  <2> SUFFICES ASSUME NEW k \in 1..4, Exiting(k) PROVE Len(todo) # 0
    BY DEF IInv
  <2>1. todo # << >>
    BY ListsNext DEF Exiting
  <2> QED BY <1>1, <2>1, EmptySeq DEF TypeOK
<1> QED BY <1>1, <1>2 DEF Rank, AtEnd, TypeOK

LEMMA RankTypeNext == (IInv => Rank \in Nat /\ (Rank = 0 => AtEnd))'
BY RankType, PTL

\* A call that is only made.
LEMMA CallMade ==
    ASSUME IInv, pc = "PLAT_Init", pc' = pc, todo # << >>, todo' = Tail(todo)
    PROVE  Rank' < Rank
<1>1. todo \in Seq(Steps) /\ Len(todo) \in Nat /\ Len(todo) >= 1
  BY LenProperties, EmptySeq DEF IInv, TypeOK
<1>2. Len(todo') = Len(todo) - 1 /\ \A i \in 1..Len(todo') : todo'[i] = todo[i + 1]
  BY <1>1, HeadTailProperties
<1>3. GfxAhead' => GfxAhead
  <2> SUFFICES ASSUME GfxAhead' PROVE GfxAhead
    OBVIOUS
  <2>1. Len(todo') >= 2 /\ todo'[Len(todo') - 1] = "gfx"
    BY DEF GfxAhead
  <2>2. Len(todo') - 1 \in 1..Len(todo')
    BY <1>1, <1>2, <2>1
  <2>3. todo[(Len(todo') - 1) + 1] = "gfx"
    BY <1>2, <2>1, <2>2
  <2> QED BY <1>1, <1>2, <2>1, <2>3 DEF GfxAhead
<1> QED BY <1>1, <1>2, <1>3 DEF Rank

\* The graphics of Linux are tried, and given up.
LEMMA GfxRank ==
    ASSUME IInv, NoXorg \/ TryXorg \/ GlxFails
    PROVE  Rank' < Rank
<1>1. /\ pc = "PLAT_Init" /\ pc' = pc /\ todo \in Seq(Steps) /\ Len(todo) \in Nat
      /\ todo # << >> /\ Len(todo) >= 1
  BY LenProperties, EmptySeq DEF NoXorg, TryXorg, GlxFails, Calling, IInv, TypeOK
<1>2. ASSUME Calling("gfx") PROVE GfxAhead /\ Len(todo) = 2 /\ Tail(todo) = <<"net">>
  <2>1. Tail(todo) = <<"net">> /\ Head(todo) = "gfx"
    BY <1>2, GfxCall DEF Calling
  <2>2. Len(Tail(todo)) = Len(todo) - 1 /\ Head(todo) = todo[1] /\ Len(<<"net">>) = 1
    BY <1>1, HeadTailProperties
  <2>3. Len(Tail(todo)) = 1
    BY <2>1, <2>2
  <2>4. Len(todo) = 2 /\ Len(todo) - 1 = 1
    <3>1. ASSUME NEW m \in Nat, NEW n, n = m - 1, n = 1 PROVE m = 2 /\ m - 1 = 1
      BY <3>1
    <3> QED BY <1>1, <2>2, <2>3, <3>1
  <2>5. todo[1] = "gfx"
    BY <2>1, <2>2
  <2> QED BY <2>1, <2>4, <2>5 DEF GfxAhead
<1>3. ASSUME Headless PROVE Len(todo') = 1 /\ ~ GfxAhead'
  BY <1>3 DEF Headless, GfxAhead
<1>4. CASE NoXorg
  <2>1. Calling("gfx") /\ Headless
    BY <1>4 DEF NoXorg
  <2>2. GfxAhead /\ Len(todo) = 2 /\ Len(todo') = 1 /\ ~ GfxAhead'
    BY <1>2, <1>3, <2>1
  <2> QED BY <1>1, <2>2 DEF Rank
<1>5. CASE TryXorg
  <2>1. todo' = GlxPlan
    BY <1>2, <1>5 DEF TryXorg, GlxPlan
  <2>2. Len(todo') = 4 /\ todo'[3] # "gfx"
    BY <2>1, OtherLists
  <2>3. ~ GfxAhead'
    BY <2>2 DEF GfxAhead
  <2> QED BY <1>1, <1>2, <1>5, <2>2, <2>3 DEF TryXorg, Rank
<1>6. CASE GlxFails
  <2>1. PICK i \in 1..3 : Calling(GlxCalls[i])
    BY <1>6 DEF GlxFails
  <2>2. Tail(todo) = From(GlxPlan, i + 1)
    BY <2>1, XorgCall
  <2>3. Tail(todo) # << >>
    <3>1. i + 1 \in 1..4
      OBVIOUS
    <3> QED BY <2>2, <3>1, ListsNext
  <2>4. Len(Tail(todo)) = Len(todo) - 1 /\ Tail(todo) \in Seq(Steps)
    BY <1>1, HeadTailProperties
  <2>5. Len(todo) > 1
    BY <1>1, <2>3, <2>4, EmptySeq
  <2>6. Len(todo') = 1 /\ ~ GfxAhead'
    BY <1>3, <1>6 DEF GlxFails
  <2> QED BY <1>1, <2>5, <2>6 DEF Rank
<1> QED BY <1>4, <1>5, <1>6

LEMMA RankFalls ==
    ASSUME IInv, IInv', Next, vars' # vars
    PROVE  Rank' < Rank
<1>1. Len(todo) \in Nat /\ Len(todo') \in Nat /\ TypeOK
  BY LenProperties DEF IInv, TypeOK
<1>2. CASE \/ StateInit \/ SetExit \/ Gather \/ GatherMisses
           \/ OpenDisplay \/ ChooseVisual \/ CreateContext
  BY <1>2, CallMade
  DEF StateInit, SetExit, Gather, GatherMisses, OpenDisplay, ChooseVisual,
      CreateContext, Calling
<1>3. CASE CallFails \/ NodeInitFails
  <2>1. pc = "PLAT_Init" /\ pc' = "exiting" /\ Len(todo') = 4
    BY <1>3, OtherLists DEF CallFails, NodeInitFails, Calling
  <2> QED BY <1>1, <2>1 DEF Rank
<1>4. CASE NoXorg \/ TryXorg \/ GlxFails
  BY <1>4, GfxRank
<1>5. CASE NodeInit \/ CallCrashes
  <2>1. pc = "PLAT_Init" /\ pc' \in {"loop", "crashed"}
    BY <1>5 DEF NodeInit, CallCrashes, Calling
  <2> QED BY <1>1, <2>1 DEF Rank
<1>6. CASE CallBack
  <2>1. PICK k \in 1..4 : Exiting(k)
    BY <1>6 DEF IInv, CallBack
  <2>2. todo \in Seq(Steps) /\ todo # << >>
    BY <2>1, ListsNext DEF Exiting, IInv, TypeOK
  <2>3. Len(todo') = Len(todo) - 1
    BY <1>6, <2>2, HeadTailProperties DEF CallBack
  <2>4. pc = "exiting" /\ pc' \in {"exiting", "gone", "hung"}
    BY <1>6 DEF CallBack
  <2>5. Len(todo) # 0
    BY <2>2, EmptySeq
  <2> QED BY <1>1, <2>3, <2>4, <2>5 DEF Rank
<1> QED BY <1>2, <1>3, <1>4, <1>5, <1>6 DEF Next, Rest

LEMMA RankAtFirst == Init => Rank <= 16
<1> SUFFICES ASSUME Init PROVE Rank <= 16
  OBVIOUS
<1>1. plat \in Platforms /\ pc = "PLAT_Init" /\ todo = CallsOf(plat)
  BY DEF Init
<1>2. Len(CallsOf(plat)) \in 0..8
  BY <1>1, EachCalls DEF LinuxCalls, AndroidCalls, OsxCalls, Nt4Calls, DosCalls, SwitchCalls
<1>3. Len(todo) \in Nat /\ Len(todo) <= 8
  <2>1. ASSUME NEW n \in 0..8 PROVE n \in Nat /\ n <= 8
    OBVIOUS
  <2> QED BY <1>1, <1>2, <2>1
<1> QED BY <1>1, <1>3 DEF Rank

\* One call nearer to the end.
LEMMA Descent ==
    ASSUME NEW i \in Nat
    PROVE  FairSpec => (Reach(i + 1) => Reach(i))
<1>1. IInv /\ IInv' /\ Rank <= i + 1 /\ <<Next>>_vars => (Rank <= i)'
  <2> SUFFICES ASSUME IInv, IInv', Rank <= i + 1, Next, vars' # vars PROVE Rank' <= i
    OBVIOUS
  <2>1. Rank' < Rank /\ Rank \in Nat /\ Rank' \in Nat
    BY RankFalls, RankType, RankTypeNext
  <2> QED BY <2>1
<1>2. IInv /\ IInv' /\ Rank <= i + 1 /\ [Next]_vars => (Rank <= i + 1)'
  <2> SUFFICES ASSUME IInv, IInv', Rank <= i + 1, [Next]_vars PROVE Rank' <= i + 1
    OBVIOUS
  <2>1. CASE UNCHANGED vars
    BY <2>1 DEF vars, Rank, GfxAhead
  <2>2. CASE vars' # vars
    <3>1. Rank' < Rank /\ Rank \in Nat /\ Rank' \in Nat
      BY <2>2, RankFalls, RankType, RankTypeNext
    <3> QED BY <3>1
  <2> QED BY <2>1, <2>2
<1>3. AtEnd => Rank <= i
  BY DEF AtEnd, Rank
<1> QED BY <1>1, <1>2, <1>3, Invariant, PTL DEF Spec, FairSpec, Reach

LEMMA Descent2 ==
    ASSUME NEW i \in Nat
    PROVE  FairSpec => (Reach(i + 2) => Reach(i))
<1>1. i + 1 \in Nat /\ (i + 1) + 1 = i + 2
  OBVIOUS
<1> QED BY <1>1, Descent

LEMMA Descent4 ==
    ASSUME NEW i \in Nat
    PROVE  FairSpec => (Reach(i + 4) => Reach(i))
<1>1. i + 2 \in Nat /\ (i + 2) + 2 = i + 4
  OBVIOUS
<1> QED BY <1>1, Descent2

LEMMA Descent8 ==
    ASSUME NEW i \in Nat
    PROVE  FairSpec => (Reach(i + 8) => Reach(i))
<1>1. i + 4 \in Nat /\ (i + 4) + 4 = i + 8
  OBVIOUS
<1> QED BY <1>1, Descent4

\* Whichever calls fail, on whichever platform, the program gets into its main
\* loop or out through the exit callback (main, APP_CleanupAndExit), unless it
\* falls over a failure that none of its code looks at.
THEOREM SettlesCorrect == FairSpec => Settles
<1>1. FairSpec => Reach(16)
  BY RankAtFirst, PTL DEF FairSpec, Spec, Reach
<1>2. FairSpec => (Reach(16) => Reach(8))
  <2>1. 8 \in Nat /\ 8 + 8 = 16
    OBVIOUS
  <2> QED BY <2>1, Descent8
<1>3. FairSpec => (Reach(8) => Reach(0))
  <2>1. 0 \in Nat /\ 0 + 8 = 8
    OBVIOUS
  <2> QED BY <2>1, Descent8
<1>4. IInv /\ Rank <= 0 => pc \in {"loop", "gone"} \/ (pc = "crashed" /\ missed # {})
  <2> SUFFICES ASSUME IInv, Rank <= 0 PROVE pc \in {"loop", "gone"} \/ (pc = "crashed" /\ missed # {})
    OBVIOUS
  <2>1. AtEnd
    BY RankType
  <2> QED BY <2>1 DEF AtEnd, IInv, NeverStuck
<1>5. FairSpec => Reach(0)
  BY <1>1, <1>2, <1>3
<1> QED BY <1>4, <1>5, Invariant, PTL DEF FairSpec, Reach, Settles
=============================================================================
