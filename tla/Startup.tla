------------------------------- MODULE Startup -------------------------------
(***************************************************************************)
(* From main() (app/main.c) to the main loop, or out of the program again: *)
(* PLAT_Init of each platform, the graphics back end of Linux, NODE_Init's *)
(* use of PLAT_Info, and APP_CleanupAndExit (app/exit.c).  A step is one   *)
(* call that may fail, or one callback on the way out.                     *)
(*                                                                         *)
(* Windows, GameCube and Wii are left out: they have no                    *)
(* PLAT_NetDoBroadcast and can not be linked yet.                          *)
(***************************************************************************)
EXTENDS Naturals, Sequences

CONSTANTS
    Platforms,   \* the platforms this is built for
    GlxBuilds,   \* the values of CONFIG_GFX_GLX
    Failing,     \* the calls whose failing is looked at that may fail
    Unnoticed    \* the calls in which something nobody looks at may fail

ASSUME StartupAssumption ==
    /\ Platforms \subseteq {"linux", "android", "osx", "nt4", "dos", "switch"}
    /\ GlxBuilds \subseteq BOOLEAN

VARIABLES
    plat,      \* the platform,
    glx,       \* whether CONFIG_GFX_GLX is set,
    xorg,      \* and whether the environment has DISPLAY: never change
    pc,        \* where the program is
    todo,      \* the calls left
    cb,        \* G_State.exitCallbacks: those that are not NULL
    info,      \* the strings of PLAT_Info that are not NULL
    cap,       \* PLAT_Info.cap, as far as it is about graphics
    missed,    \* the calls in which something failed that nobody looked at
    open       \* what is open of the connection to the X server

vars == <<plat, glx, xorg, pc, todo, cb, info, cap, missed, open>>
config == <<plat, glx, xorg>>

-----------------------------------------------------------------------------
(* PLAT_Init of each platform: the calls it makes, in order *)

LinuxCalls ==
    <<"STATE_Init", "set_exit", "name", "os", "uuid", "cpu", "gfx", "net">>

\* rand() in place of /etc/machine-id.
AndroidCalls ==
    <<"STATE_Init", "set_exit", "name", "os", "rand", "cpu", "gfx", "net">>

OsxCalls == <<"STATE_Init", "set_exit", "name", "memory", "os", "cpu", "gpu", "net">>

Nt4Calls == <<"set_exit", "cpu", "strings", "gpu", "net">>

DosCalls == <<"STATE_Init", "set_exit", "net", "cpu">>

\* Mutant: STATE_Init wipes the exit callback out again.
SwitchCallsLate == <<"set_exit", "STATE_Init", "os", "model", "serial", "net">>

SwitchCalls == <<"STATE_Init", "set_exit", "os", "model", "serial", "net">>

CallsOf(p) ==
    CASE p = "linux" -> LinuxCalls
      [] p = "android" -> AndroidCalls
      [] p = "osx" -> OsxCalls
      [] p = "nt4" -> Nt4Calls
      [] p = "dos" -> DosCalls
      [] p = "switch" -> SwitchCalls

\* A failure of these ends the program; what else can fail is put up with.
Fatal(p) ==
    CASE p \in {"linux", "android"} -> {"name", "os", "uuid", "cpu", "net"}
      [] p = "osx" -> {"name", "memory", "os", "cpu", "net"}
      [] p = "nt4" -> {"strings", "net"}
      [] p = "dos" -> {"net"}
      [] p = "switch" -> {"os", "net"}

Strings == {"name", "os", "arch", "cpu", "gpu"}

\* The initializers of PLAT_Info.
StaticInfo(p) == IF p = "dos" THEN Strings ELSE {"arch"}

StaticCap(p) ==
    CASE p \in {"linux", "android", "osx"} -> {"HOST", "DISP", "GFX_ACCEL"}
      [] p = "nt4" -> {"HOST", "DISP"}
      [] p = "dos" -> {"DISP"}
      [] p = "switch" -> {"DISP", "GFX_ACCEL"}

\* The strings of PLAT_Info a call fills in.
Fills(call) ==
    CASE call = "strings" -> {"os", "name"}
      [] call = "model" -> {"name", "cpu", "gpu"}
      [] call \in Strings -> {call}
      [] OTHER -> {}

Init ==
    /\ plat \in Platforms
    /\ glx \in GlxBuilds
    /\ xorg \in BOOLEAN
    /\ pc = "PLAT_Init"
    /\ todo = CallsOf(plat)
    /\ cb = {}
    /\ info = StaticInfo(plat)
    /\ cap = StaticCap(plat)
    /\ missed = {}
    /\ open = {}

Calling(call) == pc = "PLAT_Init" /\ todo # << >> /\ Head(todo) = call

StateInit ==
    /\ Calling("STATE_Init")
    /\ cb' = {}
    /\ todo' = Tail(todo)
    /\ UNCHANGED <<config, pc, info, cap, missed, open>>

SetExit ==
    /\ Calling("set_exit")
    /\ cb' = cb \cup {"exit"}
    /\ todo' = Tail(todo)
    /\ UNCHANGED <<config, pc, info, cap, missed, open>>

Gather ==
    /\ \E call \in Strings \cup {"strings", "model", "memory", "uuid", "rand", "serial", "net"} : Calling(call)
    /\ info' = info \cup Fills(Head(todo))
    /\ todo' = Tail(todo)
    /\ UNCHANGED <<config, pc, cb, cap, missed, open>>

\* Where a failure counts as success: the allocation of the name on Mac OS X (a
\* NULL buffer only asks sysctlbyname for the length), a read of nothing from
\* /proc/cpuinfo (-errno, which nothing has set), the name of an NT computer,
\* whose buffer then holds anything.
Passed(p) ==
    CASE p = "osx" -> {"name"}
      [] p \in {"linux", "android"} -> {"cpu"}
      [] p = "nt4" -> {"strings"}
      [] OTHER -> {}

GatherMisses ==
    /\ \E call \in Passed(plat) \cap Unnoticed : Calling(call)
    /\ info' = IF plat = "nt4" THEN info \cup Fills(Head(todo)) ELSE info
    /\ missed' = missed \cup {Head(todo)}
    /\ todo' = Tail(todo)
    /\ UNCHANGED <<config, pc, cb, cap, open>>

\* Where the call itself uses what it did not get: a model behind the last of
\* the DMI paths, the copy of the CPU's name, the strings of a context that was
\* not made current and the copy of them, a <string> that is never closed.
Dies(p) ==
    CASE p \in {"linux", "android"} -> {"name", "cpu", "glXCreateContext"}
      [] p = "osx" -> {"os"}
      [] OTHER -> {}

\* What the program does from here on is undefined.
CallCrashes ==
    /\ \E call \in Dies(plat) \cap Unnoticed : Calling(call)
    /\ pc' = "crashed"
    /\ missed' = missed \cup {Head(todo)}
    /\ open' = IF Head(todo) = "glXCreateContext" THEN open \cup {"context"} ELSE open
    /\ UNCHANGED <<config, todo, cb, info, cap>>

ExitCalls == <<"snd", "gfx", "plat", "exit">>

\* The call fails: APP_CleanupAndExit, from main when PLAT_Init returned an
\* error, or on the spot.
CallFails ==
    /\ \E call \in Fatal(plat) \cap Failing : Calling(call)
    /\ pc' = "exiting"
    /\ todo' = ExitCalls
    /\ UNCHANGED <<config, cb, info, cap, missed, open>>
-----------------------------------------------------------------------------
(* Linux: LINUX_GfxInit and LINUX_GfxInitXorgGLX *)

GlxCalls == <<"XOpenDisplay", "glXChooseVisual", "glXCreateContext">>

\* Mutant: the capabilities to display and to host are kept.
HeadlessButShown == {"GFX_ACCEL"}

HeadlessLoses == {"HOST", "DISP", "GFX_ACCEL"}

\* The back ends for Wayland, DRM and fbdev are not called yet: they fail.
Headless ==
    /\ info' = info \cup {"gpu"}
    /\ cap' = cap \ HeadlessLoses
    /\ todo' = <<"net">>

NoXorg ==
    /\ Calling("gfx")
    /\ ~ (glx /\ xorg)
    /\ Headless
    /\ UNCHANGED <<config, pc, cb, missed, open>>

TryXorg ==
    /\ Calling("gfx")
    /\ glx /\ xorg
    /\ todo' = GlxCalls \o Tail(todo)
    /\ UNCHANGED <<config, pc, cb, info, cap, missed, open>>

OpenDisplay ==
    /\ Calling("XOpenDisplay")
    /\ open' = {"display"}
    /\ todo' = Tail(todo)
    /\ UNCHANGED <<config, pc, cb, info, cap, missed>>

ChooseVisual ==
    /\ Calling("glXChooseVisual")
    /\ open' = open \cup {"window"}
    /\ todo' = Tail(todo)
    /\ UNCHANGED <<config, pc, cb, info, cap, missed>>

\* The context is made current, and PLAT_Info.gpu is what glGetString says.
CreateContext ==
    /\ Calling("glXCreateContext")
    /\ open' = open \cup {"context"}
    /\ info' = info \cup {"gpu"}
    /\ cap' = cap \cup {"GFX_ACCEL"}
    /\ cb' = cb \cup {"gfx"}
    /\ todo' = Tail(todo)
    /\ UNCHANGED <<config, pc, missed>>

\* Mutant: the error path of glXCreateContext forgets the connection.
ClosesWindowOnly(call) == IF call = "glXCreateContext" THEN {"window"} ELSE {"display"}

\* What the error path of a call closes.
Closes(call) ==
    CASE call = "XOpenDisplay" -> {}
      [] call = "glXChooseVisual" -> {"display"}
      [] call = "glXCreateContext" -> {"window", "display"}

GlxFails ==
    /\ \E i \in 1..3 : Calling(GlxCalls[i])
    /\ Head(todo) \in Failing
    /\ open' = open \ Closes(Head(todo))
    /\ Headless
    /\ UNCHANGED <<config, pc, cb, missed>>
-----------------------------------------------------------------------------
(* main *)

\* PLAT_Init returned 0: main prints PLAT_Info, and NODE_Init copies it.
\* What a NULL pointer does there is undefined, or a string nobody has written.
NodeInit ==
    /\ pc = "PLAT_Init" /\ todo = << >>
    /\ pc' \in IF ~ (Strings \subseteq info) THEN {"crashed"}
              ELSE IF missed = {} THEN {"loop"} ELSE {"loop", "crashed"}
    /\ UNCHANGED <<config, todo, cb, info, cap, missed, open>>

\* The list is allocated before anything is copied.
NodeInitFails ==
    /\ pc = "PLAT_Init" /\ todo = << >>
    /\ "malloc" \in Failing
    /\ pc' = "exiting"
    /\ todo' = ExitCalls
    /\ UNCHANGED <<config, cb, info, cap, missed, open>>

\* One line of APP_CleanupAndExit; after the last one it hangs on purpose.
CallBack ==
    /\ pc = "exiting"
    /\ open' = IF Head(todo) = "gfx" /\ "gfx" \in cb THEN {} ELSE open
    /\ pc' = IF Head(todo) # "exit" THEN "exiting"
             ELSE IF "exit" \in cb THEN "gone" ELSE "hung"
    /\ todo' = Tail(todo)
    /\ UNCHANGED <<config, cb, info, cap, missed>>

AtEnd == pc \in {"loop", "gone", "hung", "crashed"}

Rest == AtEnd /\ UNCHANGED vars

Next ==
    \/ StateInit \/ SetExit \/ Gather \/ GatherMisses \/ CallFails \/ CallCrashes
    \/ NoXorg \/ TryXorg \/ OpenDisplay \/ ChooseVisual \/ CreateContext \/ GlxFails
    \/ NodeInit \/ NodeInitFails \/ CallBack
    \/ Rest

Spec == Init /\ [][Next]_vars

\* One thread, and no call waits for ever.  There is a call to make wherever
\* the program is not at an end (the run has no deadlock), so this is weak
\* fairness of Next, written without ENABLED so that it can be reasoned from.
FairSpec == Spec /\ ([]<>AtEnd \/ []<><<Next>>_vars)
-----------------------------------------------------------------------------
(* Properties *)

Steps ==
    {"STATE_Init", "set_exit", "strings", "model", "memory", "net", "uuid", "rand", "serial",
     "gfx", "XOpenDisplay", "glXChooseVisual", "glXCreateContext", "snd", "plat", "exit"}
        \cup Strings

\* Every variable keeps its type.
TypeOK ==
    /\ plat \in Platforms /\ glx \in GlxBuilds /\ xorg \in BOOLEAN
    /\ pc \in {"PLAT_Init", "loop", "exiting", "gone", "hung", "crashed"}
    /\ todo \in Seq(Steps)
    /\ cb \subseteq {"gfx", "exit"}
    /\ info \subseteq Strings
    /\ cap \subseteq {"HOST", "DISP", "GFX_ACCEL"}
    /\ missed \subseteq Unnoticed
    /\ open \subseteq {"display", "window", "context"}

\* Whichever calls fail, on whichever platform, the program gets into its main
\* loop or leaves through the exit callback: APP_CleanupAndExit never has to
\* hang for want of a callback, and a failure that is looked at never leaves
\* NODE_Init a NULL string.  It does not always hold its ground against those
\* that nobody looks at (Passed, Dies): one of them, and nothing else, is what
\* lies behind a program whose behaviour becomes undefined.
Settles == <>(pc \in {"loop", "gone"} \/ (pc = "crashed" /\ missed # {}))

\* The part of it that holds at every step.
NeverStuck == pc # "hung" /\ (pc = "crashed" => missed # {})

\* Nothing of the connection to the X server is left open, neither by a back
\* end that gave up nor by a program that ends after it had started one.
CleansUp ==
    /\ pc = "gone" => open = {}
    /\ "gfx" \notin cb /\ "gpu" \in info => open = {}

\* A Linux device offers to host or to show applications exactly if it has a
\* working connection to an X server.
CapTrue ==
    pc = "loop" /\ plat \in {"linux", "android"} =>
        IF open = {} THEN cap = {} ELSE cap = {"HOST", "DISP", "GFX_ACCEL"}

-----------------------------------------------------------------------------
(* The inductive invariant *)

Linux == {"linux", "android"}

\* What is left of a list of calls at its k-th.
From(s, k) == SubSeq(s, k, Len(s))

AllOpen == {"display", "window", "context"}
AllCap == {"HOST", "DISP", "GFX_ACCEL"}

\* No connection to the X server has been tried.
Untouched == open = {} /\ "gfx" \notin cb

\* PLAT_Init is at its k-th call: the callback and, if no failure was missed,
\* the strings are what the calls before that set; Linux has not come to its
\* graphics yet.
Gathering(k) ==
    /\ todo = From(CallsOf(plat), k)
    /\ StaticInfo(plat) \subseteq info
    /\ \A i \in 1..(k - 1) :
          /\ CallsOf(plat)[i] = "set_exit" => "exit" \in cb
          /\ missed = {} => Fills(CallsOf(plat)[i]) \subseteq info
    /\ Untouched
    /\ plat \in Linux => k <= 7 /\ "gpu" \notin info /\ cap = AllCap

\* What is open when LINUX_GfxInitXorgGLX makes its j-th call.
OpenBefore(j) == IF j = 1 THEN {} ELSE IF j = 2 THEN {"display"} ELSE {"display", "window"}

GlxPlan == GlxCalls \o <<"net">>

TryingXorg(j) ==
    /\ todo = From(GlxPlan, j)
    /\ "exit" \in cb /\ "gfx" \notin cb
    /\ missed = {} => Strings \ {"gpu"} \subseteq info
    /\ "gpu" \notin info
    /\ cap = AllCap
    /\ open = OpenBefore(j)

\* The graphics of Linux are settled, one way or the other.
Settled ==
    \/ open = AllOpen /\ "gfx" \in cb /\ cap = AllCap
    \/ Untouched /\ cap = {}

InPlatInit ==
    \/ \E k \in 1..(Len(CallsOf(plat)) + 1) : Gathering(k)
    \/ plat \in Linux /\ \E j \in 1..3 : TryingXorg(j)
    \/ /\ plat \in Linux /\ todo \in {<<"net">>, << >>}
       /\ "exit" \in cb /\ (missed = {} => Strings \subseteq info) /\ Settled

InLoop == IF plat \in Linux THEN Settled ELSE Untouched

\* APP_CleanupAndExit is at its k-th callback.
Exiting(k) ==
    /\ todo = From(ExitCalls, k)
    /\ "exit" \in cb
    /\ open = {} \/ ("gfx" \in cb /\ k <= 2)

IInv ==
    /\ TypeOK
    /\ pc = "PLAT_Init" => InPlatInit
    /\ pc = "loop" => InLoop
    /\ pc = "exiting" => \E k \in 1..4 : Exiting(k)
    /\ pc = "gone" => open = {}
    /\ pc = "crashed" => CleansUp
    /\ NeverStuck

=============================================================================
