----------------------------- MODULE DeviceInfo -----------------------------
(***************************************************************************)
(* LINUX_GatherDeviceInfo on x86 (plat/linux/info_device.c): the name of   *)
(* the machine is the vendor's name and the first model name of the DMI    *)
(* files in dmiPaths that says something.  A step is one file.             *)
(*                                                                         *)
(* What a file holds is abstracted to whether it can be opened and read,   *)
(* and whether isGarbageName() refuses it; sysfs ends it with a newline.   *)
(***************************************************************************)
EXTENDS Naturals

CONSTANT NPaths  \* the paths in dmiPaths, before its NULL (3)

ASSUME DeviceInfoAssumption == NPaths \in Nat \ {0}

Contents == {"missing", "unreadable", "garbage", "model"}

VARIABLES
    sysVendor,  \* what the file sys_vendor holds: never changes
    files,      \* files[i]: what the file dmiPaths[i - 1] holds: never changes
    pc,         \* where LINUX_GatherDeviceInfo is
    idx,        \* dmiPathIdx + 1
    hasVendor,  \* PLAT_Info.name starts with the vendor's name
    model       \* what scratchBuf holds: 0 nothing of use, i the model of
                \* files[i], Unknown the fallback

vars == <<sysVendor, files, pc, idx, hasVendor, model>>

Unknown == NPaths + 1

Init ==
    /\ sysVendor \in Contents
    /\ files \in [1..NPaths -> Contents]
    /\ pc = "vendor"
    /\ idx = 1
    /\ hasVendor = FALSE
    /\ model = 0

ReadVendor ==
    /\ pc = "vendor"
    /\ hasVendor' = (sysVendor \in {"garbage", "model"})
    /\ pc' = "tryGetModel"
    /\ UNCHANGED <<sysVendor, files, idx, model>>

\* dmiPaths[dmiPathIdx] names a file, and the file can be read.
CanRead == idx <= NPaths /\ files[idx] \in {"garbage", "model"}

\* Mutant: isGarbageName() refuses nothing.
NothingIsGarbage == FALSE

IsGarbage == files[idx] = "garbage"

ReadModel ==
    /\ pc = "tryGetModel"
    /\ CanRead
    /\ ~ IsGarbage
    /\ model' = idx
    /\ pc' = "done"
    /\ UNCHANGED <<sysVendor, files, idx, hasVendor>>

\* Mutants: dmiPathIdx not advanced; advanced twice.
Same(i) == i
Second(i) == i + 2

Following(i) == i + 1

\* The list is read beyond its NULL: what happens then is undefined.
TryNextPath ==
    /\ pc = "tryGetModel"
    /\ CanRead => IsGarbage
    /\ idx' = Following(idx)
    /\ model' = IF idx' = NPaths + 1 THEN Unknown ELSE 0
    /\ pc' = IF idx' > NPaths + 1 THEN "astray" ELSE "tryGetModel"
    /\ UNCHANGED <<sysVendor, files, hasVendor>>

Next == ReadVendor \/ ReadModel \/ TryNextPath

Spec == Init /\ [][Next]_vars
-----------------------------------------------------------------------------
(* Properties *)

\* Every variable keeps its type.
TypeOK ==
    /\ sysVendor \in Contents
    /\ files \in [1..NPaths -> Contents]
    /\ pc \in {"vendor", "tryGetModel", "done", "astray"}
    /\ idx \in 1..(NPaths + 2)
    /\ hasVendor \in BOOLEAN
    /\ model \in 0..Unknown

Useful(i) == i \in 1..NPaths /\ files[i] = "model"

\* The model in PLAT_Info.name is of the first file that names one, with the
\* vendor in front whenever there is one, whatever the files tried before.
FirstUseful ==
    pc = "done" =>
        /\ Useful(model)
        /\ \A j \in 1..(model - 1) : ~ Useful(j)
        /\ hasVendor = (sysVendor \in {"garbage", "model"})

\* If any file names a model, the search for it ends with one.
FindsModel == (\E i \in 1..NPaths : Useful(i)) => <>(pc = "done")

\* With no model to be had the function "fall[s] back to just saying that it's
\* unknown" (info_device.c:145), and never leaves the list of paths.
FallsBack == pc # "astray"

-----------------------------------------------------------------------------
(* The inductive invariant *)

\* The files before dmiPathIdx had no model to offer.
Searched == \A j \in 1..NPaths : j < idx => ~ Useful(j)

IInv ==
    /\ TypeOK
    /\ FirstUseful
    /\ pc = "vendor" => idx = 1
    /\ pc = "tryGetModel" =>
         idx <= Unknown /\ Searched /\ hasVendor = (sysVendor \in {"garbage", "model"})
=============================================================================
