------------------------------- MODULE Kfiles -------------------------------
(***************************************************************************)
(* What the configurators and make share: the two files a configuration is *)
(* written to, and how far main of a configurator has come.                *)
(***************************************************************************)

VARIABLES phase,       \* where main is
          saved,       \* .config, NoFile when there is none
          header       \* include/autoconf.h

NoFile == <<<<"no", "file">>>>

Busy == phase \in {"ask", "write", "renaming"}
=============================================================================
