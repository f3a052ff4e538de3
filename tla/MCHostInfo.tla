----------------------------- MODULE MCHostInfo -----------------------------
(* Small hosts for HostInfo. *)
EXTENDS HostInfo, SequencesExt

Line(key, value) == [key |-> key, colon |-> TRUE, value |-> value]
EmptyLine == [key |-> << >>, colon |-> FALSE, value |-> << >>]
NoColon(key) == [key |-> key, colon |-> FALSE, value |-> << >>]

\* Lines that are asked for, that begin like one, and that are neither.
SmallLines ==
    [x86 |-> {EmptyLine, NoColon(<<"model", "name">>), Line(<<"model">>, <<"104">>),
              Line(<<"model", "name", "of", "board">>, <<"board">>),
              Line(<<"model", "name">>, <<"Xeon", "@clock">>),
              Line(<<"model", "name">>, <<"Ryzen", "withRadeonGraphics">>)},
     ppc |-> {EmptyLine, Line(<<"cpu">>, <<"750CL">>), Line(<<"cpu", "MHz">>, <<"729">>), Line(<<"model">>, <<"PowerBook6,7">>),
              Line(<<"machine">>, <<"Nintendo Wii">>), Line(<<"detected", "as">>, <<"iBook">>),
              Line(<<"platform">>, <<"wii">>)},
     arm |-> {EmptyLine, Line(<<"model", "name">>, <<"ARMv7">>)}]

\* Cortex-A5, A7, A53, A57, A72, A78.
SmallCompats ==
    { <<"5">>, <<"7">>, <<"5", "3">>, <<"5", "7">>, <<"7", "2">>, <<"7", "8">> }

SmallPieces ==
    { <<"<key>ProductName</key>">>, <<"<key>ProductVersion</key>">>, <<"<key>other</key>">>,
      <<"<string>", "Mac", "</string>">>, <<"<string>", "10.5", "</string>">>, <<"<string>">> }

MaxPieces == 5

\* Cpus of OsxInfo, which the value of one of its constants cannot name.
MacCpus ==
    [type : {"POWERPC", "POWERPC64", "other", "none"}, family : {"G3", "G4", "G5", "other", "none"},
     subtype : {"750", "7400", "970", "601", "602", "603", "603e", "603ev", "604", "604e", "620", "7450",
                "other", "none"}]

\* Every file for one CPU, and every CPU for one file.
SmallMacs ==
    [plat : {"osx"}, file : {FlattenSeq(ps) : ps \in BoundedSeq(SmallPieces, MaxPieces)},
     cpu : {[type |-> "POWERPC", family |-> "G4", subtype |-> "7450"]}]
    \cup [plat : {"osx"}, file : {<<"<key>other</key>">>}, cpu : MacCpus]
=============================================================================
