---------------------------- MODULE MCOdileTools ----------------------------
(***************************************************************************)
(* Model checking instance of OdileTools: all command lines of up to       *)
(* MaxTokens tokens, for the six tools and for two programs that use the   *)
(* kinds of argument the tools do not.  A token with the value behind its  *)
(* option ("-f out" as one word) lets short lines hold several options.    *)
(***************************************************************************)
EXTENDS OdileTools

Inline(text, letter, word) == Token(text, {}, 1, <<letter>>, word)

MCPrograms ==
    [take_image |-> take_image_args, send_command |-> send_command_args,
     write_config |-> write_config_args, write_firmware |-> write_firmware_args,
     write_data |-> write_data_args, read_data |-> read_data_args,
     exclusive |-> <<Add(SwitchArg("a", "all", FALSE)),
                     <<MultiArg("m", "many", FALSE), SwitchArg("x", "one", FALSE),
                       ValueArg("y", "why", FALSE, "string", StringValue(""))>>,
                     Add(SwitchArg("z", "zed", TRUE)),
                     Add(MultiSwitchArg("v", "verbose"))>>,
     unlabeled |-> <<Add(UnlabeledValueArg("first", TRUE, StringValue(""))),
                     Add(SwitchArg("a", "all", FALSE)),
                     Add(MultiArg("m", "many", TRUE)),
                     Add(UnlabeledMultiArg("others", FALSE))>>]

MCTokens ==
    [take_image |->
        {FlagToken("-f", <<"f">>), BareToken("new", {}), BareToken("old", {}),
         Inline("-r 0", "r", Word("0", {0})), FlagToken("-k", <<"k">>),
         BareToken("70000", {70000}), BareToken("3", {3}), FlagToken("-a", <<"a">>),
         FlagToken("-S", <<"S">>), NameToken("--oaskip", "oaskip")},
     send_command |->
        {FlagToken("-c", <<"c">>), BareToken("RDP", {}), BareToken("RDC", {}),
         BareToken("GCR", {}), Inline("-c GCM", "c", Word("GCM", {})),
         Inline("-c RDB", "c", Word("RDB", {})), Inline("-f out", "f", Word("out", {})),
         FlagToken("-dr", <<"d", "r">>), FlagToken("-r", <<"r">>),
         Inline("-p 300", "p", Word("300", {300}))},
     write_config |->
        {FlagToken("-f", <<"f">>), FlagToken("-fw", <<"f", "w">>),
         FlagToken("-wdq", <<"w", "d", "q">>), FlagToken("-dd", <<"d", "d">>),
         FlagToken("-p", <<"p">>), BareToken("12", {12}), BareToken("3", {3}),
         NameToken("--write", "write"), FlagToken("-dh", <<"d", "h">>),
         FlagToken("--", <<"-">>)},
     write_firmware |->
        {FlagToken("-f", <<"f">>), BareToken("a.rpd", {}), BareToken("a.bin", {}),
         Inline("-m b.map", "m", Word("b.map", {})), NameToken("--force", "force"),
         NameToken("--address", "address"), BareToken("256", {256}),
         Inline("-f a.rpd", "f", Word("a.rpd", {}))},
     write_data |->
        {FlagToken("-f", <<"f">>), BareToken("data", {}), FlagToken("-p", <<"p">>),
         BareToken("", {}), BareToken("5x", {}), FlagToken("-d", <<"d">>),
         FlagToken("--", <<"-">>), FlagToken("-df", <<"d", "f">>),
         Inline("-f data", "f", Word("data", {}))},
     read_data |->
        {FlagToken("-e", <<"e">>), FlagToken("-n", <<"n">>),
         Token("-5", {-5}, 1, <<"5">>, NoWord), NameToken("--start", "start"),
         BareToken("7", {7}), NameToken("--version", "version"), FlagToken("-", <<>>),
         NameToken("--ignore_rest", "ignore_rest")},
     exclusive |->
        {FlagToken("-a", <<"a">>), FlagToken("-x", <<"x">>), FlagToken("-ax", <<"a", "x">>),
         FlagToken("-xz", <<"x", "z">>), FlagToken("-vv", <<"v", "v">>),
         FlagToken("-vx", <<"v", "x">>), FlagToken("-m", <<"m">>), BareToken("w", {}),
         Inline("-m w", "m", Word("w", {})), Inline("-y w", "y", Word("w", {}))},
     unlabeled |->
        {FlagToken("-a", <<"a">>), FlagToken("-aq", <<"a", "q">>), FlagToken("-q", <<"q">>),
         FlagToken("-m", <<"m">>), BareToken("w", {}), FlagToken("--", <<"-">>),
         FlagToken("-", <<>>), Inline("-m w", "m", Word("w", {})),
         Inline("-a w", "a", Word("w", {}))}]

MCMapOf == [f \in {"a.rpd"} |-> "a.map"]
MCExisting == {"old"}

\* No tool declares an argument that add() would refuse.
ASSUME ToolsWellDeclared == \A p \in DOMAIN Programs : WellDeclared(p)
=============================================================================
