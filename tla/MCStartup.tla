------------------------------ MODULE MCStartup ------------------------------
(***************************************************************************)
(* Two instances, in the foreground, forking with and without the test     *)
(* mode (in the latter case --log takes the option after it for its file), *)
(* and asked for help.                                                     *)
(***************************************************************************)
EXTENDS Startup

MCArguments ==
    {<<>>, <<"--test", "--fork">>, <<"--fork", "--help">>,
     <<"--log", "--test", "--fork", "--log">>}
=============================================================================
