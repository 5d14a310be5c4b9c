---------------------------- MODULE MCCodexTurn ----------------------------
(***************************************************************************)
(* One registered tool, declared as it is or with a definition that has    *)
(* drifted, or registered twice; the server may use the id of the          *)
(* interrupt for a call.                                                   *)
(***************************************************************************)
EXTENDS CodexTurn

Tool(definition) == [name |-> "lookup", definition |-> definition]

Setup(declared, registered, lossless) ==
    [declared |-> declared, registered |-> registered, lossless |-> lossless]

MCSetups == {Setup(<<Tool(1)>>, <<Tool(1)>>, TRUE), Setup(<<Tool(1)>>, <<Tool(2)>>, TRUE),
             Setup(<<Tool(1)>>, <<Tool(1), Tool(1)>>, TRUE), Setup(<<Tool(1)>>, <<Tool(1)>>, FALSE)}

MCToolIds == {4, 7}
=============================================================================
