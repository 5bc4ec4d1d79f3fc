-------------------------- MODULE MCRemoteChannel --------------------------
(* Lines of at most two letters in packets of at most three bytes; the       *)
(* shortest command is one letter, so a packet can complete two, MaxCmds, of *)
(* which the first may have begun in the packet before.                      *)
EXTENDS RemoteChannel

MCCommands == {<<"l">>, <<"h">>}
MCBoot == <<"l", "h">>
MCPing == <<"h", "l">>
=============================================================================
