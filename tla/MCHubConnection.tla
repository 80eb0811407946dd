-------------------------- MODULE MCHubConnection --------------------------
(* A small instance of HubConnection: the manager's child, without a       *)
(* terminal, and a user who pairs, or gives a token, on the same file.     *)
EXTENDS HubConnection, TLC

CONSTANTS child, terminal, old, new, host, chosen, none

CommandLine(hubs, token, pair, force, interactive, names) ==
  [hub : hubs, token : {token}, pair : {pair}, force : {force},
   interactive : {interactive}, name : names]

CommandLines ==
  (child :> CommandLine({old, new}, NoToken, FALSE, FALSE, FALSE, {none})
   @@ terminal :> CommandLine({new}, NoToken, TRUE, FALSE, TRUE, {none})
        \cup CommandLine({new}, NoToken, FALSE, TRUE, TRUE, {chosen})
        \cup CommandLine({old}, GivenToken, FALSE, FALSE, TRUE, {none}))

ChildAlone == child :> CommandLine({new}, NoToken, FALSE, FALSE, FALSE, {none})
=============================================================================
