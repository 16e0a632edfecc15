----------------------------- MODULE MCRequests -----------------------------
(* Instances of Requests for TLC.                                          *)
EXTENDS RequestsTurns, TLC

CONSTANTS k1, i0

MCKeys == {k1}
MCArgs == {NoArg, k1, i0}
MCSyncChannels == <<i0>>
MCNothing == {}
MCDeviceInfo == {DeviceInfo}

Message    == [code |-> SendMsg, arg |-> k1]
PathReset  == [code |-> ResetPath, arg |-> k1]
Telemetry  == [code |-> GetTelemetry, arg |-> NoArg]
NameChange == [code |-> SetName, arg |-> NoArg]
Start      == [code |-> AppStart, arg |-> NoArg]

Advert         == [code |-> Advertisement, arg |-> k1]
TelemetryPush  == [code |-> TelemetryResponse, arg |-> k1]

\* A message and a path reset: an ACK to route and a contact to re-read.
MuxCommands == {Message, PathReset}

\* A command that invalidates the cache and one that then misses it.
LinkCommands == {NameChange, Start}

SendCommands == {Message}

\* The one command that waits for a push code.
PushCommands == {Telemetry}
PushEvents == {Advert, TelemetryPush}

ClientSymmetry == Permutations(Clients)
=============================================================================
