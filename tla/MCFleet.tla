------------------------------ MODULE MCFleet -------------------------------
(* Two calls about one device, and a port with one outage at a time.       *)
EXTENDS Fleet

CONSTANTS device, first, second, noCall, outages, operator, owner, nobody

MCDevices == {device}
MCCalls == {first, second}
=============================================================================
