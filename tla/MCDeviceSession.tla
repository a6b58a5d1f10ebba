-------------------------- MODULE MCDeviceSession --------------------------
(* Instances of DeviceSession for TLC: kept sessions to two devices, and    *)
(* the first device once more without a keepalive.                          *)
EXTENDS DeviceSession, TLC

CONSTANTS h1, h2, alice, bob, once

TwoDevices == [a \in Args |-> IF a = bob THEN h2 ELSE h1]
=============================================================================
