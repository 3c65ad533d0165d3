---- MODULE MCAudioLink ----
(* Sinks and sources, those that may wait for the device and those that may *)
(* not, on a ring that holds one quantum and a half.                        *)
EXTENDS AudioLink

AllKinds == [sink : BOOLEAN, okToBlock : BOOLEAN]
====
