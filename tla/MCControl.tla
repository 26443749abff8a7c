----------------------------- MODULE MCControl -----------------------------
(* A computer with one window of its own and two phones, one of which can *)
(* reach it by two routes.                                                 *)
EXTENDS Control

CONSTANTS mac, relay1, relay2, direct1, phone1, phone2

MCLocalViews == {mac}
MCRelayLinks == {relay1, relay2}
MCDirectLinks == {direct1}
MCDevices == {phone1, phone2}
MCDeviceOf == [v \in {relay1, relay2, direct1} |-> IF v = relay2 THEN phone2 ELSE phone1]
=============================================================================
