---------------------------- MODULE MCInputManager ----------------------------
(***************************************************************************)
(* tiny_tv's two devices in the order input_init registers them, on a ring *)
(* small enough that it wraps and overflows.                               *)
(***************************************************************************)
EXTENDS InputManager

CONSTANTS remote, net,          \* the devices
          key1, key2, message   \* what they report

MCDevice == {remote, net}
MCRegisterOrder == <<remote, net>>
MCNetDevices == {net}
MCInputEvent == {key1, key2, message, Blank}

\* Two keys tell a lost or a repeated key from a message.
MCReports == [d \in MCDevice |-> IF d = remote THEN {key1, key2} ELSE {message}]

\* One event for each device is enough to tell who is served.
MCReportsOne == [d \in MCDevice |-> IF d = remote THEN {key1} ELSE {message}]

===============================================================================
