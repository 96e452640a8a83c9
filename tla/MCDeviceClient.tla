--------------------------- MODULE MCDeviceClient --------------------------
(***************************************************************************)
(* A small instance of DeviceClient.                                       *)
(***************************************************************************)
EXTENDS DeviceClient

\* Less than nothing, some, and more than there is; what an int of at most 7 takes
\* for 2, and the rest for nothing; and the greatest long, which it takes for -1.
Typed == {-1, 2, 5, 18, 31}
=============================================================================
