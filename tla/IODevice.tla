------------------------------- MODULE IODevice -------------------------------
(***************************************************************************)
(* The states of an evio input or output device and what its operations do *)
(* to them, as the DeviceStates tests of src/tests/test_IODevice.h expect: *)
(* a device is Removed (open, not added to epoll), Active, Added (stopped  *)
(* after it was active), Flushing (an active output device that closes     *)
(* when it is stopped) or Closed.  "None" is a direction of a descriptor   *)
(* for which the program sets no decoder or no source.                     *)
(***************************************************************************)

DeviceState == {"None", "Removed", "Active", "Added", "Flushing", "Closed"}

\* A device that epoll watches, and for which the event loop keeps running.
IsActive(s) == s \in {"Active", "Flushing"}

\* start_input_device, start_output_device: no effect on an active or closed device.
Start(s) == IF s \in {"Removed", "Added"} THEN "Active" ELSE s

\* stop_output_device: a device that is being flushed is closed.
Stop(s) == CASE s = "Active"   -> "Added"
             [] s = "Flushing" -> "Closed"
             [] OTHER          -> s

\* flush_output_device: an active device is closed later, any other one at once.
Flush(s) == CASE s \in {"Active", "Flushing"} -> "Flushing"
              [] s \in {"Removed", "Added"}   -> "Closed"
              [] OTHER                        -> s

\* close_input_device, close_output_device.
Close(s) == IF s = "None" THEN "None" ELSE "Closed"
===============================================================================
