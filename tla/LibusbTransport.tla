--------------------------- MODULE LibusbTransport --------------------------
(***************************************************************************)
(* How a capturing program opens and closes the device: libusb_transport.c *)
(* step by step, every step of which may fail.  What the process really    *)
(* holds (held) is kept apart from what the program remembers it holds     *)
(* (transport), from which it works out what to give back.                 *)
(***************************************************************************)
EXTENDS Integers

VARIABLES
  program,    \* "sniffer_storage" or "ground_control_windows"
  at,         \* where main is
  exit_code,
  held,       \* what libusb and stdio hold for the process
  transport   \* LibusbTransport: [context, handle, interface_claimed]

To(place)  == at' = place /\ UNCHANGED exit_code
Quit(code) == at' = "exited" /\ exit_code' = code

Closed == [context |-> FALSE, handle |-> FALSE, interface_claimed |-> FALSE]

(* libusb_transport_close, besides what else is given back *)
Close(others) ==
  /\ held' = held \ (others
                      \cup {x \in {"interface"} : transport.interface_claimed /\ transport.handle}
                      \cup {x \in {"handle"}    : transport.handle}
                      \cup {x \in {"context"}   : transport.context})
  /\ transport' = Closed

LibusbInit ==
  /\ program \in {"sniffer_storage", "ground_control_windows"}
  /\ at = "options"
  /\ exit_code = 0
  /\ held = {}
  /\ transport = Closed

Refuse(others) == Close(others) /\ Quit(1)

-----------------------------------------------------------------------------
(* libusb_transport_open *)

OpenContext ==
  /\ at = "open"
  /\ \/ /\ held' = held \cup {"context"}
        /\ transport' = [Closed EXCEPT !.context = TRUE]
        /\ To("enumerate")
     \/ Quit(1) /\ transport' = Closed /\ UNCHANGED held

OpenEnumerate ==
  /\ at = "enumerate"
  /\ \/ held' = held \cup {"list"} /\ To("select") /\ UNCHANGED transport
     \/ Refuse({})

(* Mutant of OpenSelect: the list is kept when several devices match. *)
SelectAndKeepList(explicit) ==
  /\ at = "select"
  /\ \E matches \in 0..2 :
       IF ~explicit /\ matches > 1
         THEN Refuse({})
         ELSE \/ /\ matches > 0
                 /\ held' = (held \ {"list"}) \cup {"handle"}
                 /\ transport' = [transport EXCEPT !.handle = TRUE]
                 /\ To("claim")
              \/ Refuse({"list"})

(* explicit: the operator has named the device *)
OpenSelect(explicit) ==
  /\ at = "select"
  /\ \E matches \in 0..2 :
       \/ /\ matches > 0 /\ (explicit \/ matches = 1)
          /\ held' = (held \ {"list"}) \cup {"handle"}
          /\ transport' = [transport EXCEPT !.handle = TRUE]
          /\ To("claim")
       \/ Refuse({"list"})

OpenClaim ==
  /\ at = "claim"
  /\ \/ /\ held' = held \cup {"interface"}
        /\ transport' = [transport EXCEPT !.interface_claimed = TRUE]
        /\ To("endpoints")
     \/ Refuse({})

OpenEndpoints(next) ==
  /\ at = "endpoints"
  /\ \/ To(next) /\ UNCHANGED <<held, transport>>
     \/ Refuse({})

-----------------------------------------------------------------------------
(* libusb_transport_list: its own context, and no device is opened *)

ListContext ==
  /\ at = "list"
  /\ \/ held' = held \cup {"context"} /\ To("list_devices")
     \/ Quit(1) /\ UNCHANGED held
  /\ UNCHANGED transport

ListDevices ==
  /\ at = "list_devices"
  /\ held' = held \ {"context"}
  /\ \E code \in {0, 1} : Quit(code)
  /\ UNCHANGED transport

-----------------------------------------------------------------------------
(* Properties *)

(* However far opening, sending, capturing or plotting came, nothing is    *)
(* held when the program ends, and nothing is asked of the device without  *)
(* the interface (libusb_transport_close and the early returns of          *)
(* libusb_transport_open, cleanup of both capturing programs).             *)
Device == {"context", "handle", "interface"}

NothingLeaked ==
  /\ at = "exited" => held = {}
  /\ at \in {"send", "open_file", "capture", "close_file", "plot"} => Device \subseteq held
=============================================================================
