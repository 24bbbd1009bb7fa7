---------------------------- MODULE MCTransport ----------------------------
(***************************************************************************)
(* Bounded instance of MailboxTransport, HostCmd and UsbOpen for TLC: the  *)
(* way of a host command's bytes, its framing, and the life of the handle  *)
(* it travels over.  They share no state: a behaviour is one of the three. *)
(***************************************************************************)
EXTENDS MailboxTransport

CONSTANTS Base, Version, Commands, MaxPayload, ErrorSize, HostCommandStart,
          Null, Locations, Devices, Space, Step, Timeouts, MaxSlept

VARIABLES
    kind,
    host_pc, host_call, wire, answer, frame, err, legacy, resp_buf,
    bus, usb_dev, usb_pc, usb_call, found, timeout_us, wait_time_us, status,
    via, open_handles, asked, spoiled, slept

hostVars == <<host_pc, host_call, wire, answer, frame, err, legacy, resp_buf>>
handleVars == <<bus, usb_dev, usb_pc, usb_call, found, timeout_us, wait_time_us,
                status, via, open_handles, asked, spoiled, slept>>

Host == INSTANCE HostCmd WITH pc <- host_pc, call <- host_call

Usb == INSTANCE UsbOpen WITH pc <- usb_pc, call <- usb_call

ASSUME TransportAssumption == Host!HostCmdAssumption /\ Usb!UsbAssumption

Device(hoth, vendor, interfaces, endpoints, fits) ==
    [hoth |-> hoth, vendor |-> vendor, interfaces |-> interfaces,
     endpoints |-> endpoints, fits |-> fits]

\* RoTs of both kinds, in order and with endpoints missing, doubled or of the
\* wrong size, and devices that are no RoT.
PluggedDevices ==
    {Device(TRUE, TRUE, <<"mailbox">>, <<"in", "out">>, TRUE),
     Device(TRUE, TRUE, <<"mailbox">>, <<"in", "out">>, FALSE),
     Device(TRUE, TRUE, <<"mailbox", "fifo">>, <<"in", "in", "out">>, TRUE),
     Device(TRUE, TRUE, <<"other", "fifo", "mailbox">>, <<"out", "in">>, TRUE),
     Device(TRUE, TRUE, <<"fifo">>, <<"out">>, TRUE),
     Device(TRUE, TRUE, <<"other">>, <<>>, TRUE),
     Device(FALSE, FALSE, <<"mailbox">>, <<"in", "out">>, TRUE)}

FirstCall == [command |-> CHOOSE c \in Commands : TRUE, size |-> 0,
              buf_size |-> 0, sized |-> FALSE]

MCInit ==
    /\ kind \in {"mailbox", "hostcmd", "usb"}
    /\ Init /\ Host!Init /\ Usb!Init
    /\ kind # "mailbox" => transport = "usb"
    /\ kind # "hostcmd" => host_call = FirstCall
    /\ kind # "usb" => bus = [l \in Locations |-> Null]

MCNext ==
    /\ \/ kind = "mailbox" /\ Next /\ UNCHANGED <<hostVars, handleVars>>
       \/ kind = "hostcmd" /\ Host!Next /\ UNCHANGED <<vars, handleVars>>
       \/ kind = "usb" /\ Usb!Next /\ UNCHANGED <<vars, hostVars>>
    /\ UNCHANGED kind

MCSpec == MCInit /\ [][MCNext]_<<kind, vars, hostVars, handleVars>>

\* Host commands are framed soundly, and success means the intact answer.
ExchangeIsSound == Host!ExchangeIsSound

\* The USB handle is fit for use, the only one open and the one asked for.
HandleIsSound == Usb!HandleIsSound

\* A driver refuses only devices that it cannot use, unless its open failed in
\* an earlier reconnect.
RefusesOnlyUnusable == Usb!RefusesOnlyUnusable

\* Waiting for access to the device sleeps no longer than the timeout.
SleepsNoLonger == Usb!SleepsNoLonger
=============================================================================
