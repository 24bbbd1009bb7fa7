------------------------------ MODULE UsbOpen ------------------------------
(***************************************************************************)
(* The life of a USB handle: libhoth_usb_open(), _reconnect() and _close() *)
(* of transports/libhoth_usb.c, libhoth_usb_device_open() which the first  *)
(* two share, and the opens and closes of the two drivers.  RoTs are       *)
(* plugged, unplugged and come back with another firmware at any time; any *)
(* libusb call or allocation may fail.  A caller opens a device, transfers *)
(* on it, reconnects it as often as it likes and closes it.                *)
(***************************************************************************)
EXTENDS Integers, Sequences, FiniteSets

CONSTANTS
    Null,
    Locations,  \* bus and port numbers
    Devices,    \* what may be plugged in: see DeviceType
    Space,      \* 2^32
    Step,       \* the sleep between two libusb_open() calls, 1000 us
    Timeouts,   \* values of timeout_us
    MaxSlept    \* bound: sleeps counted, for the model only

Endpoints == {"in", "out"}

\* What the library looks at in a device: is it one of the known products, is
\* the vendor right, the class of its interfaces, the bulk endpoints of the one
\* it picks, and whether the packet sizes suit the mailbox driver.
DeviceType ==
    [hoth : BOOLEAN, vendor : BOOLEAN,
     interfaces : Seq({"mailbox", "fifo", "other"}),
     endpoints : Seq(Endpoints), fits : BOOLEAN]

\* driver_data: the endpoint fields of each driver, and the FIFO driver's
\* transfers and buffers: null, allocated, or dangling pointers.  The mailbox
\* driver's fields lie over the first of these pointers.
DriverData ==
    [mailbox : SUBSET Endpoints, fifo : SUBSET Endpoints,
     memory : {"null", "live", "freed"}]

\* struct libhoth_usb_device
UsbDevice ==
    [handle : Devices \union {Null}, claimed : BOOLEAN,
     type : {"unknown", "mailbox", "fifo"}, loc : Locations \union {Null},
     data : DriverData]

UsbAssumption ==
    /\ Null \notin Devices /\ Null \notin UsbDevice
    /\ Space \in Nat
    /\ Devices \subseteq DeviceType
    /\ \A d \in Devices : d.hoth => d.vendor
    /\ Step \in 1 .. Space - 1
    /\ Timeouts \subseteq 0 .. Space - 1

VARIABLES
    bus,            \* the device at each location, or Null
    usb_dev,        \* struct libhoth_usb_device, or Null
    pc,             \* closed, search, descriptors, open, claim, driver, returned
    call,           \* "open" or "reconnect"
    found,          \* the libusb_device being opened, and where it is
    timeout_us, wait_time_us,
    status,         \* what the last call returned
    via,            \* where the last transfer went
    open_handles,   \* history: handles libusb_open() gave out, less those closed
    asked,          \* history: where the device was when it was first opened
    spoiled,        \* history: a driver's open failed in an earlier reconnect
    slept           \* history: what this call slept before libusb_open()

envVars == <<bus, asked>>
callVars == <<call, found, timeout_us>>
vars == <<envVars, usb_dev, pc, callVars, wait_time_us, status, via,
          open_handles, spoiled, slept>>

ZeroData == [mailbox |-> {}, fifo |-> {}, memory |-> "null"]

\* calloc()
NewDevice == [handle |-> Null, claimed |-> FALSE, type |-> "unknown",
              loc |-> Null, data |-> ZeroData]

Init ==
    /\ bus \in [Locations -> Devices \union {Null}]
    /\ usb_dev = Null
    /\ pc = "closed"
    /\ call = "open" /\ found = Null
    /\ timeout_us = 0 /\ wait_time_us = 0
    /\ status = "none" /\ via = "none"
    /\ open_handles = 0 /\ asked = Null /\ spoiled = FALSE /\ slept = 0

\* The RoT disappears, restarts, or comes up with another firmware.
Replug(l, d) ==
    /\ pc \in {"returned", "search"}
    /\ bus' = [bus EXCEPT ![l] = d]
    /\ UNCHANGED <<asked, usb_dev, pc, callVars, wait_time_us, status, via,
                   open_handles, spoiled, slept>>

-----------------------------------------------------------------------------
(* Closing                                                                 *)

\* Mutant: the mailbox's fields are left as they are.
ClosedDataKept(dev) ==
    IF dev.type = "fifo" THEN ZeroData ELSE dev.data

\* libhoth_usb_mailbox_close() clears its own fields, libhoth_usb_fifo_close()
\* frees and clears all of the union.
ClosedData(dev) ==
    CASE dev.type = "fifo" -> ZeroData
      [] dev.type = "mailbox" -> [dev.data EXCEPT !.mailbox = {}]
      [] OTHER -> dev.data

\* release and close of the handle
Unhandled(dev) == [dev EXCEPT !.handle = Null, !.claimed = FALSE]

\* libhoth_usb_close_internal(): without a handle nothing is done.
ClosedInternal(dev) ==
    IF dev.handle = Null THEN dev
    ELSE [Unhandled(dev) EXCEPT !.data = ClosedData(dev)]

HandleCount(dev) == IF dev = Null \/ dev.handle = Null THEN 0 ELSE 1

Close ==
    /\ pc = "returned"
    /\ usb_dev' = Null
    /\ open_handles' = open_handles - HandleCount(usb_dev)
    /\ pc' = "closed"
    /\ call' = "open" /\ found' = Null /\ timeout_us' = 0
    /\ status' = "none" /\ via' = "none"
    /\ asked' = Null /\ spoiled' = FALSE
    /\ UNCHANGED <<bus, wait_time_us, slept>>

-----------------------------------------------------------------------------
(* libhoth_usb_open() and libhoth_usb_reconnect(), up to the open proper    *)

Open(l, t) ==
    /\ pc = "closed"
    /\ bus[l] # Null
    /\ pc' = "descriptors"
    /\ call' = "open"
    /\ found' = [device |-> bus[l], loc |-> l]
    /\ timeout_us' = t
    /\ asked' = l
    /\ status' = "none"
    /\ UNCHANGED <<bus, usb_dev, wait_time_us, via, open_handles, spoiled, slept>>

Reconnect ==
    /\ pc = "returned"
    /\ pc' = "search"
    /\ call' = "reconnect"
    /\ status' = "none" /\ via' = "none"
    /\ spoiled' = (spoiled \/ status \in {"driver", "malloc"})
    /\ UNCHANGED <<envVars, usb_dev, found, timeout_us, wait_time_us,
                   open_handles, slept>>

\* libhoth_usb_get_device(): a device at the remembered location that
\* libhoth_device_is_hoth() knows.
FoundAt(l) == l = usb_dev.loc /\ bus[l] # Null /\ bus[l].hoth

\* The device is there: the old handle and the driver's data are closed.
GetDevice(l) ==
    /\ pc = "search"
    /\ FoundAt(l)
    /\ found' = [device |-> bus[l], loc |-> l]
    /\ usb_dev' = ClosedInternal(usb_dev)
    /\ open_handles' = open_handles - HandleCount(usb_dev)
    /\ pc' = "descriptors"
    /\ UNCHANGED <<envVars, call, timeout_us, wait_time_us, status, via, spoiled,
                   slept>>

\* Sixty seconds pass without it, or listing the devices keeps failing: the old
\* handle stays as it was.
SearchTimesOut ==
    /\ pc = "search"
    /\ pc' = "returned"
    /\ status' = "not_found"
    /\ UNCHANGED <<envVars, usb_dev, callVars, wait_time_us, via, open_handles,
                   spoiled, slept>>

-----------------------------------------------------------------------------
(* libhoth_usb_device_open()                                               *)

\* A failure, from err_out on, given what *usb_dev is by then.
ErrOut(dev, why) ==
    /\ status' = why
    /\ open_handles' = open_handles - HandleCount(dev)
    /\ IF call = "open"
       THEN /\ usb_dev' = Null      \* libhoth_usb_open() frees it
            /\ pc' = "closed"
            /\ asked' = Null
       ELSE /\ usb_dev' = Unhandled(dev)
            /\ pc' = "returned"
            /\ UNCHANGED asked
    /\ wait_time_us' = 0 /\ slept' = 0
    /\ UNCHANGED <<bus, callVars, via, spoiled>>

\* libhoth_usb_find_interface(): the first interface of a known kind.
FindInterface(device) ==
    LET known == {n \in DOMAIN device.interfaces :
                     device.interfaces[n] # "other"}
    IN  IF known = {} THEN "unknown"
        ELSE device.interfaces[CHOOSE n \in known : \A m \in known : n <= m]

\* A libusb call or the allocation fails, or the device is not to be used.
DescriptorsFail ==
    /\ pc = "descriptors"
    /\ ErrOut(IF usb_dev = Null THEN NewDevice ELSE usb_dev,
              IF ~found.device.vendor THEN "vendor"
              ELSE IF FindInterface(found.device) = "unknown" THEN "interface"
              ELSE "error")
   

\* Mutant: after a reconnect the interface is taken to be the old one.
DescriptorsOld ==
    /\ pc = "descriptors"
    /\ found.device.vendor
    /\ FindInterface(found.device) # "unknown"
    /\ LET dev == IF usb_dev = Null THEN NewDevice ELSE usb_dev
       IN  usb_dev' = [dev EXCEPT !.loc = found.loc,
                          !.type = IF call = "open" THEN FindInterface(found.device)
                                                    ELSE @]
    /\ pc' = "open"
    /\ UNCHANGED <<envVars, callVars, wait_time_us, status, via, open_handles,
                   spoiled, slept>>

Descriptors ==
    /\ pc = "descriptors"
    /\ found.device.vendor
    /\ FindInterface(found.device) # "unknown"
    /\ LET dev == IF usb_dev = Null THEN NewDevice ELSE usb_dev
       IN  usb_dev' = [dev EXCEPT !.loc = found.loc,
                          !.type = FindInterface(found.device)]
    /\ pc' = "open"
    /\ UNCHANGED <<envVars, callVars, wait_time_us, status, via, open_handles,
                   spoiled, slept>>

LibusbOpen ==
    /\ pc = "open"
    /\ usb_dev' = [usb_dev EXCEPT !.handle = found.device]
    /\ open_handles' = open_handles + 1
    /\ wait_time_us' = 0 /\ slept' = 0
    /\ pc' = "claim"
    /\ UNCHANGED <<envVars, callVars, status, via, spoiled>>

\* Mutant: compared with what is waited after this time.
LibusbOpenDeniedLate ==
    /\ pc = "open"
    /\ slept < MaxSlept
    /\ IF wait_time_us > timeout_us + Step
       THEN ErrOut(usb_dev, "access")
       ELSE /\ wait_time_us' = (wait_time_us + Step) % Space
            /\ slept' = slept + Step
            /\ UNCHANGED <<envVars, usb_dev, pc, callVars, status, via,
                           open_handles, spoiled>>

\* LIBUSB_ERROR_ACCESS: udev has yet to give access.  Try again until the
\* timeout; the time waited is a 32-bit number.
LibusbOpenDenied ==
    /\ pc = "open"
    /\ slept < MaxSlept
    /\ IF wait_time_us >= timeout_us
       THEN ErrOut(usb_dev, "access")
       ELSE /\ wait_time_us' = (wait_time_us + Step) % Space
            /\ slept' = slept + Step
            /\ UNCHANGED <<envVars, usb_dev, pc, callVars, status, via,
                           open_handles, spoiled>>

\* Another error; or, just before, the device's location cannot be read.
LibusbOpenFails ==
    /\ pc = "open"
    /\ ErrOut(usb_dev, "error")
   

\* libhoth_claim_device(), which SharedDevice models.
Claim ==
    /\ pc = "claim"
    /\ usb_dev' = [usb_dev EXCEPT !.claimed = TRUE]
    /\ pc' = "driver"
    /\ UNCHANGED <<envVars, callVars, wait_time_us, status, via, open_handles,
                   spoiled, slept>>

ClaimFails ==
    /\ pc = "claim"
    /\ ErrOut(usb_dev, "busy")
   

-----------------------------------------------------------------------------
(* libhoth_usb_mailbox_open(), libhoth_usb_fifo_open()                     *)

\* "There should only be one IN endpoint and one OUT endpoint": the loop stops
\* at an endpoint of a kind that is set already; set are those before it.
FillEndpoints(set, endpoints) ==
    LET again == {n \in DOMAIN endpoints :
                     \/ endpoints[n] \in set
                     \/ \E m \in 1 .. n - 1 : endpoints[m] = endpoints[n]}
        stop == IF again = {} THEN Len(endpoints) + 1
                ELSE CHOOSE n \in again : \A m \in again : n <= m
        now == set \union {endpoints[n] : n \in 1 .. stop - 1}
    IN  [set |-> now, ok |-> again = {} /\ now = Endpoints]

\* What the mailbox driver finds in its endpoint fields: over a pointer, any.
MailboxFields(data) ==
    IF data.memory = "null" THEN {data.mailbox} ELSE SUBSET Endpoints

DriverDone(data) ==
    /\ usb_dev' = [usb_dev EXCEPT !.data = data]
    /\ pc' = "returned"
    /\ status' = "ok"
    /\ UNCHANGED <<envVars, callVars, wait_time_us, via, open_handles, spoiled,
                   slept>>

DriverFails(data, why) == ErrOut([usb_dev EXCEPT !.data = data], why)

MailboxOpen(before) ==
    /\ pc = "driver"
    /\ usb_dev.type = "mailbox"
    /\ LET fill == FillEndpoints(before, found.device.endpoints)
           data == [usb_dev.data EXCEPT !.mailbox = fill.set]
       IN  IF fill.ok /\ found.device.fits THEN DriverDone(data)
                                           ELSE DriverFails(data, "driver")

FifoOpen ==
    /\ pc = "driver"
    /\ usb_dev.type = "fifo"
    /\ LET fill == FillEndpoints(usb_dev.data.fifo, found.device.endpoints)
           data == [usb_dev.data EXCEPT !.fifo = fill.set]
       IN  IF fill.ok THEN DriverDone([data EXCEPT !.memory = "live"])
                      ELSE DriverFails(data, "driver")

\* libhoth_prng_seed() gave zero.
FifoSeedZero ==
    /\ pc = "driver"
    /\ usb_dev.type = "fifo"
    /\ DriverFails(usb_dev.data, "seed")

\* An allocation fails.  Transfers are left as they are; a buffer that fails
\* has everything freed, and the pointers stay.
FifoAllocFails(memory) ==
    /\ pc = "driver"
    /\ usb_dev.type = "fifo"
    /\ LET fill == FillEndpoints(usb_dev.data.fifo, found.device.endpoints)
       IN  /\ fill.ok
           /\ DriverFails([usb_dev.data EXCEPT !.fifo = fill.set,
                                               !.memory = memory], "malloc")

-----------------------------------------------------------------------------
(* libhoth_usb_send_request(), libhoth_usb_receive_response()              *)

\* Which driver a transfer goes to.
Dispatch(dev) == IF dev.handle = Null THEN "NO_DEVICE" ELSE dev.type

Transfer ==
    /\ pc = "returned"
    /\ via' = Dispatch(usb_dev)
    /\ UNCHANGED <<envVars, usb_dev, pc, callVars, wait_time_us, status,
                   open_handles, spoiled, slept>>

-----------------------------------------------------------------------------
Next ==
    \/ \E l \in Locations, d \in Devices \union {Null} : Replug(l, d)
    \/ \E l \in Locations, t \in Timeouts : Open(l, t)
    \/ Reconnect
    \/ \E l \in Locations : GetDevice(l)
    \/ SearchTimesOut
    \/ Descriptors
    \/ DescriptorsFail
    \/ LibusbOpen
    \/ LibusbOpenDenied
    \/ LibusbOpenFails
    \/ Claim
    \/ ClaimFails
    \/ pc = "driver" /\ \E f \in MailboxFields(usb_dev.data) : MailboxOpen(f)
    \/ FifoOpen
    \/ FifoSeedZero
    \/ \E m \in {"live", "freed"} : FifoAllocFails(m)
    \/ Transfer
    \/ Close

Spec == Init /\ [][Next]_vars

-----------------------------------------------------------------------------
(* Properties                                                              *)

\* A device with a handle is fit for use, after any number of reconnects, by
\* RoTs of either kind: the interface is claimed, transfers go to the driver of
\* the interface that the device has now, that driver's endpoints are set and
\* the FIFO driver's transfers are alive, so that close frees each just once.
HandleIsUsable ==
    pc = "returned" /\ usb_dev.handle # Null =>
        /\ usb_dev.claimed
        /\ Dispatch(usb_dev) = FindInterface(usb_dev.handle)
        /\ usb_dev.type = "mailbox" => usb_dev.data.mailbox = Endpoints
        /\ usb_dev.type = "fifo" => /\ usb_dev.data.fifo = Endpoints
                                    /\ usb_dev.data.memory = "live"

\* Every handle libusb_open() gives out is closed once: the only open one is
\* the device's, whichever step of an open or a reconnect fails.
OneHandle == open_handles = HandleCount(usb_dev)

\* libhoth_usb_reconnect() comes back with the RoT at the location that was
\* opened, never with another RoT on the bus.
SameLocation ==
    usb_dev # Null => usb_dev.loc = asked

\* A driver refuses only a device whose interface it cannot use: what an
\* earlier connection left in the driver's data does not stand in the way.  Not
\* so once a driver's open failed during a reconnect: the handle is gone,
\* close_internal() then clears nothing, and the next reconnect finds the
\* endpoints set.
RefusesOnlyUnusable ==
    status = "driver" /\ ~spoiled =>
        LET fresh == FillEndpoints({}, found.device.endpoints)
        IN  ~fresh.ok \/ ~found.device.fits

\* The wait for access to the device sleeps no longer than the timeout, rounded
\* up to the sleep.  A timeout within a sleep of 2^32 is never reached.
SleepsNoLonger ==
    timeout_us <= Space - Step => slept < timeout_us + Step

\* Whatever came, went and failed, the device's handle is fit for use, the only
\* one open, and still the one of the RoT that was asked for.
HandleIsSound == HandleIsUsable /\ OneHandle /\ SameLocation
=============================================================================
