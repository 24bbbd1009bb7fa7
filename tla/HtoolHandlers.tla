--------------------------- MODULE HtoolHandlers ---------------------------
(***************************************************************************)
(* The handlers of htool's commands that talk to the RoT without a file of *)
(* the user's, or with one or two: htool.c and the small files beside it.  *)
(* What a handler prints is left out.                                      *)
(***************************************************************************)
EXTENDS HtoolProtocol

-----------------------------------------------------------------------------
(* The device.  A handler, and what it calls, may ask for it several       *)
(* times: all but the first find it open and are left out.                 *)

TimeoutFlag == <<AskGlobal("time", "connect_timeout")>>

htool_libusb_device ==
    <<Open("libusb_init"), AskGlobal("string", "usb_loc"),
      AskGlobal("string", "usb_product")>>
    \o When(Global(Isnt("usb_loc", {""})), <<Check("USB location")>>)
    \o <<Open("select_device")>>

htool_libhoth_usb_device ==
    htool_libusb_device \o TimeoutFlag \o <<Open("libhoth_usb_open")>>

htool_libhoth_spi_device ==
    <<AskGlobal("string", "spidev_path"), AskGlobal("u32", "mailbox_location"),
      AskGlobal("bool", "spidev_atomic"), AskGlobal("u32", "spidev_speed_hz"),
      AskGlobal("u32", "spidev_device_busy_wait_timeout"),
      AskGlobal("u32", "spidev_device_busy_wait_check_interval"),
      Require(Global(Isnt("spidev_path", {""})))>>
    \o TimeoutFlag \o <<Open("libhoth_spi_open")>>

htool_libhoth_mtd_device ==
    <<AskGlobal("string", "mtddev_path"), AskGlobal("string", "mtddev_name"),
      AskGlobal("u32", "mailbox_location")>>
    \o When(Global(Is("mtddev_path", {""})),
            <<Require(Global(Isnt("mtddev_name", {""})))>>)
    \o <<Open("libhoth_mtd_open")>>

\* A build without the D-Bus backend always fails to open.
htool_libhoth_dbus_device ==
    <<AskGlobal("string", "dbus_hoth_id"), Open("libhoth_dbus_open")>>

htool_libhoth_device ==
    <<AskGlobal("string", "transport")>>
    \o When(Global(Is("transport", {"", "usb"})), htool_libhoth_usb_device)
    \o When(Global(Is("transport", {"spidev"})), htool_libhoth_spi_device)
    \o When(Global(Is("transport", {"mtd"})), htool_libhoth_mtd_device)
    \o When(Global(Is("transport", {"dbus"})), htool_libhoth_dbus_device)
    \o <<Require(Global(Is("transport",
                           {"", "usb", "spidev", "mtd", "dbus"})))>>

command_usb_list ==
    Returns("1", <<Open("libusb_init"), Open("libusb_get_device_list")>>)

-----------------------------------------------------------------------------
(* htool.c                                                                 *)

command_reboot ==
    <<Ask("bool", "warm")>> \o htool_libhoth_device \o libhoth_reboot

command_get_version == htool_libhoth_device \o libhoth_get_rot_fw_version

\* Version 0 of the answer is printed at once.
command_show_chipinfo ==
    htool_libhoth_device \o libhoth_chipinfo \o Maybe(<<Stop>>)
    \o <<Check("chipinfo version 1"), Check("OpenTitan device id")>>

command_authz_record_read == htool_libhoth_device \o libhoth_authz_record_read

command_authz_record_erase == htool_libhoth_device \o libhoth_authz_record_erase

command_authz_record_build ==
    <<Ask("u32", "caps")>> \o htool_libhoth_device \o libhoth_authz_record_build

command_authz_record_set ==
    <<Ask("string", "record")>> \o htool_libhoth_device
    \o libhoth_authorization_record_from_hex_string \o libhoth_authz_record_set

command_authz_host_command_build ==
    <<Ask("u32", "opcode")>> \o htool_libhoth_device \o libhoth_chipinfo
    \o <<Check("chipinfo version 0"), Get("GET_AUTHZ_COMMAND_NONCE")>>

authz_command_hex_to_struct == <<Check("hex command")>>

command_authz_host_command_send ==
    <<Ask("string", "command")>> \o htool_libhoth_device
    \o authz_command_hex_to_struct \o <<Put("AUTHZ_COMMAND")>>

get_address_mode == <<Require(Is("address_mode", {"3B/4B", "3B", "4B"}))>>

command_spi_read ==
    <<Ask("u32", "start"), Ask("u32", "length"), Ask("string", "dest-file"),
      Ask("string", "address_mode")>>
    \o htool_libhoth_device \o <<Create("dest-file")>> \o get_address_mode
    \o <<Put("libhoth_spi_proxy_init")>>
    \o When(Isnt("length", {"0"}),
            Repeat(<<Get("libhoth_spi_proxy_read"), Write("dest-file")>>))

command_spi_update ==
    <<Ask("u32", "start"), Ask("bool", "verify"), Ask("string", "source-file"),
      Ask("string", "address_mode")>>
    \o htool_libhoth_device \o <<Read("source-file")>> \o get_address_mode
    \o <<Put("libhoth_spi_proxy_init"), Put("libhoth_spi_proxy_update")>>
    \o When(True("verify"), <<Get("libhoth_spi_proxy_verify")>>)

do_target_reset == htool_libhoth_device \o Status(<<Put("RESET_TARGET")>>)
command_target_reset_on == do_target_reset
command_target_reset_off == do_target_reset
command_target_reset_pulse == do_target_reset

\* The loop of the console is the subject of ConsoleOutput and ConsoleInput.
command_console ==
    <<Ask("bool", "snapshot")>>
    \o When(False("snapshot"),
            <<Ask("fourcc", "channel"), Ask("bool", "force_drive_tx"),
              Ask("bool", "history"), Ask("bool", "onlcr"),
              Ask("u32", "baud_rate"), Ask("u32", "claim_timeout_secs"),
              Ask("u32", "yield_ms")>>)
    \o When(True("snapshot"),
            When(Given("channel"), <<Ask("fourcc", "channel")>>))
    \o htool_libhoth_device
    \o When(True("snapshot"), <<Get("htool_console_snapshot")>>)
    \o When(False("snapshot"), <<Put("htool_console_run")>>)

command_flash_spi_info ==
    htool_libhoth_device
    \o <<Get("FLASH_SPI_INFO"), Check("the flash identified itself")>>

command_arm_coordinated_reset ==
    htool_libhoth_device \o Status(<<Put("ARM_COORDINATED_RESET")>>)

command_passthrough_disable ==
    htool_libhoth_device \o Status(<<Put("SPS_PASSTHROUGH_DISABLE")>>)

command_passthrough_enable ==
    htool_libhoth_device \o Status(<<Put("SPS_PASSTHROUGH_ENABLE")>>)

srtm_request_from_hex_measurement == <<Check("hex measurement")>>

command_srtm ==
    htool_libhoth_device \o <<Ask("string", "measurement")>>
    \o srtm_request_from_hex_measurement \o Status(<<Put("SRTM")>>)

htool_tpm_spi_probe ==
    htool_libhoth_spi_device \o Status(<<Get("libhoth_tpm_spi_probe")>>)

htool_controlled_storage_write ==
    htool_libhoth_device
    \o <<Ask("u32", "slot"), Ask("string", "source-file"), Read("source-file")>>
    \o libhoth_controlled_storage_write

htool_controlled_storage_read ==
    htool_libhoth_device \o <<Ask("u32", "slot")>>
    \o libhoth_controlled_storage_read
    \o When(Isnt("dest-file", {"", NULL}),
            <<Create("dest-file"), Write("dest-file")>>)

htool_controlled_storage_delete ==
    htool_libhoth_device \o <<Ask("u32", "slot")>>
    \o libhoth_controlled_storage_delete

\* Exactly one of --dio and --mio.
GpioPad ==
    When(Is("dio", {NULL}), <<Require(Given("mio"))>>)
    \o When(Given("dio"), <<Require(Is("mio", {NULL})), Ask("u32", "dio")>>)
    \o When(Is("dio", {NULL}), <<Ask("u32", "mio")>>)

command_set_gpio_drive_strength ==
    htool_libhoth_device \o <<Ask("u32", "strength")>>
    \o <<Check("strength <= 15")>> \o GpioPad \o libhoth_set_gpio_drive_strength

command_get_gpio_drive_strength ==
    htool_libhoth_device \o GpioPad \o libhoth_get_gpio_drive_strength

command_hello ==
    htool_libhoth_device \o <<Ask("u32", "number")>> \o libhoth_hello

command_opentitan_version == htool_libhoth_device \o libhoth_opentitan_version

command_extract_ot_bundle ==
    <<Ask("string", "source-file"), Read("source-file"),
      Check("OpenTitan bundle")>>

-----------------------------------------------------------------------------
(* TARGET_CONTROL: debug, secure boot switches, multiplexers               *)

TargetControl(step) == htool_libhoth_device \o <<step, Sized>>
target_control_get == TargetControl(GetShort("TARGET_CONTROL get"))
target_control_set == TargetControl(PutShort("TARGET_CONTROL set"))

\* The change, then a second command that reads back what it came to.
target_control_change ==
    target_control_set \o <<GetShort("TARGET_CONTROL get"), Sized>>

htool_target_debug_enable == target_control_set

htool_target_debug_disable == target_control_set

htool_target_debug_get == target_control_get

htool_external_usb_host_check_presence ==
    target_control_get \o <<Check("target status")>>

\* The last verb says which of its three commands was typed.
htool_sbs_single_run ==
    When(Is("verb", {"get"}), target_control_get)
    \o When(Isnt("verb", {"get"}), target_control_set)

htool_sbs_dual_run ==
    When(Is("verb", {"get"}), target_control_get)
    \o When(Isnt("verb", {"get"}), target_control_set)

htool_rot_usb_muxctrl_get == target_control_get

rot_usb_mux_control_change_select == target_control_change
htool_rot_usb_muxctrl_connect_rot_to_host == rot_usb_mux_control_change_select
htool_rot_usb_muxctrl_connect_rot_to_front_panel ==
    rot_usb_mux_control_change_select

htool_i2c_muxctrl_get == target_control_get

i2c_mux_control_change_select == target_control_change
htool_i2c_muxctrl_select_rot == i2c_mux_control_change_select
htool_i2c_muxctrl_select_host == i2c_mux_control_change_select

-----------------------------------------------------------------------------
(* I2C and JTAG                                                            *)

i2c_detect ==
    <<Ask("u32", "bus"), Ask("u32", "start"), Ask("u32", "end")>>
    \o libhoth_i2c_detect

I2cAddress ==
    <<Ask("u32", "bus"), Ask("u32", "frequency"), Ask("u32", "address"),
      Ask("u32", "offset")>>

i2c_read ==
    I2cAddress \o <<Ask("u32", "length"), Ask("bool", "repeated_start")>>
    \o libhoth_i2c_transfer

\* An error on the bus is printed, and no more.
i2c_write ==
    I2cAddress \o <<Ask("bool", "no_stop"), Ask("string", "byte_stream"),
                    Check("byte stream")>>
    \o libhoth_i2c_transfer \o Dropped(<<Check("no error on the bus")>>)

htool_i2c_run ==
    htool_libhoth_device \o When(Is("verb", {"detect"}), i2c_detect)
    \o When(Is("verb", {"read"}), i2c_read)
    \o When(Is("verb", {"write"}), i2c_write)

JtagClock ==
    <<Ask("u32", "clk_idiv"), Check("clk_idiv fits"),
      Ask("u32", "jtag_interface_id"), Check("interface fits")>>

jtag_read_idcode == JtagClock \o libhoth_jtag_read_idcode

\* Data that comes back changed is printed, and no more.
jtag_test_bypass ==
    <<Ask("u32", "clk_idiv"), Ask("string", "tdi_bytes"),
      Check("clk_idiv fits"), Ask("u32", "jtag_interface_id"),
      Check("interface fits"), Check("tdi bytes")>>
    \o libhoth_jtag_test_bypass \o Dropped(<<Check("TDI and TDO agree")>>)

JtagPld ==
    <<Ask("u32", "offset"), Ask("u32", "jtag_interface_id"),
      Check("interface fits")>>

jtag_program_and_verify_pld == JtagPld \o libhoth_jtag_program_and_verify_pld

jtag_verify_pld == JtagPld \o libhoth_jtag_verify_pld

htool_jtag_run ==
    htool_libhoth_device \o When(Is("verb", {"read_idcode"}), jtag_read_idcode)
    \o When(Is("verb", {"test_bypass"}), jtag_test_bypass)
    \o When(Is("verb", {"program_and_verify_pld"}), jtag_program_and_verify_pld)
    \o When(Is("verb", {"verify_pld"}), jtag_verify_pld)
=============================================================================
