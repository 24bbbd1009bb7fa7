----------------------------- MODULE HtoolTable -----------------------------
(***************************************************************************)
(* The command table of htool (examples/htool.c): for every command its    *)
(* verbs, its alias, the function that carries it out and its parameters   *)
(* with their one-letter names and default values, in the table's order,   *)
(* which is the order in which find_command() tries them.                  *)
(***************************************************************************)
EXTENDS HtoolSecurity

Value(ch, name, default) ==
    [type |-> "value", ch |-> ch, name |-> name, default |-> default]

Bool(ch, name, default) ==
    [type |-> "bool", ch |-> ch, name |-> name, default |-> default]

Positional(name, default) ==
    [type |-> "positional", ch |-> "", name |-> name, default |-> default]

Cmd(verbs, alias, func, params) ==
    [verbs |-> verbs, alias |-> alias, func |-> func, params |-> params]

GLOBAL_FLAGS == <<
    Value("", "transport", ""), Value("", "usb_loc", ""),
    Value("", "usb_product", ""), Value("", "spidev_path", ""),
    Bool("", "spidev_atomic", "false"), Value("", "spidev_speed_hz", "0"),
    Value("", "spidev_device_busy_wait_timeout", "180000000"),
    Value("", "spidev_device_busy_wait_check_interval", "100"),
    Value("", "mtddev_path", ""), Value("", "mtddev_name", "hoth-mailbox"),
    Value("", "mailbox_location", "0"), Value("", "dbus_hoth_id", ""),
    Value("", "connect_timeout", "10s"), Bool("", "version", "false") >>

-----------------------------------------------------------------------------
(* CMDS, in ten parts                                                      *)

SpiAndTarget == <<
    Cmd(<<"usb", "list">>, <<>>, command_usb_list, <<>>),
    Cmd(<<"reboot">>, <<"ec_reboot">>, command_reboot,
        <<Bool("w", "warm", "false")>>),
    Cmd(<<"show", "firmware_version">>, <<"ec_get_version">>,
        command_get_version, <<>>),
    Cmd(<<"show", "chipinfo">>, <<>>, command_show_chipinfo, <<>>),
    Cmd(<<"spi", "read">>, <<>>, command_spi_read,
        <<Value("s", "start", "0"), Value("n", "length", NULL),
          Value("a", "address_mode", "3B/4B"),
          Positional("dest-file", NULL)>>),
    Cmd(<<"spi", "update">>, <<>>, command_spi_update,
        <<Value("s", "start", "0"), Bool("v", "verify", "true"),
          Value("a", "address_mode", "3B/4B"),
          Positional("source-file", NULL)>>),
    Cmd(<<"spi", "passthrough", "off">>, <<>>, command_passthrough_disable,
        <<>>),
    Cmd(<<"spi", "passthrough", "on">>, <<>>, command_passthrough_enable,
        <<>>),
    Cmd(<<"target", "reset", "on">>, <<>>, command_target_reset_on, <<>>),
    Cmd(<<"target", "reset", "off">>, <<>>, command_target_reset_off, <<>>),
    Cmd(<<"target", "reset", "pulse">>, <<>>, command_target_reset_pulse,
        <<>>),
    Cmd(<<"target", "debug", "enable">>, <<>>, htool_target_debug_enable,
        <<>>),
    Cmd(<<"target", "debug", "disable">>, <<>>, htool_target_debug_disable,
        <<>>),
    Cmd(<<"target", "debug", "get">>, <<>>, htool_target_debug_get, <<>>),
    Cmd(<<"target", "watchdog", "pet">>, <<>>, htool_target_watchdog_pet,
        <<Value("c", "cookie", "0")>>) >>

ConsoleAndPayload == <<
    Cmd(<<"console">>, <<>>, command_console,
        <<Value("c", "channel", NULL), Bool("f", "force_drive_tx", "0"),
          Bool("h", "history", "false"), Bool("n", "onlcr", "false"),
          Value("b", "baud_rate", "0"), Bool("s", "snapshot", "false"),
          Value("", "claim_timeout_secs", "60"),
          Value("", "yield_ms", "50")>>),
    Cmd(<<"payload", "getstatus">>, <<>>, htool_payload_update_getstatus,
        <<>>),
    Cmd(<<"payload", "verify">>, <<>>, htool_payload_update_verify,
        <<Bool("d", "descriptor", "false")>>),
    Cmd(<<"payload", "status">>, <<>>, htool_payload_status, <<>>),
    Cmd(<<"payload", "update">>, <<>>, htool_payload_update,
        <<Positional("source-file", NULL), Bool("s", "skip_erase", "false"),
          Bool("b", "binary", "false")>>),
    Cmd(<<"payload", "confirm">>, <<>>, htool_payload_update_confirm, <<>>),
    Cmd(<<"payload", "get_timeout">>, <<>>,
        htool_payload_update_confirm_get_staged_timeout, <<>>),
    Cmd(<<"payload", "timeout_enable">>, <<>>,
        htool_payload_update_confirm_enable,
        <<Bool("e", "enable", "true"), Value("t", "timeout", "0")>>),
    Cmd(<<"payload", "read">>, <<>>, htool_payload_read,
        <<Positional("dest-file", NULL), Value("s", "start", "0"),
          Value("n", "length", "0")>>),
    Cmd(<<"payload", "erase">>, <<>>, htool_payload_erase,
        <<Value("s", "start", NULL), Value("n", "length", NULL)>>),
    Cmd(<<"payload", "activate">>, <<>>, htool_payload_activate,
        <<Value("s", "side", NULL)>>),
    Cmd(<<"payload", "info", "all">>, <<>>, htool_payload_info_all,
        <<Positional("source-file", NULL)>>) >>

FirmwareAndAuthz == <<
    Cmd(<<"payload", "info", "nonstatic">>, <<>>,
        htool_payload_info_nonstatic,
        <<Positional("source-file", NULL)>>),
    Cmd(<<"payload", "info">>, <<>>, htool_payload_info,
        <<Positional("source-file", NULL)>>),
    Cmd(<<"payload", "mauv", "compiled">>, <<>>,
        htool_get_compiled_payload_mauv, <<>>),
    Cmd(<<"payload", "mauv", "effective">>, <<>>,
        htool_get_effective_payload_mauv, <<>>),
    Cmd(<<"firmware_update", "update_from_flash_and_reset">>, <<>>,
        htool_firmware_update,
        <<Value("o", "offset", "0")>>),
    Cmd(<<"dfu", "update">>, <<>>, htool_dfu_update,
        <<Positional("fwupdate-file", NULL), Value("", "reset", "warm"),
          Bool("f", "force", "false")>>),
    Cmd(<<"dfu", "check">>, <<>>, htool_dfu_check,
        <<Positional("fwupdate-file", NULL)>>),
    Cmd(<<"flash_spi_info">>, <<>>, command_flash_spi_info, <<>>),
    Cmd(<<"statistics">>, <<>>, htool_statistics, <<>>),
    Cmd(<<"get_panic">>, <<>>, htool_panic_get_panic,
        <<Bool("c", "clear", "false"), Bool("h", "hexdump", "false"),
          Value("f", "file", "")>>),
    Cmd(<<"authz_record", "read">>, <<>>, command_authz_record_read, <<>>),
    Cmd(<<"authz_record", "erase">>, <<>>, command_authz_record_erase,
        <<>>),
    Cmd(<<"authz_record", "build">>, <<>>, command_authz_record_build,
        <<Value("c", "caps", "0")>>),
    Cmd(<<"authz_record", "set">>, <<>>, command_authz_record_set,
        <<Positional("record", NULL)>>),
    Cmd(<<"authz_host_command", "build">>, <<>>,
        command_authz_host_command_build,
        <<Positional("opcode", NULL)>>) >>

SecureBootSwitches == <<
    Cmd(<<"authz_host_command", "send">>, <<>>,
        command_authz_host_command_send,
        <<Positional("command", NULL)>>),
    Cmd(<<"arm_coordinated_reset">>, <<>>, command_arm_coordinated_reset,
        <<>>),
    Cmd(<<"srtm">>, <<>>, command_srtm,
        <<Value("m", "measurement", NULL)>>),
    Cmd(<<"sbs_single", "get">>, <<>>, htool_sbs_single_run, <<>>),
    Cmd(<<"sbs_single", "connect_flash_to_rot">>, <<>>, htool_sbs_single_run,
        <<>>),
    Cmd(<<"sbs_single", "connect_flash_to_target">>, <<>>,
        htool_sbs_single_run, <<>>),
    Cmd(<<"sbs_dual", "get">>, <<>>, htool_sbs_dual_run, <<>>),
    Cmd(<<"sbs_dual", "connect_target_to_spi_flash_0">>, <<>>,
        htool_sbs_dual_run, <<>>),
    Cmd(<<"sbs_dual", "connect_target_to_spi_flash_1">>, <<>>,
        htool_sbs_dual_run, <<>>),
    Cmd(<<"i2c", "detect">>, <<>>, htool_i2c_run,
        <<Value("b", "bus", "0"), Value("s", "start", "0"),
          Value("e", "end", "127")>>),
    Cmd(<<"i2c", "read">>, <<>>, htool_i2c_run,
        <<Value("b", "bus", "0"), Value("f", "frequency", "400"),
          Value("a", "address", NULL), Value("o", "offset", "-1"),
          Bool("r", "repeated_start", "true"), Value("l", "length", NULL)>>),
    Cmd(<<"i2c", "write">>, <<>>, htool_i2c_run,
        <<Value("b", "bus", "0"), Value("f", "frequency", "400"),
          Value("a", "address", NULL), Value("o", "offset", "-1"),
          Bool("r", "no_stop", "false"), Positional("byte_stream", NULL)>>),
    Cmd(<<"i2c", "mux_ctrl", "get">>, <<>>, htool_i2c_muxctrl_get, <<>>),
    Cmd(<<"i2c", "mux_ctrl", "select_target">>, <<>>,
        htool_i2c_muxctrl_select_rot, <<>>) >>

BusSwitches == <<
    Cmd(<<"i2c", "mux_ctrl", "select_rot">>, <<>>,
        htool_i2c_muxctrl_select_rot, <<>>),
    Cmd(<<"i2c", "mux_ctrl", "select_host">>, <<>>,
        htool_i2c_muxctrl_select_host, <<>>),
    Cmd(<<"target_usb", "mux_ctrl", "get">>, <<>>, htool_rot_usb_muxctrl_get,
        <<>>),
    Cmd(<<"target_usb", "mux_ctrl", "connect_target_to_host">>, <<>>,
        htool_rot_usb_muxctrl_connect_rot_to_host, <<>>),
    Cmd(<<"target_usb", "mux_ctrl", "connect_target_to_front_panel">>, <<>>,
        htool_rot_usb_muxctrl_connect_rot_to_front_panel, <<>>),
    Cmd(<<"rot_usb", "mux_ctrl", "get">>, <<>>, htool_rot_usb_muxctrl_get,
        <<>>),
    Cmd(<<"rot_usb", "mux_ctrl", "connect_rot_to_host">>, <<>>,
        htool_rot_usb_muxctrl_connect_rot_to_host, <<>>),
    Cmd(<<"rot_usb", "mux_ctrl", "connect_rot_to_front_panel">>, <<>>,
        htool_rot_usb_muxctrl_connect_rot_to_front_panel, <<>>),
    Cmd(<<"raw_host_command">>, <<>>, command_raw_host_command, <<>>),
    Cmd(<<"jtag", "read_idcode">>, <<>>, htool_jtag_run,
        <<Value("i", "jtag_interface_id", "0"),
          Value("d", "clk_idiv", "47")>>),
    Cmd(<<"jtag", "test_bypass">>, <<>>, htool_jtag_run,
        <<Value("i", "jtag_interface_id", "0"),
          Value("d", "clk_idiv", "47"), Positional("tdi_bytes", "")>>),
    Cmd(<<"external_usb_host", "check_presence">>, <<>>,
        htool_external_usb_host_check_presence, <<>>) >>

JtagAndStorage == <<
    Cmd(<<"jtag", "program_and_verify_pld">>, <<>>, htool_jtag_run,
        <<Value("i", "jtag_interface_id", "0"), Value("o", "offset", "0")>>),
    Cmd(<<"jtag", "verify_pld">>, <<>>, htool_jtag_run,
        <<Value("i", "jtag_interface_id", "0"), Value("o", "offset", "0")>>),
    Cmd(<<"storage", "read">>, <<>>, htool_controlled_storage_read,
        <<Value("s", "slot", "0"), Positional("dest-file", "")>>),
    Cmd(<<"storage", "write">>, <<>>, htool_controlled_storage_write,
        <<Value("s", "slot", "0"), Positional("source-file", NULL)>>),
    Cmd(<<"storage", "delete">>, <<>>, htool_controlled_storage_delete,
        <<Value("s", "slot", "0")>>),
    Cmd(<<"gpio", "set_drive_strength">>, <<>>,
        command_set_gpio_drive_strength,
        <<Value("s", "strength", NULL), Value("d", "dio", NULL),
          Value("m", "mio", NULL)>>) >>

GpioAndVersions == <<
    Cmd(<<"gpio", "get_drive_strength">>, <<>>,
        command_get_gpio_drive_strength,
        <<Value("d", "dio", NULL), Value("m", "mio", NULL)>>),
    Cmd(<<"hello">>, <<>>, command_hello, <<Value("n", "number", "0")>>),
    Cmd(<<"opentitan_version">>, <<>>, command_opentitan_version, <<>>),
    Cmd(<<"extract_ot_bundle">>, <<>>, command_extract_ot_bundle,
        <<Positional("source-file", NULL)>>),
    Cmd(<<"key_rotation", "get", "status">>, <<>>,
        htool_key_rotation_get_status, <<>>),
    Cmd(<<"key_rotation", "get", "version">>, <<>>,
        htool_key_rotation_get_version, <<>>),
    Cmd(<<"key_rotation", "payload", "status">>, <<>>,
        htool_key_rotation_payload_status, <<>>),
    Cmd(<<"key_rotation", "update">>, <<>>, htool_key_rotation_update,
        <<Positional("source-file", NULL)>>),
    Cmd(<<"key_rotation", "read">>, <<>>, htool_key_rotation_read,
        <<Value("o", "offset", "0"), Value("s", "size", NULL),
          Value("h", "half", "active"), Value("f", "output_file", "")>>) >>

KeyRotationCmds == <<
    Cmd(<<"key_rotation", "read_chunk">>, <<>>,
        htool_key_rotation_read_chunk_type,
        <<Value("o", "offset", "0"), Value("s", "size", "0"),
          Value("i", "idx", "0"), Value("t", "type", NULL),
          Value("f", "output_file", "")>>),
    Cmd(<<"key_rotation", "chunk_type_count">>, <<>>,
        htool_key_rotation_chunk_type_count,
        <<Value("t", "type", NULL)>>),
    Cmd(<<"key_rotation", "erase", "record">>, <<>>,
        htool_key_rotation_erase_record, <<>>),
    Cmd(<<"key_rotation", "set", "mauv">>, <<>>, htool_key_rotation_set_mauv,
        <<Value("m", "mauv", NULL)>>),
    Cmd(<<"key_rotation", "get", "mauv">>, <<>>, htool_key_rotation_get_mauv,
        <<>>),
    Cmd(<<"secure_boot", "get_enforcement">>, <<>>,
        htool_secure_boot_get_enforcement, <<>>),
    Cmd(<<"secure_boot", "enable_enforcement">>, <<>>,
        htool_secure_boot_enable_enforcement, <<>>),
    Cmd(<<"security", "info">>, <<>>, htool_info, <<>>),
    Cmd(<<"tpm_spi", "probe">>, <<>>, htool_tpm_spi_probe, <<>>),
    Cmd(<<"provisioning", "read">>, <<>>, htool_get_provisioning_log,
        <<Value("", "output", "")>>),
    Cmd(<<"provisioning", "validate_and_sign">>, <<>>,
        htool_validate_and_sign,
        <<Value("", "perso_blob", ""), Value("", "output", "")>>),
    Cmd(<<"provisioning", "store_secrets">>, <<>>,
        htool_provisioning_store_secrets,
        <<Value("", "secrets", "")>>),
    Cmd(<<"provisioning", "write">>, <<>>, htool_provisioning_write,
        <<Value("", "input", "")>>) >>

ProvisioningAndCerts == <<
    Cmd(<<"provisioning", "load_mldsa_key">>, <<>>,
        htool_provisioning_load_mldsa_key,
        <<Value("", "key", "")>>),
    Cmd(<<"security", "get_alias_key_cert">>, <<>>, htool_get_alias_key_cert,
        <<Value("", "output", ""), Value("", "version", "1")>>),
    Cmd(<<"security", "get_device_id_cert">>, <<>>, htool_get_device_id_cert,
        <<Value("", "cert_output", ""),
          Value("", "endorsement_cert_output", "")>>),
    Cmd(<<"security", "get_attestation_pub_cert">>, <<>>,
        htool_get_attestation_pub_cert,
        <<Value("", "output", "")>>),
    Cmd(<<"security", "get_signed_attestation_pub_cert">>, <<>>,
        htool_get_signed_attestation_pub_cert,
        <<Value("", "output", "")>>),
    Cmd(<<"security", "unload_attestation_key">>, <<>>,
        htool_unload_attestation_key, <<>>),
    Cmd(<<"security", "gen_attestation_key_v1">>, <<>>,
        htool_gen_attestation_key_v1,
        <<Value("", "csr_output", NULL),
          Value("", "wrapped_key_output", NULL)>>),
    Cmd(<<"security", "gen_attestation_key_v2">>, <<>>,
        htool_gen_attestation_key_v2,
        <<Value("", "fw_major_version", NULL),
          Value("", "csr_output", NULL),
          Value("", "wrapped_key_output", NULL)>>),
    Cmd(<<"security", "load_attestation_key">>, <<>>,
        htool_load_attestation_key,
        <<Value("", "wrapped_key", NULL), Value("", "cert", NULL)>>),
    Cmd(<<"security", "load_attestation_key_from_csr_v1">>, <<>>,
        htool_load_attestation_key_from_csr_v1,
        <<Value("", "wrapped_key", NULL), Value("", "csr", NULL)>>),
    Cmd(<<"security", "provision_attestation_key">>, <<>>,
        htool_provision_attestation_key, <<>>) >>

AttestationCmds == <<
    Cmd(<<"security", "attestation">>, <<>>, htool_fetch_attestation,
        <<Value("", "token_output", ""), Value("", "token_set_info", ""),
          Value("", "token_boot_nonce_output", ""),
          Value("", "token_signature_output", ""),
          Value("", "token_count_boot_nonce_output", ""),
          Value("", "token_count_signature_output", ""),
          Value("", "token_count_output", ""),
          Value("", "attestation_file", "")>>),
    Cmd(<<"security", "startup">>, <<>>, htool_security_startup, <<>>),
    Cmd(<<"mauv", "compiled">>, <<>>, htool_mauv_compiled, <<>>),
    Cmd(<<"mauv", "effective">>, <<>>, htool_mauv_effective, <<>>),
    Cmd(<<"mauv", "update">>, <<>>, htool_mauv_update,
        <<Positional("record-file", NULL)>>),
    Cmd(<<"tpm", "get_mode">>, <<>>, htool_get_tpm_mode, <<>>),
    Cmd(<<"tpm", "set_mode", "disabled">>, <<>>, htool_set_tpm_mode, <<>>),
    Cmd(<<"tpm", "set_mode", "tpm_spi">>, <<>>, htool_set_tpm_mode, <<>>),
    Cmd(<<"tpm", "set_mode", "spi_nor_mailbox">>, <<>>, htool_set_tpm_mode,
        <<>>),
    Cmd(<<"update_session", "start">>, <<>>, htool_update_session_start,
        <<Value("t", "timeout", ""), Positional("timeout_seconds", "")>>),
    Cmd(<<"update_session", "finalize">>, <<"update_session", "end">>,
        htool_update_session_finalize, <<>>),
    Cmd(<<"update_session", "status">>, <<"update_session", "get_status">>,
        htool_update_session_status, <<>>) >>

CMDS ==
    SpiAndTarget \o ConsoleAndPayload \o FirmwareAndAuthz
    \o SecureBootSwitches \o BusSwitches \o JtagAndStorage
    \o GpioAndVersions \o KeyRotationCmds
    \o ProvisioningAndCerts \o AttestationCmds
=============================================================================
